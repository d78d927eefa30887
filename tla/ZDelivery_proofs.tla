---------------------------- MODULE ZDelivery_proofs ----------------------------
(***************************************************************************)
(* Sessions of several files keep what they promise: a file the sender     *)
(* reports as sent was delivered whole, and on a line that damages nothing *)
(* the two programs never wait for each other for ever.                    *)
(***************************************************************************)
EXTENDS ZSession_proofs

-----------------------------------------------------------------------------
\* What is on the line is labelled right, in every file.

\* The sender sends no block to a reader that is there, or the next one
\* starts at p.
NextIs(p) == spc \in InData => Closed(toS) \/ (spc = "data" /\ spos = p)

\* What follows the first i frames of toR is the block at p, or no block.
Names(i, p) ==
  IF i = Len(toR) THEN NextIs(p) ELSE toR[i + 1].k = "data" => toR[i + 1].lo = p

IsZDATA(e) == e.k = "hdr" /\ e.t = "ZDATA"

Labelled ==
  \A i \in 1 .. Len(toR) :
    /\ toR[i].k = "data" => toR[i].lo + toR[i].n <= Len(File)
    /\ IsZEOF(toR[i]) => toR[i].p = Len(File)
    /\ IsZDATA(toR[i]) => Names(i, toR[i].p)
BlockNamed == rpc = "block" => Names(0, rpos)

\* The receiver asks for positions of the file, and its stream ends when it
\* has ended or the sender has.
AnswersOnly ==
  \A i \in 1 .. Len(toS) : toS[i].k = "hdr" =>
    /\ toS[i].t \in {"ZRINIT", "ZNAK", "ZACK", "ZRPOS", "ZSKIP", "ZCOMPL"}
    /\ toS[i].t = "ZRPOS" => toS[i].p <= Len(File)
Hung == Closed(toS) => rpc = "end" \/ Closed(toR)

\* In a file the sender is in step with its source.
InStep == sphase = "loop" \/ ReaderInStep

Integrity == Labelled /\ BlockNamed /\ AnswersOnly /\ Hung /\ Copied /\ InStep

\* A stream that is read stays closed, and one that was open stays open.
LEMMA ThinnedEnds ==
  ASSUME NEW ch \in Seq(Frame), NEW ch2 \in Seq(Frame), NEW d \in {0, 1},
         Thinned(ch, ch2, d)
  PROVE  Closed(ch) <=> Closed(ch2)
<1>1. Closed(ch) => Closed(ch2)
  BY ThinnedStaysClosed
<1>2. ASSUME Closed(ch2) PROVE Closed(ch)
  <2>1. /\ Len(ch2) \in Nat /\ Len(ch) \in Nat /\ Len(ch2) = Len(ch) - d
        /\ ch2 # <<>>
    BY <1>2 DEF Thinned, Closed
  <2>2. Len(ch2) \in 1 .. Len(ch2) /\ Len(ch2) + d = Len(ch)
    BY <2>1
  <2>3. ch2[Len(ch2)].k = "eof"
    BY <1>2 DEF Closed
  <2>4. ch2[Len(ch2)] = ch[Len(ch2) + d]
    BY <2>2, <2>3 DEF Thinned
  <2>5. ch # <<>>
    BY <2>1, <2>2
  <2> QED BY <2>2, <2>3, <2>4, <2>5 DEF Closed
<1> QED BY <1>1, <1>2

\* A stream ends with the frame that was appended last.
LEMMA AppendedEnds ==
  ASSUME NEW ch \in Seq(Frame), NEW e \in Frame, NEW ch2, ch2 = ch \o <<e>>
  PROVE  /\ ch2 \in Seq(Frame) /\ Len(ch2) = Len(ch) + 1 /\ ch2[Len(ch) + 1] = e
         /\ \A i \in 1 .. Len(ch) : ch2[i] = ch[i]
         /\ Closed(ch2) <=> e.k = "eof"
<1>1. <<e>> \in Seq(Frame) /\ Len(<<e>>) = 1 /\ <<e>>[1] = e /\ Len(ch) \in Nat
  OBVIOUS
<1>2. /\ ch2 \in Seq(Frame) /\ Len(ch2) = Len(ch) + 1 /\ ch2[Len(ch) + 1] = e
      /\ \A i \in 1 .. Len(ch) : ch2[i] = ch[i]
  BY <1>1, ConcatProperties
<1>3. ch2 # <<>>
  BY <1>1, <1>2
<1> QED BY <1>2, <1>3 DEF Closed

\* Once the other end has closed its stream, writes are lost; only the end of
\* one's own is still put there.
LEMMA SendingIsLost ==
  ASSUME TypeOK, SendSide, Closed(toS)
  PROVE  toR' = toR \/ Closed(toR')
<1>1. ASSUME NEW es, SWrites(es) PROVE toR' = toR
  BY <1>1 DEF SWrites, Written
<1>2. CASE SCloses
  <2>1. toR' = toR \o <<Eof>> /\ toR \in Seq(Frame)
    BY <1>2 DEF SCloses, SClose, TypeOK, LineTypeOK
  <2> QED BY <2>1, AppendedEnds, FramesAreTyped DEF Eof
<1>3. CASE TInit \/ TFinReply \/ TFin
  BY <1>1, <1>3 DEF TInit, TFinReply, SQuiet, TFin
<1>4. CASE SNextFile \/ SFileDone \/ SRetryFile \/ SAborts \/ SAllSent
  BY <1>4 DEF SNextFile, SFileDone, SRetryFile, SAborts, SAllSent, SLoops
<1>5. CASE SCalls
  <2>1. SCall
    BY <1>5 DEF SCalls
  <2>2. CASE \/ SSkipGarbage \/ SInitZRINIT \/ SInitNoHeader \/ SZsinitReply
             \/ SFileReply \/ SDiscard \/ SCancelled \/ SAckW \/ SAckQ
             \/ SWinWait \/ SEofReply \/ SWriteFails
    BY <2>2 DEF SSkipGarbage, SInitZRINIT, SInitNoHeader, SZsinitReply,
       SFileReply, SDiscard, SCancelled, SAckW, SAckQ, SWinWait, SEofReply,
       SWriteFails, SQuiet
  <2>3. CASE SInitTop \/ SInitOther
    BY <1>1, <2>3 DEF SInitTop, SInitOther, SQuiet
  <2>4. CASE SZsinitTop \/ SFileTop \/ SFileCRC \/ SEofTop \/ SBlock
    BY <1>1, <2>4 DEF SZsinitTop, SFileTop, SFileCRC, SEofTop, SBlock
  <2>5. CASE SFileZRPOS \/ SAckWSeek \/ SEofZRPOS
    BY <1>1, <2>5 DEF SFileZRPOS, SAckWSeek, SEofZRPOS, StartData
  <2> QED BY <2>1, <2>2, <2>3, <2>4, <2>5 DEF SCall
<1> QED BY <1>2, <1>3, <1>4, <1>5 DEF SendSide

\* The same of the receiver.
LEMMA AnsweringIsLost ==
  ASSUME TypeOK, ReceiveSide, Closed(toR)
  PROVE  toS' = toS \/ Closed(toS')
<1>1. ASSUME NEW es, RWrites(es) PROVE toS' = toS
  BY <1>1 DEF RWrites, Written
<1>2. CASE RCloses
  <2>1. toS' = toS \o <<Eof>> /\ toS \in Seq(Frame)
    BY <1>2 DEF RCloses, RClose, TypeOK, LineTypeOK
  <2> QED BY <2>1, AppendedEnds, FramesAreTyped DEF Eof
<1>3. CASE RNextFile \/ ROver
  BY <1>3 DEF RNextFile, ROver
<1>4. CASE RCalls
  <2>1. RCall
    BY <1>4 DEF RCalls
  <2>2. RAttention => toS' = toS
    BY <1>1 DEF RAttention, RQuiet
  <2>3. CASE RSkipGarbage \/ RFinWait \/ RDiscard \/ RWriteFails
    BY <2>3 DEF RSkipGarbage, RFinWait, RDiscard, RWriteFails, RQuiet
  <2>4. CASE RTry \/ RTryReply \/ RInfo \/ RInfoFails \/ RPrompt \/ RZrpos
    BY <1>1, <2>4 DEF RTry, RTryReply, RInfo, RInfoFails, RPrompt, RZrpos, RQuiet
  <2>5. CASE RDataReply \/ RBlock \/ RBlockFails
    BY <1>1, <2>2, <2>5 DEF RDataReply, RBlock, RBlockFails, RQuiet
  <2> QED BY <2>1, <2>3, <2>4, <2>5 DEF RCall
<1> QED BY <1>2, <1>3, <1>4 DEF ReceiveSide

-----------------------------------------------------------------------------
\* What a step of the sending program may append to the stream: frames none of
\* which is mislabelled, and that may follow whatever was promised.
Fitting(es) ==
  /\ es \in Seq(Frame) /\ es # <<>>
  /\ \A p \in Nat : NextIs(p) => (es[1].k = "data" => es[1].lo = p)
  /\ \A i \in 1 .. Len(es) :
       /\ es[i].k = "data" => es[i].lo + es[i].n <= Len(File)
       /\ IsZEOF(es[i]) => es[i].p = Len(File)
       /\ IsZDATA(es[i]) => i = Len(es) /\ NextIs(es[i].p)'

\* It writes nothing and keeps its promises, or appends fitting frames.
SenderSends ==
  \/ toR' = toR /\ \A p \in Nat : NextIs(p) => NextIs(p)'
  \/ \E es : Fitting(es) /\ toR' = toR \o es

\* Frames that are neither subpackets nor ZDATA nor ZEOF always fit.
PlainFrame(e) ==
  e \in Frame /\ e.k # "data" /\ (e.k = "hdr" => e.t \notin {"ZDATA", "ZEOF"})

\* Nothing plain can break what was promised about a block.
LEMMA PlainFramesFit ==
  ASSUME NEW e, PlainFrame(e)
  PROVE  Fitting(<<e>>) /\ \A f : PlainFrame(f) => Fitting(<<e, f>>)
<1>1. <<e>> \in Seq(Frame) /\ \A f \in Frame : <<e, f>> \in Seq(Frame)
  BY DEF PlainFrame
<1>2. Fitting(<<e>>)
  BY <1>1 DEF PlainFrame, Fitting, IsZDATA, IsZEOF
<1>3. ASSUME NEW f, PlainFrame(f) PROVE Fitting(<<e, f>>)
  <2>1. /\ <<e, f>> \in Seq(Frame) /\ <<e, f>> # <<>> /\ Len(<<e, f>>) = 2
        /\ <<e, f>>[1] = e /\ <<e, f>>[2] = f
    BY <1>1, <1>3 DEF PlainFrame
  <2>2. \A i \in 1 .. 2 : i = 1 \/ i = 2
    OBVIOUS
  <2> QED BY <1>3, <2>1, <2>2 DEF PlainFrame, Fitting, IsZDATA, IsZEOF
<1> QED BY <1>2, <1>3

\* Writing frames that fit, or losing them because the receiver is gone.
LEMMA WritingFits ==
  ASSUME NEW es, Fitting(es), SWrites(es), Closed(toS) => Closed(toS')
  PROVE  SenderSends
BY DEF SWrites, Written, SenderSends, NextIs

\* A step that writes nothing and starts no block.
LEMMA QuietKeeps ==
  ASSUME SQuiet, Closed(toS) => Closed(toS'),
         spc' \in InData => spc \in InData \ {"data"}
  PROVE  SenderSends
BY DEF SQuiet, SenderSends, NextIs

\* What the sender can receive.
LEMMA SenderHears ==
  ASSUME LineTypeOK, AnswersOnly, NEW types, SReceives(types)
  PROVE  /\ Head(toS).t \in types
         /\ Head(toS).t \in {"ZRINIT", "ZNAK", "ZACK", "ZRPOS", "ZSKIP", "ZCOMPL"}
         /\ rxpos \in Nat
         /\ Head(toS).t = "ZRPOS" => rxpos <= Len(File)
<1>1. toS \in Seq(Frame) /\ toS # <<>> /\ Head(toS) = toS[1] /\ 1 \in 1 .. Len(toS)
  BY DEF LineTypeOK, SReceives, Arrives
<1>2. toS[1].k = "hdr" /\ toS[1].t \in types
  BY <1>1 DEF SReceives, Arrives
<1>3. rxpos \in Nat
  BY <1>1, ReceivedPosition DEF SReceives, rxpos
<1> QED BY <1>1, <1>2, <1>3 DEF AnswersOnly, rxpos

\* A ZDATA header sent after a ZRPOS announces the block that is read next.
LEMMA RestartFits ==
  ASSUME Fits, NEW p \in Nat, p <= Len(File), Closed(toS) => Closed(toS'),
         SWrites(<<Hdr("ZDATA", p)>>), spc' = "data", spos' = p
  PROVE  SenderSends
<1>1. <<Hdr("ZDATA", p)>> \in Seq(Frame)
  BY FramesAreTyped, ShortSeqs DEF FrameTypes
<1>2. Hdr("ZDATA", p).p = p
  BY PositionFits DEF Hdr
<1>3. Fitting(<<Hdr("ZDATA", p)>>)
  BY <1>1, <1>2 DEF Fitting, IsZDATA, IsZEOF, NextIs, Hdr
<1> QED BY <1>3, WritingFits

\* Every call of the sender sends fitting frames or none.
LEMMA SenderFits ==
  ASSUME LineTypeOK, SenderTypeOK, AnswersOnly, Fits, SNext,
         spc \in InData => ReaderInStep, Closed(toS) => Closed(toS')
  PROVE  SenderSends
<1> USE DEF SGo, SReturn
<1>1. \A t \in FrameTypes \ {"ZDATA", "ZEOF"}, p \in Nat : Fitting(<<Hdr(t, p)>>)
  <2> TAKE t \in FrameTypes \ {"ZDATA", "ZEOF"}, p \in Nat
  <2>1. PlainFrame(Hdr(t, p))
    BY FramesAreTyped DEF PlainFrame, Hdr
  <2> QED BY <2>1, PlainFramesFit
<1>2. CASE SSkipGarbage
  BY <1>2, QuietKeeps DEF SSkipGarbage, SWaits
<1>3. CASE SInitTop
  <2>1. CASE SQuiet
    BY <1>3, <2>1, QuietKeeps DEF SInitTop, InData
  <2>2. CASE SWrites(<<Hdr("ZRQINIT", 0)>>)
    BY <2>2, <1>1, WritingFits DEF FrameTypes
  <2> QED BY <1>3, <2>1, <2>2 DEF SInitTop
<1>4. CASE SInitZRINIT \/ SInitNoHeader
  BY <1>4, QuietKeeps DEF SInitZRINIT, SInitNoHeader, SInitAgain, InData
<1>5. CASE SInitOther
  <2>1. CASE SQuiet
    BY <1>5, <2>1, QuietKeeps DEF SInitOther, SInitAgain, InData
  <2>2. CASE SWrites(<<Hdr("ZNAK", 0)>>)
    BY <2>2, <1>1, WritingFits DEF FrameTypes
  <2>3. CASE SReceives({"ZCHALLENGE"})
    BY <2>3, SenderHears
  <2> QED BY <1>5, <2>1, <2>2, <2>3 DEF SInitOther
<1>6. CASE SZsinitTop
  <2> DEFINE es == <<Hdr("ZSINIT", 0), IF EscapesCtrl THEN Part(0, 0) ELSE Info>>
  <2>1. PlainFrame(Hdr("ZSINIT", 0)) /\ PlainFrame(Info) /\ PlainFrame(Part(0, 0))
    BY FramesAreTyped DEF PlainFrame, Hdr, Part, Info, FrameTypes
  <2>2. Fitting(es)
    BY <2>1, PlainFramesFit
  <2> QED BY <1>6, <2>2, WritingFits DEF SZsinitTop
<1>7. CASE SZsinitReply
  BY <1>7, QuietKeeps DEF SZsinitReply, SRetry, InData
<1>8. CASE SFileTop
  <2>1. PlainFrame(Hdr("ZFILE", 0)) /\ PlainFrame(Info)
    BY FramesAreTyped DEF PlainFrame, Hdr, Info, FrameTypes
  <2>2. Fitting(<<Hdr("ZFILE", 0), Info>>)
    BY <2>1, PlainFramesFit
  <2> QED BY <1>8, <2>2, WritingFits DEF SFileTop
<1>9. CASE SFileReply
  BY <1>9, QuietKeeps DEF SFileReply, SRetry, InData
<1>10. CASE SDiscard
  BY <1>10, QuietKeeps DEF SDiscard, InData
<1>11. CASE SFileCRC
  BY <1>11, SenderHears DEF SFileCRC
<1>12. CASE SFileZRPOS \/ SEofZRPOS \/ SAckWSeek
  <2>1. SReceives({"ZRPOS"})
    BY <1>12 DEF SFileZRPOS, SEofZRPOS, SAckWSeek
  <2>2. rxpos \in Nat /\ rxpos <= Len(File)
    BY <2>1, SenderHears
  <2>3. SWrites(<<Hdr("ZDATA", rxpos)>>) /\ spc' = "data" /\ spos' = rxpos
    BY <1>12 DEF SFileZRPOS, SEofZRPOS, SAckWSeek, StartData
  <2> QED BY <2>2, <2>3, RestartFits
<1>13. CASE SBlock
  <2> DEFINE e == Data(fpos, ReadLen, FrameEnd(ReadLen))
  <2>1. fpos = spos /\ fpos <= Len(File) /\ spc = "data" /\ spc \in InData
    BY <1>13 DEF SBlock, ReaderInStep, InData
  <2>2. FrameEnd(ReadLen) \in FrameEnds
    BY DEF FrameEnd, FrameEnds
  <2>3. <<e>> \in Seq(Frame)
    BY <2>1, <2>2, ReadLenType, FramesAreTyped, ShortSeqs DEF SenderTypeOK
  <2>4. e.k = "data" /\ e.lo = fpos /\ e.lo + e.n <= Len(File)
    BY <2>1, ReadLenType DEF Data
  <2>5. CASE Closed(toS) /\ toR' = toR
    BY <2>5 DEF SenderSends, NextIs
  <2>6. CASE ~Closed(toS) /\ toR' = toR \o <<e>>
    <3>1. \A p \in Nat : NextIs(p) => (e.k = "data" => e.lo = p)
      BY <2>1, <2>4, <2>6 DEF NextIs
    <3>2. Fitting(<<e>>)
      BY <2>3, <2>4, <3>1 DEF Fitting, IsZDATA, IsZEOF
    <3> QED BY <2>6, <3>2 DEF SenderSends
  <2> QED BY <1>13, <2>5, <2>6 DEF SBlock, SWrites, Written
<1>14. CASE SCancelled \/ SWriteFails
  BY <1>14, QuietKeeps DEF SCancelled, SWriteFails, InData
<1>15. CASE SAckW \/ SAckQ \/ SWinWait
  <2>1. spc \in {"ackW", "ackQ", "win", "winEnd"} /\ SQuiet
    BY <1>15 DEF SAckW, SAckQ, SWinWait
  <2> QED BY <2>1, QuietKeeps DEF InData
<1>16. CASE SEofTop
  <2>1. spos = Len(File) /\ spos \in Nat
    BY <1>16 DEF SEofTop, ReaderInStep, InData, SenderTypeOK
  <2>2. <<Hdr("ZEOF", spos)>> \in Seq(Frame)
    BY <2>1, FramesAreTyped, ShortSeqs DEF FrameTypes
  <2>3. Hdr("ZEOF", spos).p = Len(File)
    BY <2>1, PositionFits DEF Hdr
  <2>4. Fitting(<<Hdr("ZEOF", spos)>>)
    BY <2>2, <2>3 DEF Fitting, IsZDATA, IsZEOF, Hdr
  <2> QED BY <1>16, <2>4, WritingFits DEF SEofTop
<1>17. CASE SEofReply
  BY <1>17, QuietKeeps DEF SEofReply, InData
<1>18. CASE SClose
  <2>1. toR' = toR \o <<Eof>>
    BY <1>18 DEF SClose, LineTypeOK
  <2>2. PlainFrame(Eof)
    BY FramesAreTyped DEF PlainFrame, Eof
  <2>3. Fitting(<<Eof>>)
    BY <2>2, PlainFramesFit
  <2> QED BY <2>1, <2>3 DEF SenderSends
<1> QED
  BY <1>2, <1>3, <1>4, <1>5, <1>6, <1>7, <1>8, <1>9, <1>10, <1>11, <1>12, <1>13,
     <1>14, <1>15, <1>16, <1>17, <1>18
  DEF SNext, SCall

\* So does the program around it.
LEMMA SendSideFits ==
  ASSUME TypeOK, Counted, Phases, AnswersOnly, InStep, Fits, SendSide,
         Closed(toS) => Closed(toS')
  PROVE  SenderSends
<1>1. LineTypeOK /\ SenderTypeOK
  BY DEF TypeOK
<1>2. CASE SCalls \/ SCloses
  <2>1. SNext
    BY <1>2 DEF SCalls, SCloses, SNext
  <2>2. spc \in InData => ReaderInStep
    BY DEF InStep, Phases, SInits, InData
  <2> QED BY <1>1, <2>1, <2>2, SenderFits
<1>3. CASE TInit
  BY <1>3, QuietKeeps DEF TInit, SGo, SReturn, InData
<1>4. CASE SNextFile \/ SFileDone \/ SRetryFile \/ SAborts \/ SAllSent
  <2>1. SQuiet /\ spc' \notin InData
    BY <1>4 DEF SNextFile, SFileDone, SRetryFile, SAborts, SAllSent, BetweenFiles,
                SReturn, SLoops, SQuiet, InData
  <2> QED BY <2>1, QuietKeeps
<1>5. CASE TFin
  <2>1. PlainFrame(Hdr("ZFIN", 0))
    BY FramesAreTyped DEF PlainFrame, Hdr, FrameTypes
  <2>2. Fitting(<<Hdr("ZFIN", 0)>>)
    BY <2>1, PlainFramesFit
  <2> QED BY <1>5, <2>2, WritingFits DEF TFin
<1>6. CASE TFinReply
  BY <1>6, QuietKeeps DEF TFinReply, Counted, InData
<1> QED BY <1>2, <1>3, <1>4, <1>5, <1>6 DEF SendSide

-----------------------------------------------------------------------------
\* Appending fitting frames keeps the labels of the stream right.
LEMMA SenderKeepsLabels ==
  ASSUME TypeOK, Labelled, BlockNamed, SenderSends, UNCHANGED <<rpc, rpos>>
  PROVE  Labelled' /\ BlockNamed'
<1>1. toR \in Seq(Frame) /\ Len(toR) \in Nat /\ rpos \in Nat
  BY DEF TypeOK, LineTypeOK, ReceiverTypeOK
<1>2. \A i \in 1 .. Len(toR) : IsZDATA(toR[i]) => toR[i].p \in Nat
  BY <1>1 DEF IsZDATA, Frame, Info, Nul, BadHdr, Eof
<1>3. CASE toR' = toR /\ \A p \in Nat : NextIs(p) => NextIs(p)'
  <2>1. ASSUME NEW i \in 0 .. Len(toR), NEW p \in Nat, Names(i, p)
        PROVE  Names(i, p)'
    BY <1>3, <2>1 DEF Names
  <2> QED BY <1>1, <1>2, <1>3, <2>1 DEF Labelled, BlockNamed, IsZDATA, IsZEOF
<1>4. ASSUME NEW es, Fitting(es), toR' = toR \o es
      PROVE  Labelled' /\ BlockNamed'
  <2>1. es \in Seq(Frame) /\ Len(es) \in Nat /\ Len(es) > 0
    BY <1>4 DEF Fitting
  <2>2. /\ Len(toR') = Len(toR) + Len(es)
        /\ \A i \in 1 .. Len(toR) + Len(es) :
              toR'[i] = IF i <= Len(toR) THEN toR[i] ELSE es[i - Len(toR)]
    BY <1>1, <1>4, <2>1, ConcatProperties
  <2>3. ASSUME NEW i \in 0 .. Len(toR), NEW p \in Nat, Names(i, p)
        PROVE  Names(i, p)'
    <3>1. CASE i = Len(toR)
      <4>1. toR'[i + 1] = es[1] /\ i # Len(toR')
        BY <1>1, <2>1, <2>2, <3>1
      <4>2. es[1].k = "data" => es[1].lo = p
        BY <1>4, <2>3, <3>1 DEF Fitting, Names
      <4> QED BY <4>1, <4>2 DEF Names
    <3>2. CASE i < Len(toR)
      <4>1. toR'[i + 1] = toR[i + 1] /\ i # Len(toR')
        BY <1>1, <2>1, <2>2, <3>2
      <4> QED BY <2>3, <3>2, <4>1 DEF Names
    <3> QED BY <1>1, <3>1, <3>2
  <2>4. BlockNamed'
    BY <1>1, <2>3 DEF BlockNamed
  <2>5. ASSUME NEW i \in 1 .. Len(toR'), NEW e, e = toR'[i]
        PROVE  /\ e.k = "data" => e.lo + e.n <= Len(File)
               /\ IsZEOF(e) => e.p = Len(File)
               /\ IsZDATA(e) => Names(i, e.p)'
    <3>1. CASE i <= Len(toR)
      <4>1. toR[i] = e /\ i \in 1 .. Len(toR)
        BY <1>1, <2>1, <2>2, <2>5, <3>1
      <4>2. IsZDATA(e) => Names(i, e.p)'
        BY <1>2, <2>3, <4>1 DEF Labelled
      <4> QED BY <4>1, <4>2 DEF Labelled
    <3>2. CASE i > Len(toR)
      <4>1. e = es[i - Len(toR)] /\ i - Len(toR) \in 1 .. Len(es)
        BY <1>1, <2>1, <2>2, <2>5, <3>2
      <4>2. IsZDATA(e) => i - Len(toR) = Len(es) /\ NextIs(e.p)'
        BY <1>4, <4>1 DEF Fitting
      <4>3. i - Len(toR) = Len(es) => i = Len(toR')
        <5>1. Len(toR') = Len(toR) + Len(es) /\ i \in Int
          BY <2>2
        <5> QED BY <1>1, <2>1, <5>1
      <4> QED BY <1>4, <4>1, <4>2, <4>3 DEF Fitting, Names
    <3> QED BY <1>1, <2>1, <2>2, <3>1, <3>2
  <2>6. ASSUME NEW i \in 1 .. Len(toR')
        PROVE  /\ toR'[i].k = "data" => toR'[i].lo + toR'[i].n <= Len(File)
               /\ IsZEOF(toR'[i]) => toR'[i].p = Len(File)
               /\ (IsZDATA(toR[i]) => Names(i, toR[i].p))'
    <3>1. PICK e : e = toR'[i]
      OBVIOUS
    <3>2. /\ e.k = "data" => e.lo + e.n <= Len(File)
          /\ IsZEOF(e) => e.p = Len(File)
          /\ IsZDATA(e) => Names(i, e.p)'
      BY <2>5, <3>1
    <3> QED BY <3>1, <3>2 DEF IsZDATA, IsZEOF, Names, NextIs
  <2>7. Labelled'
    BY <2>6 DEF Labelled, IsZEOF
  <2> QED BY <2>4, <2>7
<1> QED BY <1>3, <1>4 DEF SenderSends

\* What was promised about the frame after the first i + d frames of a stream
\* still holds of the frame after the first i of the thinned one.
LEMMA ThinnedNames ==
  ASSUME toR \in Seq(Frame), toR' \in Seq(Frame),
         NEW d \in {0, 1}, Thinned(toR, toR', d),
         \A p \in Nat : NextIs(p) => NextIs(p)',
         NEW i \in 0 .. Len(toR'), NEW p \in Nat, Names(i + d, p)
  PROVE  Names(i, p)'
<1>1. Len(toR) \in Nat /\ Len(toR') \in Nat /\ Len(toR') = Len(toR) - d
  BY DEF Thinned
<1>2. CASE i = Len(toR')
  BY <1>1, <1>2 DEF Names
<1>3. CASE i < Len(toR')
  <2>1. i + 1 \in 1 .. Len(toR') /\ i + d # Len(toR) /\ i # Len(toR')
    BY <1>1, <1>3
  <2>2. toR[i + d + 1].k = "data" => toR[i + d + 1].lo = p
    BY <2>1 DEF Names
  <2>3. \/ toR'[i + 1] = toR[i + 1 + d]
        \/ toR'[i + 1].k # "data"
    BY <2>1 DEF Thinned
  <2>4. i + d + 1 = i + 1 + d
    OBVIOUS
  <2>5. toR'[i + 1].k = "data" => toR'[i + 1].lo = p
    BY <2>2, <2>3, <2>4
  <2> QED BY <2>1, <2>5 DEF Names
<1> QED BY <1>1, <1>2, <1>3

\* Thinning the stream to the receiver keeps its labels right.
LEMMA ThinnedLabels ==
  ASSUME toR \in Seq(Frame), toR' \in Seq(Frame),
         NEW d \in {0, 1}, Thinned(toR, toR', d),
         \A p \in Nat : NextIs(p) => NextIs(p)',
         Labelled
  PROVE  Labelled'
<1>1. Len(toR) \in Nat /\ Len(toR') \in Nat /\ Len(toR') = Len(toR) - d
  BY DEF Thinned
<1>2. ASSUME NEW i \in 1 .. Len(toR'), NEW e, e = toR'[i]
      PROVE  /\ e.k = "data" => e.lo + e.n <= Len(File)
             /\ IsZEOF(e) => e.p = Len(File)
             /\ IsZDATA(e) => Names(i, e.p)'
  <2>1. CASE e.k \notin {"data", "hdr"}
    BY <2>1 DEF IsZDATA, IsZEOF
  <2>2. CASE e = toR[i + d]
    <3>1. i + d \in 1 .. Len(toR) /\ i \in 0 .. Len(toR')
      BY <1>1
    <3>2. IsZDATA(e) => e.p \in Nat
      BY <2>2, <3>1 DEF IsZDATA, Frame, Info, Nul, BadHdr, Eof
    <3>3. IsZDATA(e) => Names(i + d, e.p)
      BY <2>2, <3>1 DEF Labelled
    <3>4. IsZDATA(e) => Names(i, e.p)'
      BY <3>1, <3>2, <3>3, ThinnedNames
    <3> QED BY <2>2, <3>1, <3>4 DEF Labelled
  <2> QED BY <1>2, <2>1, <2>2 DEF Thinned
<1> QED BY <1>2 DEF Labelled, IsZDATA, IsZEOF, Names, NextIs

\* Thinning the stream to the sender keeps its answers in range.
LEMMA ThinnedAnswers ==
  ASSUME toS \in Seq(Frame), toS' \in Seq(Frame),
         NEW d \in {0, 1}, Thinned(toS, toS', d), AnswersOnly
  PROVE  AnswersOnly'
<1>1. \A i \in 1 .. Len(toS') : toS'[i].k = "hdr" =>
        i + d \in 1 .. Len(toS) /\ toS'[i] = toS[i + d]
  BY ThinnedHeaders
<1> QED BY <1>1 DEF AnswersOnly

-----------------------------------------------------------------------------
\* The sending program keeps its streams and its source right.
LEMMA SenderKeepsSource ==
  ASSUME TypeOK, Counted, Phases, AnswersOnly, InStep, SendSide, Streams,
         Phases'
  PROVE  InStep'
<1>1. LineTypeOK /\ SenderTypeOK
  BY DEF TypeOK
<1>2. CASE SCalls
  <2>1. CASE sphase = "loop"
    BY <1>2, <2>1 DEF SCalls, InStep
  <2>2. CASE sphase # "loop"
    <3>1. SReceives({"ZRPOS"}) => rxpos <= Len(File)
      BY <1>1, SenderHears
    <3>2. ~SReceives({"ZCRC"})
      BY <1>1, SenderHears
    <3>3. SNext /\ ReaderInStep /\ Seekable = TRUE
      BY <1>2, <2>2 DEF SCalls, SNext, InStep, Streams
    <3>4. ReaderInStep'
      BY <1>1, <3>1, <3>2, <3>3, SenderInStep
    <3> QED BY <3>4 DEF InStep
  <2> QED BY <2>1, <2>2
<1>3. CASE TInit
  <2>1. sphase = "loop"
    BY <1>3 DEF TInit, Phases, Counted, SBefore, InData, TypeOK
  <2> QED BY <1>3, <2>1 DEF TInit, InStep
<1>4. CASE SNextFile
  <2>1. spc' = "zfile" /\ (sphase' = "loop" \/ fpos' = 0)
    BY <1>4 DEF SNextFile, BetweenFiles
  <2> QED BY <2>1 DEF InStep, ReaderInStep, InData
<1>5. CASE SFileDone
  BY <1>5 DEF SFileDone, InStep
<1>6. CASE SRetryFile
  BY <1>6 DEF SRetryFile, Phases
<1>7. CASE SAborts \/ SAllSent \/ TFin \/ TFinReply \/ SCloses
  <2>1. spc' \in {"ret", "end"}
    BY <1>7 DEF SAborts, SAllSent, SReturn, TFin, TFinReply, SCloses, SClose, Counted
  <2> QED BY <2>1 DEF InStep, ReaderInStep, BeforeData, InData
<1> QED BY <1>2, <1>3, <1>4, <1>5, <1>6, <1>7 DEF SendSide

\* Integrity in the steps of the sending program.
LEMMA IntegrityBySender ==
  ASSUME IInv, Phases, Integrity, Streams, Sender, SentOnce'
  PROVE  Integrity'
<1>1. /\ TypeOK /\ Counted /\ SendSide /\ Phases /\ LineTypeOK
      /\ Labelled /\ BlockNamed /\ AnswersOnly /\ Hung /\ Copied /\ InStep
      /\ UNCHANGED <<rpc, rres, rpos, disk>>
  BY DEF IInv, TypeOK, Sender, Integrity, rvars
<1>2. Phases'
  BY <1>1, SendSidePhases
<1>3. toS \in Seq(Frame) /\ toS' \in Seq(Frame)
  BY <1>1, SendSideLine DEF LineTypeOK
<1>4. PICK d \in {0, 1} : Thinned(toS, toS', d)
  BY <1>1, SendSideLine
<1>5. Closed(toS) <=> Closed(toS')
  BY <1>3, <1>4, ThinnedEnds
<1>6. Fits
  BY DEF Streams, Fits
<1>7. SenderSends
  BY <1>1, <1>5, <1>6, SendSideFits
<1>8. Labelled' /\ BlockNamed'
  BY <1>1, <1>7, SenderKeepsLabels
<1>9. AnswersOnly'
  BY <1>1, <1>3, <1>4, ThinnedAnswers
<1>10. Hung'
  BY <1>1, <1>5, SendingIsLost DEF Hung
<1>11. Copied'
  BY <1>1 DEF Copied
<1>12. InStep'
  BY <1>1, <1>2, SenderKeepsSource
<1> QED BY <1>8, <1>9, <1>10, <1>11, <1>12 DEF Integrity

\* What the receiver finds at the head of its stream.
LEMMA LabelsTell ==
  ASSUME TypeOK, Labelled, BlockNamed
  PROVE  HeadIsNext
<1> SUFFICES ASSUME toR # <<>>
             PROVE  /\ rpc = "block" /\ Head(toR).k = "data" =>
                         Head(toR).lo = rpos /\ rpos + Head(toR).n <= Len(File)
                    /\ Head(toR).k = "hdr" /\ Head(toR).t = "ZEOF" =>
                         Head(toR).p = Len(File)
  BY DEF HeadIsNext
<1>1. /\ toR \in Seq(Frame) /\ Head(toR) = toR[1] /\ 1 \in 1 .. Len(toR)
      /\ Len(toR) # 0
  BY DEF TypeOK, LineTypeOK
<1>2. rpc = "block" /\ toR[1].k = "data" => toR[1].lo = rpos
  BY <1>1 DEF BlockNamed, Names
<1> QED BY <1>1, <1>2 DEF Labelled, IsZEOF

\* The receiver starts to read a block only after the ZDATA of its position.
LEMMA ReceiverNamesBlock ==
  ASSUME TypeOK, Labelled, BlockNamed, Copied, Fits, RNext, toR' \in Seq(Frame),
         \A p \in Nat : NextIs(p) => NextIs(p)'
  PROVE  BlockNamed'
<1>1. toR \in Seq(Frame)
  BY DEF TypeOK, LineTypeOK
<1>2. CASE rpc' # "block"
  BY <1>2 DEF BlockNamed
<1>3. CASE StartsBlock
  <2>1. toR # <<>> /\ Head(toR) = toR[1] /\ toR' = Tail(toR) /\ IsZDATA(toR[1])
    BY <1>1, <1>3 DEF StartsBlock, RReceives, Arrives, IsZDATA
  <2>2. 1 \in 1 .. Len(toR) /\ Len(toR') = Len(toR) - 1
        /\ \A i \in 1 .. Len(toR') : toR'[i] = toR[i + 1]
    BY <1>1, <2>1
  <2>3. rpos \in Nat /\ toR[1].p = rpos /\ rpos' = rpos
    BY <1>3, <2>1, PositionFits
    DEF StartsBlock, rxhdr, TypeOK, ReceiverTypeOK, Copied
  <2>4. Names(1, rpos)
    BY <2>1, <2>2, <2>3 DEF Labelled
  <2>5. Thinned(toR, toR', 1)
    BY <2>1, <2>2 DEF Thinned, IsZDATA
  <2>6. 0 + 1 = 1 /\ 0 \in 0 .. Len(toR')
    BY <2>2
  <2>7. Names(0, rpos)'
    <3>1. ASSUME NEW p \in Nat, p = rpos PROVE Names(0, p)'
      BY <1>1, <2>4, <2>5, <2>6, <3>1, ThinnedNames
    <3> QED BY <2>3, <3>1 DEF Names, NextIs
  <2> QED BY <2>7 DEF BlockNamed
<1> QED BY <1>2, <1>3, ReceiverStartsBlock

\* Integrity in the steps of the receiving program: what it writes is the
\* block it asked for, and it is done only at the end of the file.
LEMMA IntegrityByReceiver ==
  ASSUME IInv, Integrity, Streams, Receiver
  PROVE  Integrity'
<1>1. /\ TypeOK /\ ReceiveSide /\ LineTypeOK /\ ReceiverTypeOK /\ Receiving
      /\ Labelled /\ BlockNamed /\ AnswersOnly /\ Hung /\ Copied /\ InStep
      /\ UNCHANGED <<spc, spos, fpos, slen, sphase>>
  BY DEF IInv, TypeOK, Receiver, Integrity, svars, progress, sendvars, Receiving
<1>2. /\ toR \in Seq(Frame) /\ toR' \in Seq(Frame)
      /\ toS \in Seq(Frame) /\ toS' \in Seq(Frame)
  BY <1>1, ReceiveSideLine DEF LineTypeOK
<1>3. PICK d \in {0, 1} : Thinned(toR, toR', d)
  BY <1>1, ReceiveSideLine
<1>4. Closed(toR) <=> Closed(toR')
  BY <1>2, <1>3, ThinnedEnds
<1>5. Fits
  BY DEF Streams, Fits
<1>6. rpc # "end"
  <2>1. RCalls \/ RCloses => rpc # "end"
    BY <1>1, <1>5, ReceiverAnswers DEF RCalls, RCloses, RNext
  <2> QED BY <1>1, <2>1 DEF ReceiveSide, RNextFile, ROver
<1>7. Closed(toS) => Closed(toS')
  BY <1>1, <1>6, AnsweringIsLost DEF Hung
<1>8. \A p \in Nat : NextIs(p) => NextIs(p)'
  BY <1>1, <1>7 DEF NextIs
<1>9. Labelled'
  BY <1>1, <1>2, <1>3, <1>8, ThinnedLabels
<1>10. InStep'
  BY <1>1 DEF InStep, ReaderInStep
<1>11. CASE RCalls \/ RCloses
  <2>1. RNext
    BY <1>11 DEF RCalls, RCloses, RNext
  <2>2. Copied'
    BY <1>1, <1>5, <2>1, LabelsTell, ReceiverCopies
  <2>3. BlockNamed'
    BY <1>1, <1>2, <1>5, <1>8, <2>1, ReceiverNamesBlock
  <2>4. CASE toS' = toS
    <3>1. AnswersOnly'
      BY <1>1, <2>4 DEF AnswersOnly
    <3>2. Hung'
      BY <1>1, <1>4, <1>6, <2>4 DEF Hung
    <3> QED BY <1>9, <1>10, <2>2, <2>3, <3>1, <3>2 DEF Integrity
  <2>5. ASSUME NEW e \in Frame, toS' = toS \o <<e>>,
               Answer(e) \/ (e.k = "eof" /\ rpc' = "end")
        PROVE  AnswersOnly' /\ Hung'
    <3>1. /\ Len(toS') = Len(toS) + 1 /\ toS'[Len(toS) + 1] = e
          /\ \A i \in 1 .. Len(toS) : toS'[i] = toS[i]
          /\ Closed(toS') <=> e.k = "eof"
      <4>1. toS \in Seq(Frame) /\ e \in Frame /\ toS' = toS \o <<e>>
        BY <1>2, <2>5
      <4>2. Closed(toS') <=> e.k = "eof"
        BY ONLY <4>1, AppendedEnds
      <4>3. /\ Len(toS') = Len(toS) + 1 /\ toS'[Len(toS) + 1] = e
            /\ \A i \in 1 .. Len(toS) : toS'[i] = toS[i]
        BY ONLY <4>1
      <4> QED BY <4>2, <4>3
    <3>2. \A i \in 1 .. Len(toS') : i \in 1 .. Len(toS) \/ i = Len(toS) + 1
      BY <1>2, <3>1
    <3>3. AnswersOnly'
      <4> SUFFICES ASSUME NEW i \in 1 .. Len(toS'), toS'[i].k = "hdr"
                   PROVE  /\ toS'[i].t \in {"ZRINIT", "ZNAK", "ZACK", "ZRPOS", "ZSKIP", "ZCOMPL"}
                          /\ toS'[i].t = "ZRPOS" => toS'[i].p <= Len(File)
        BY DEF AnswersOnly
      <4>1. CASE i \in 1 .. Len(toS)
        BY <1>1, <3>1, <4>1 DEF AnswersOnly
      <4>2. CASE i = Len(toS) + 1
        BY <2>5, <3>1, <4>2 DEF Answer
      <4> QED BY <3>2, <4>1, <4>2
    <3>4. Hung'
      BY <2>5, <3>1 DEF Hung, Answer
    <3> QED BY <3>3, <3>4
  <2>6. Eof \in Frame /\ Eof.k = "eof"
    BY FramesAreTyped DEF Eof
  <2>7. toS' = toS \/ (AnswersOnly' /\ Hung')
    BY <1>1, <1>5, <2>1, <2>5, <2>6, ReceiverAnswers
  <2> QED BY <1>9, <1>10, <2>2, <2>3, <2>4, <2>7 DEF Integrity
<1>12. CASE RNextFile \/ ROver
  <2>1. toS' = toS /\ rpc = "ret" /\ rpc' \in {"ret", "try"}
    BY <1>12 DEF RNextFile, ROver, rvars
  <2>2. AnswersOnly' /\ Hung'
    BY <1>1, <1>4, <2>1 DEF AnswersOnly, Hung
  <2>3. BlockNamed'
    BY <2>1 DEF BlockNamed
  <2>4. Copied'
    <3>1. CASE RNextFile
      <4>1. [i \in 1 .. 0 |-> i - 1] = <<>>
        OBVIOUS
      <4>2. Len(File) >= 0
        BY LineAssumption
      <4> QED BY <3>1, <4>1, <4>2 DEF RNextFile, Copied
    <3>2. CASE ROver
      BY <1>1, <3>2 DEF ROver, rvars, Copied
    <3> QED BY <1>12, <3>1, <3>2
  <2> QED BY <1>9, <1>10, <2>2, <2>3, <2>4 DEF Integrity
<1> QED BY <1>1, <1>11, <1>12 DEF ReceiveSide

\* Integrity when a frame is damaged.
LEMMA IntegrityByLine ==
  ASSUME IInv, Integrity, Line
  PROVE  Integrity'
<1>1. /\ Garble /\ LineTypeOK /\ TypeOK
      /\ Labelled /\ BlockNamed /\ AnswersOnly /\ Hung /\ Copied /\ InStep
      /\ UNCHANGED <<spc, spos, fpos, slen, sphase, rpc, rres, rpos, disk>>
  BY DEF Line, sessvars, sendvars, svars, progress, rvars, IInv, TypeOK, Integrity
<1>2. /\ toR \in Seq(Frame) /\ toR' \in Seq(Frame) /\ Thinned(toR, toR', 0)
      /\ toS \in Seq(Frame) /\ toS' \in Seq(Frame) /\ Thinned(toS, toS', 0)
  BY <1>1, GarbleSpoils, SpoiltType, DamageThins DEF LineTypeOK
<1>3. (Closed(toR) <=> Closed(toR')) /\ (Closed(toS) <=> Closed(toS'))
  BY <1>2, ThinnedEnds
<1>4. \A p \in Nat : NextIs(p) => NextIs(p)'
  BY <1>1, <1>3 DEF NextIs
<1>5. Labelled' /\ AnswersOnly'
  BY <1>1, <1>2, <1>4, ThinnedLabels, ThinnedAnswers
<1>6. BlockNamed'
  <2>1. rpos \in Nat /\ 0 \in 0 .. Len(toR') /\ 0 + 0 = 0
    BY <1>1, <1>2 DEF TypeOK, ReceiverTypeOK
  <2>2. ASSUME NEW p \in Nat, Names(0, p) PROVE Names(0, p)'
    BY <1>2, <1>4, <2>1, <2>2, ThinnedNames
  <2>3. rpc = "block" => Names(0, rpos)
    BY <1>1 DEF BlockNamed
  <2> QED BY <1>1, <2>1, <2>2, <2>3 DEF BlockNamed, Names, NextIs
<1>7. Hung' /\ Copied' /\ InStep'
  BY <1>1, <1>3 DEF Hung, Copied, InStep, ReaderInStep
<1> QED BY <1>5, <1>6, <1>7 DEF Integrity

\* Integrity when the user breaks the line.
LEMMA IntegrityByHangUp ==
  ASSUME IInv, Integrity, HangUp
  PROVE  Integrity'
<1>1. /\ toR' = <<Eof>> /\ toS' = <<Eof>> /\ toR = <<>>
      /\ BlockNamed /\ Copied /\ InStep
      /\ UNCHANGED <<spc, spos, fpos, slen, sphase, rpc, rres, rpos, disk>>
  BY DEF HangUp, Stalled, sendvars, svars, progress, rvars, Integrity
<1>2. /\ Len(toR') = 1 /\ \A i \in 1 .. Len(toR') : toR'[i].k = "eof"
      /\ Len(toS') = 1 /\ \A i \in 1 .. Len(toS') : toS'[i].k = "eof"
      /\ toR'[0 + 1].k = "eof"
  BY <1>1 DEF Eof
<1>3. Labelled' /\ AnswersOnly'
  BY <1>2 DEF Labelled, AnswersOnly, IsZDATA, IsZEOF
<1>4. Hung' /\ BlockNamed'
  BY <1>1, <1>2 DEF Hung, Closed, BlockNamed, Names, NextIs
<1>5. Copied' /\ InStep'
  BY <1>1 DEF Copied, InStep, ReaderInStep
<1> QED BY <1>3, <1>4, <1>5 DEF Integrity

\* The labels of the stream, the positions of both ends and the copy agree in
\* every file of a session.
LEMMA StaysWhole == ASSUME Streams PROVE Spec /\ []SentOnce => []Integrity
<1>1. Init => Integrity
  <2> SUFFICES ASSUME Init PROVE Integrity
    OBVIOUS
  <2>1. /\ toR = <<>> /\ toS = <<>> /\ sphase = "loop" /\ rpc = "try"
        /\ rres = "none" /\ rpos = 0 /\ disk = <<>>
    BY DEF Init, LineInit, ReceiverInit
  <2>2. [i \in 1 .. 0 |-> i - 1] = <<>> /\ Len(File) >= 0
    BY LineAssumption
  <2>3. Copied
    BY <2>1, <2>2 DEF Copied
  <2>4. Labelled /\ BlockNamed /\ AnswersOnly /\ Hung /\ InStep
    BY <2>1 DEF Labelled, BlockNamed, AnswersOnly, Hung, Closed, InStep
  <2> QED BY <2>3, <2>4 DEF Integrity
<1>2. SInv /\ Integrity /\ [Next]_vars /\ SentOnce' => Integrity'
  <2>1. ASSUME Integrity, UNCHANGED vars PROVE Integrity'
    <3>1. UNCHANGED <<toR, toS, spc, spos, fpos, slen, sphase, rpc, rres, rpos, disk>>
      BY <2>1 DEF vars, line, sessvars, sendvars, svars, rvars, progress
    <3> QED
      BY <2>1, <3>1
      DEF Integrity, Labelled, BlockNamed, AnswersOnly, Hung, Copied, InStep,
          ReaderInStep, Names, NextIs, IsZDATA, IsZEOF, Closed
  <2> QED BY <2>1, IntegrityBySender, IntegrityByReceiver, IntegrityByLine,
             IntegrityByHangUp DEF Next, Done, SInv
<1> QED BY <1>1, <1>2, StaysApart, PTL DEF Spec

\* What holds of one transfer holds of every file of a session, with what the
\* last one left on the line and in both objects: the bytes after ZDATA(p) are
\* those at p, the copy is a prefix of the file, and all of it when the receiver
\* reports success (sender.go:701-905, receiver.go:391-446).
THEOREM EachFileIsCopied ==
  ASSUME Streams
  PROVE  Spec /\ []SentOnce =>
           [](FramesLabelled /\ WrittenIsPrefix /\ ReceivedIsComplete)
<1>1. TypeOK /\ Integrity => FramesLabelled
  <2> SUFFICES ASSUME TypeOK, Integrity, NEW i \in 1 .. Len(toR) - 1,
                      toR[i].k = "hdr", toR[i].t = "ZDATA", toR[i + 1].k = "data"
               PROVE  toR[i].p = toR[i + 1].lo
    BY DEF FramesLabelled
  <2>1. Len(toR) \in Nat /\ i \in 1 .. Len(toR) /\ i # Len(toR)
    BY DEF TypeOK, LineTypeOK
  <2>2. Names(i, toR[i].p)
    BY <2>1 DEF Integrity, Labelled, IsZDATA
  <2> QED BY <2>1, <2>2 DEF Names
<1>2. TypeOK /\ Integrity => WrittenIsPrefix /\ ReceivedIsComplete
  <2> SUFFICES ASSUME TypeOK, Integrity PROVE WrittenIsPrefix /\ ReceivedIsComplete
    OBVIOUS
  <2>1. /\ disk = [i \in 1 .. rpos |-> i - 1] /\ rpos \in Nat /\ rpos <= Len(File)
        /\ rres = "ok" => rpos = Len(File)
    BY DEF Integrity, Copied, TypeOK, ReceiverTypeOK
  <2>2. Len(disk) = rpos
    BY <2>1
  <2> QED BY <2>1, <2>2 DEF WrittenIsPrefix, ReceivedIsComplete
<1> QED BY <1>1, <1>2, TypeCorrect, StaysWhole, PTL

-----------------------------------------------------------------------------
\* What was reported sent is at the other end.

\* ReceiveFiles has returned only after its last call has.
OverEnds == rover => rpc \in {"ret", "end"}

\* A file the sending program knows to be sent was delivered,
KnownSent == \A f \in Files : sent[f] = "ok" => Delivered(f)

\* and so was one SendFile has just succeeded with,
JustSent == sphase = "file" /\ spc = "ret" /\ sres = "ok" => Delivered(sfile)

\* one of which an answer is on its way that passes for the one to ZEOF,
AnsweredFor ==
  \A i \in 1 .. Len(toS) : Answers(toS[i]) /\ InFile(i) =>
    Delivered(sfile) /\ \A j \in i .. Len(toS) : ~Asks(toS[j])

\* and one that was asked for and that the receiver has left without error.
LeftBehind ==
  Live /\ rpc \notin Inside /\ InFile(Len(toS)) => Delivered(sfile)

\* Between two files, and once a file was skipped, no request is on its way.
Unasked == AtRest \/ sres = "skipped" => NoRequest
SkipIsLast ==
  \A i \in 1 .. Len(toS) : IsZSKIP(toS[i]) =>
    rres \in Over /\ \A j \in i .. Len(toS) : ~Asks(toS[j])

Delivery ==
  OverEnds /\ KnownSent /\ JustSent /\ AnsweredFor /\ LeftBehind /\ Unasked /\ SkipIsLast

\* What becomes of the streams and of the file the sender is at, whether it
\* reads or a frame of an answer is damaged.
LEMMA DeliveryByReading ==
  ASSUME SInv, Delivery, UNCHANGED <<rpc, rres, rfile, rover, got, disk>>,
         toS' \in Seq(Frame), NEW d \in {0, 1}, Thinned(toS, toS', d),
         spc' \in InData => spc \in InData \/ (d = 1 /\ Asks(toS[1])),
         sfile' = sfile \/ sphase = "loop"
  PROVE  /\ OverEnds' /\ AnsweredFor' /\ LeftBehind' /\ SkipIsLast'
         /\ NoRequest => NoRequest'
         /\ \A f : Delivered(f) => Delivered(f)'
<1>1. /\ toS \in Seq(Frame) /\ Len(toS) \in Nat /\ Len(toS') \in Nat
      /\ Len(toS') = Len(toS) - d /\ Phases
  BY DEF SInv, IInv, TypeOK, LineTypeOK, Thinned
<1>2. \A f : Delivered(f) => Delivered(f)'
  BY DEF Delivered, Whole
<1>3. \A i \in 1 .. Len(toS') : toS'[i].k = "hdr" =>
        i + d \in 1 .. Len(toS) /\ toS'[i] = toS[i + d]
  BY <1>1, ThinnedHeaders
<1>4. NoRequest => NoRequest'
  BY <1>1, ThinnedAsksNot DEF NoRequest, Asks
<1>5. \A i \in 1 .. Len(toS') : InFile(i)' => InFile(i + d)
  BY <1>1, ThinnedInFile
<1>6. InFile(Len(toS))' => InFile(Len(toS))
  <2> SUFFICES ASSUME InFile(Len(toS))' PROVE InFile(Len(toS))
    OBVIOUS
  <2>1. CASE spc' \in InData
    <3>1. d = 1 => 1 \in 1 .. Len(toS)
      BY <1>1
    <3> QED BY <2>1, <3>1 DEF InFile
  <2>2. CASE spc' \notin InData
    <3>1. PICK j \in 1 .. Len(toS') : Asks(toS'[j])
      BY <2>2 DEF InFile
    <3> QED BY <1>3, <3>1 DEF InFile, Asks
  <2> QED BY <2>1, <2>2
\* Between two files nothing is asked for.
<1>7. ASSUME NEW i, i \in 1 .. Len(toS) \/ i = Len(toS), InFile(i) PROVE sfile' = sfile
  <2> SUFFICES ASSUME sphase = "loop" PROVE FALSE
    OBVIOUS
  <2>1. NoRequest /\ spc \notin InData
    BY <1>1 DEF Delivery, Unasked, AtRest, Phases, SInits, InData
  <2>2. PICK j \in 1 .. i : Asks(toS[j])
    BY <1>7, <2>1 DEF InFile
  <2>3. j \in 1 .. Len(toS)
    BY <1>1, <1>7
  <2> QED BY <2>1, <2>2, <2>3 DEF NoRequest
<1>8. ASSUME NEW i \in 1 .. Len(toS'), \A j \in (i + d) .. Len(toS) : ~Asks(toS[j])
      PROVE  \A j \in i .. Len(toS') : ~Asks(toS'[j])
  <2> SUFFICES ASSUME NEW j \in i .. Len(toS'), Asks(toS'[j]) PROVE FALSE
    OBVIOUS
  <2>1. j \in 1 .. Len(toS') /\ j + d \in (i + d) .. Len(toS)
    BY <1>1
  <2> QED BY <1>3, <1>8, <2>1 DEF Asks
<1>9. OverEnds'
  BY DEF Delivery, OverEnds
<1>10. AnsweredFor'
  <2> SUFFICES ASSUME NEW i \in 1 .. Len(toS'), Answers(toS'[i]), InFile(i)'
               PROVE  /\ Delivered(sfile)'
                      /\ \A j \in i .. Len(toS') : ~Asks(toS'[j])
    BY DEF AnsweredFor, Answers, Asks
  <2>1. i + d \in 1 .. Len(toS) /\ Answers(toS[i + d]) /\ InFile(i + d)
    BY <1>3, <1>5 DEF Answers
  <2>2. /\ Delivered(sfile) /\ \A j \in (i + d) .. Len(toS) : ~Asks(toS[j])
    BY <2>1 DEF Delivery, AnsweredFor
  <2>3. sfile' = sfile
    BY <1>7, <2>1
  <2>4. Delivered(sfile)'
    BY <2>2, <2>3 DEF Delivered, Whole
  <2> QED BY <1>8, <2>2, <2>4
<1>11. LeftBehind'
  <2> SUFFICES ASSUME Live, rpc \notin Inside, InFile(Len(toS))'
               PROVE  Delivered(sfile)'
    BY DEF LeftBehind, Live
  <2>1. Delivered(sfile)
    BY <1>6 DEF Delivery, LeftBehind
  <2>2. sfile' = sfile
    BY <1>6, <1>7
  <2> QED BY <2>1, <2>2 DEF Delivered, Whole
<1>12. SkipIsLast'
  <2> SUFFICES ASSUME NEW i \in 1 .. Len(toS'), IsZSKIP(toS'[i])
               PROVE  /\ rres \in Over
                      /\ \A j \in i .. Len(toS') : ~Asks(toS'[j])
    BY DEF SkipIsLast, IsZSKIP, Asks
  <2>1. i + d \in 1 .. Len(toS) /\ IsZSKIP(toS[i + d])
    BY <1>3 DEF IsZSKIP
  <2>2. rres \in Over /\ \A j \in (i + d) .. Len(toS) : ~Asks(toS[j])
    BY <2>1 DEF Delivery, SkipIsLast
  <2> QED BY <1>8, <2>2
<1> QED BY <1>2, <1>4, <1>9, <1>10, <1>11, <1>12

\* Delivery in the steps of the sending program: success is an answer that
\* the receiver gave for a delivered file.
LEMMA DeliveryBySender ==
  ASSUME SInv, Delivery, Sender, SentOnce' PROVE Delivery'
<1>1. /\ TypeOK /\ Counted /\ Phases /\ SendSide
      /\ UNCHANGED <<rpc, rres, rfile, rover, got, disk>>
  BY DEF SInv, IInv, Sender, rvars, recvvars
<1>2. /\ sfile' = sfile \/ (sphase = "loop" /\ sfile' = sfile + 1)
      /\ AtRest' => \/ AtRest \/ sres = "skipped"
                    \/ spc = "eofWait" /\ toS # <<>> /\ Answers(Head(toS))
      /\ sres' = "skipped" =>
           \/ sres = "skipped"
           \/ toS # <<>> /\ IsZSKIP(Head(toS))
  BY <1>1, SendSidePhases
<1>3. toS \in Seq(Frame) /\ toS' \in Seq(Frame)
  BY <1>1, SendSideLine DEF TypeOK, LineTypeOK
<1>4. PICK d \in {0, 1} :
        /\ Thinned(toS, toS', d)
        /\ spc' \in InData => spc \in InData \/ (d = 1 /\ Asks(toS[1]))
  BY <1>1, SendSideReads
<1>5. /\ OverEnds' /\ AnsweredFor' /\ LeftBehind' /\ SkipIsLast'
      /\ NoRequest => NoRequest'
      /\ \A f : Delivered(f) => Delivered(f)'
  BY <1>1, <1>2, <1>3, <1>4, DeliveryByReading
<1>6. toS # <<>> => 1 \in 1 .. Len(toS) /\ Head(toS) = toS[1]
  BY <1>3
<1>7. spc = "eofWait" /\ toS # <<>> /\ Answers(Head(toS)) => Delivered(sfile) /\ NoRequest
  <2> SUFFICES ASSUME spc = "eofWait", toS # <<>>, Answers(Head(toS))
               PROVE  Delivered(sfile) /\ NoRequest
    OBVIOUS
  <2>1. 1 \in 1 .. Len(toS) /\ Answers(toS[1]) /\ InFile(1)
    BY <1>6 DEF InFile, InData
  <2> QED BY <2>1 DEF Delivery, AnsweredFor, NoRequest
<1>8. Unasked'
  <2> SUFFICES ASSUME AtRest' \/ sres' = "skipped" PROVE NoRequest
    BY <1>5 DEF Unasked
  <2>1. toS # <<>> /\ IsZSKIP(Head(toS)) => NoRequest
    BY <1>6 DEF Delivery, SkipIsLast, NoRequest
  <2>2. AtRest \/ sres = "skipped" => NoRequest
    BY DEF Delivery, Unasked
  <2> QED BY <1>2, <1>7, <2>1, <2>2
<1>9. JustSent'
  <2> SUFFICES ASSUME sphase' = "file", spc' = "ret", sres' = "ok"
               PROVE  Delivered(sfile)'
    BY DEF JustSent
  <2>1. CASE SCalls
    <3>1. SNext /\ SCall /\ UNCHANGED sfile
      BY <2>1 DEF SCalls, SNext
    <3>2. sres # "ok"
      BY <1>1, <3>1, SenderGoes DEF Phases, SInits, SBefore, InData
    <3>3. spc = "eofWait" /\ toS # <<>> /\ Answers(Head(toS))
      BY <3>1, <3>2, SenderSucceeds
    <3>4. Delivered(sfile)
      BY <1>7, <3>3
    <3> QED BY <1>1, <3>1, <3>4 DEF Delivered, Whole
  <2>2. CASE TInit
    <3>1. sphase = "loop"
      BY <1>1, <2>2 DEF TInit, Phases, Counted, SBefore, InData, TypeOK
    <3> QED BY <2>2, <3>1 DEF TInit
  <2>3. CASE ~(SCalls \/ TInit)
    <3>1. \/ SNextFile \/ SFileDone \/ SRetryFile \/ SAborts
          \/ SAllSent \/ TFin \/ TFinReply \/ SCloses
      BY <1>1, <2>3 DEF SendSide
    <3> QED BY <3>1
        DEF SNextFile, BetweenFiles, SFileDone, SRetryFile, SAborts, SAllSent, TFin,
            TFinReply, SCloses
  <2> QED BY <2>1, <2>2, <2>3
<1>10. KnownSent'
  <2> SUFFICES ASSUME NEW f \in Files, sent'[f] = "ok" PROVE Delivered(f)
    BY <1>5 DEF KnownSent
  <2>1. CASE sent[f] = "ok"
    BY <2>1 DEF Delivery, KnownSent
  <2>2. CASE sent[f] # "ok"
    <3>1. sent \in [Files -> Outcomes] /\ sent' # sent
      BY <1>1, <2>2 DEF TypeOK
    <3>2. SNextFile \/ SFileDone \/ SAborts \/ TFin
      BY <1>1, <3>1
      DEF SendSide, TInit, SCalls, SRetryFile, SAllSent, TFinReply, SCloses
    <3>3. SFileDone /\ sres = "ok" /\ f = sfile
      BY <1>1, <2>2, <3>1, <3>2 DEF SNextFile, SFileDone, SAborts, TFin, Phases
    <3>4. sphase = "file" /\ spc = "ret"
      BY <1>1, <3>3 DEF SFileDone, Phases
    <3> QED BY <3>3, <3>4 DEF Delivery, JustSent
  <2> QED BY <2>1, <2>2
<1> QED BY <1>5, <1>8, <1>9, <1>10 DEF Delivery

\* A copy that was delivered stays so, and one the receiver leaves without
\* error is delivered.
LEMMA StaysDelivered ==
  ASSUME TypeOK, Counted, ReceiveSide, NEW f, Delivered(f)
  PROVE  Delivered(f)'
<1>1. got \in Seq([file : Files, whole : BOOLEAN]) /\ Len(got) \in Nat
  BY DEF TypeOK
<1>2. CASE RCalls
  <2>1. rpc \notin {"ret", "end"} /\ got' = got
    BY <1>2, ReceiverGoes DEF RCalls
  <2>2. rres # "ok"
    BY <2>1 DEF Counted
  <2> QED BY <2>1, <2>2 DEF Delivered
<1>3. CASE RNextFile \/ ROver
  <2>1. \/ rres # "ok" /\ got' = got
        \/ got' = Append(got, [file |-> rfile, whole |-> Whole])
    BY <1>3 DEF RNextFile, ROver
  <2>2. CASE rres # "ok" /\ got' = got
    BY <2>2 DEF Delivered
  <2>3. CASE got' = Append(got, [file |-> rfile, whole |-> Whole])
    <3>1. /\ Len(got') = Len(got) + 1
          /\ got'[Len(got) + 1] = [file |-> rfile, whole |-> Whole]
          /\ \A i \in 1 .. Len(got) : got'[i] = got[i]
      BY <1>1, <2>3
    <3>2. CASE rfile = f /\ Whole
      <4>1. Whole = TRUE
        BY <3>2 DEF Whole
      <4>2. Len(got) + 1 \in 1 .. Len(got')
        BY <1>1, <3>1
      <4>3. got'[Len(got) + 1] = [file |-> f, whole |-> TRUE]
        BY <3>1, <3>2, <4>1
      <4> QED BY <4>2, <4>3 DEF Delivered
    <3>3. CASE \E i \in 1 .. Len(got) : got[i] = [file |-> f, whole |-> TRUE]
      <4>1. \A i \in 1 .. Len(got) : i \in 1 .. Len(got')
        BY <1>1, <3>1
      <4> QED BY <3>1, <3>3, <4>1 DEF Delivered
    <3> QED BY <3>2, <3>3 DEF Delivered
  <2> QED BY <2>1, <2>2, <2>3
<1>4. CASE RCloses
  BY <1>4 DEF RCloses, RClose, Delivered
<1> QED BY <1>2, <1>3, <1>4 DEF ReceiveSide

\* A receiver that leaves a file without an error leaves the sender's file delivered.
LEMMA LeavesDelivered ==
  ASSUME SInv, Integrity', OverEnds, Receiver, Live', rpc \in Inside, rpc' \notin Inside
  PROVE  Delivered(sfile)'
<1>1. /\ TypeOK /\ Counted /\ ReceiveSide /\ sfile' = sfile
  BY DEF SInv, IInv, Receiver, sendvars
<1>2. Live
  BY <1>1, ReceiveSideGoes DEF Live
<1>3. rfile = sfile
  BY <1>2 DEF SInv, OneAtATime, Accounted
<1>4. RCalls
  BY <1>1 DEF ReceiveSide, RNextFile, ROver, RCloses, RClose, Inside
<1>5. rres' = "ok"
  BY <1>4, ReceiverGoes DEF RCalls, Live
<1>6. rover = FALSE /\ rover' = FALSE /\ rfile' = sfile
  BY <1>1, <1>3, <1>4 DEF RCalls, OverEnds, Inside, TypeOK
<1>7. Whole'
  BY <1>5 DEF Integrity, Copied, Whole
<1> QED BY <1>1, <1>5, <1>6, <1>7 DEF Delivered

\* Delivery in the steps of the receiving program.
LEMMA DeliveryByReceiver ==
  ASSUME SInv, Integrity', Delivery, Receiver PROVE Delivery'
<1>1. /\ TypeOK /\ Counted /\ Phases /\ Flowing /\ ReceiveSide
      /\ UNCHANGED <<spc, sres, sphase, sfile, sent>>
  BY DEF SInv, IInv, Receiver, svars, sendvars
<1>2. \A f : Delivered(f) => Delivered(f)'
  BY <1>1, StaysDelivered
<1>3. toS \in Seq(Frame) /\ toS' \in Seq(Frame) /\ Len(toS) \in Nat
  BY <1>1, ReceiveSideLine DEF TypeOK, LineTypeOK
<1>4. rpc \in Taking => Live
  BY <1>1 DEF Counted, Live, Over, Taking, Inside
<1>5. rres \in Over => rres' \in Over
  BY <1>1, ReceiveSideGoes
<1>6. \A i \in 1 .. Len(toS') :
        \/ i \in 1 .. Len(toS) /\ toS'[i] = toS[i]
        \/ /\ i = Len(toS) + 1 /\ Len(toS') = Len(toS) + 1
           /\ Asks(toS'[i]) => rpc \in Inside /\ rpc' \in Inside
           /\ Answers(toS'[i]) => \/ rpc \notin Taking
                                  \/ rpc \in Inside /\ rpc' \notin Inside /\ rres' = "ok"
           /\ IsZSKIP(toS'[i]) => rres' \in Over
  <2>1. CASE toS' = toS
    BY <2>1
  <2>2. CASE \E e \in Frame :
              /\ toS' = toS \o <<e>>
              /\ Asks(e) => rpc \in Inside /\ rpc' \in Inside
              /\ Answers(e) => \/ rpc \notin Taking
                               \/ rpc \in Inside /\ rpc' \notin Inside /\ rres' = "ok"
              /\ IsZSKIP(e) => rres' \in Over
    <3>1. PICK e \in Frame :
              /\ toS' = toS \o <<e>>
              /\ Asks(e) => rpc \in Inside /\ rpc' \in Inside
              /\ Answers(e) => \/ rpc \notin Taking
                               \/ rpc \in Inside /\ rpc' \notin Inside /\ rres' = "ok"
              /\ IsZSKIP(e) => rres' \in Over
      BY <2>2
    <3>2. /\ Len(toS') = Len(toS) + 1
          /\ \A i \in 1 .. Len(toS) + 1 :
               toS'[i] = IF i <= Len(toS) THEN toS[i] ELSE e
      BY <1>3, <3>1
    <3>3. \A i \in 1 .. Len(toS') :
            \/ i \in 1 .. Len(toS) /\ toS'[i] = toS[i]
            \/ i = Len(toS) + 1 /\ toS'[i] = e
      BY <1>3, <3>2
    <3> QED BY <3>1, <3>2, <3>3
  <2> QED BY <1>1, <2>1, <2>2, ReceiveSideTells DEF Flowing
\* A request is written only inside a file.
<1>7. ASSUME rpc \notin Inside \/ rpc' \notin Inside
      PROVE  \A i \in 1 .. Len(toS') : Asks(toS'[i]) =>
               i \in 1 .. Len(toS) /\ Asks(toS[i])
  BY <1>6, <1>7
<1>8. ASSUME rpc \notin Inside \/ rpc' \notin Inside,
             NEW i \in 1 .. Len(toS), \A j \in i .. Len(toS) : ~Asks(toS[j])
      PROVE  \A j \in i .. Len(toS') : ~Asks(toS'[j])
  <2> SUFFICES ASSUME NEW j \in i .. Len(toS'), Asks(toS'[j]) PROVE FALSE
    OBVIOUS
  <2>1. j \in 1 .. Len(toS')
    BY <1>3
  <2>2. j \in i .. Len(toS) /\ Asks(toS[j])
    BY <1>7, <1>8, <2>1
  <2> QED BY <1>8, <2>2
<1>9. OverEnds'
  <2>1. CASE RCalls
    BY <2>1, ReceiverGoes DEF RCalls, Delivery, OverEnds
  <2>2. CASE RNextFile \/ ROver \/ RCloses
    BY <2>2 DEF RNextFile, ROver, rvars, RCloses, RClose, OverEnds
  <2> QED BY <1>1, <2>1, <2>2 DEF ReceiveSide
<1>10. KnownSent' /\ JustSent'
  BY <1>1, <1>2 DEF Delivery, KnownSent, JustSent
<1>11. rpc \in Inside /\ rpc' \notin Inside /\ Live' => Delivered(sfile)'
  BY LeavesDelivered DEF Delivery
<1>12. LeftBehind'
  <2> SUFFICES ASSUME Live', rpc' \notin Inside, InFile(Len(toS))'
               PROVE  Delivered(sfile)'
    BY DEF LeftBehind
  <2>1. CASE rpc \notin Inside
    <3>1. InFile(Len(toS))
      <4>1. CASE spc \in InData
        BY <4>1 DEF InFile
      <4>2. CASE spc \notin InData
        <5>1. PICK j \in 1 .. Len(toS') : Asks(toS'[j])
          BY <1>1, <4>2 DEF InFile
        <5>2. j \in 1 .. Len(toS) /\ Asks(toS[j])
          BY <1>7, <2>1, <5>1
        <5> QED BY <5>2 DEF InFile
      <4> QED BY <4>1, <4>2
    <3>2. Live
      BY <1>5 DEF Live
    <3>3. Delivered(sfile)
      BY <2>1, <3>1, <3>2 DEF Delivery, LeftBehind
    <3> QED BY <1>1, <1>2, <3>3 DEF Delivered, Whole
  <2> QED BY <1>11, <2>1
\* An answer finds the receiver out of the file.
<1>13. ASSUME NEW i \in 1 .. Len(toS), Answers(toS[i]), InFile(i)
       PROVE  /\ rpc \notin Inside /\ Delivered(sfile)'
              /\ \A j \in i .. Len(toS') : ~Asks(toS'[j])
  <2>1. Delivered(sfile) /\ \A j \in i .. Len(toS) : ~Asks(toS[j])
    BY <1>13 DEF Delivery, AnsweredFor
  <2>2. rpc \notin Inside
    BY <1>4, <1>13 DEF SInv, OneAtATime, Acknowledged, Taking
  <2>3. Delivered(sfile)'
    BY <1>1, <1>2, <2>1 DEF Delivered, Whole
  <2> QED BY <1>8, <2>1, <2>2, <2>3
<1>14. AnsweredFor'
  <2> SUFFICES ASSUME NEW i \in 1 .. Len(toS'), Answers(toS'[i]), InFile(i)'
               PROVE  /\ Delivered(sfile)'
                      /\ \A j \in i .. Len(toS') : ~Asks(toS'[j])
    BY DEF AnsweredFor, Answers, Asks
  <2>1. CASE i \in 1 .. Len(toS) /\ toS'[i] = toS[i]
    <3>1. InFile(i)
      <4>1. CASE spc \in InData
        BY <4>1 DEF InFile
      <4>2. CASE spc \notin InData
        <5>1. PICK j \in 1 .. i : Asks(toS'[j])
          BY <1>1, <4>2 DEF InFile
        <5>2. j \in 1 .. Len(toS') /\ j # Len(toS) + 1
          BY <1>3, <2>1
        <5>3. Asks(toS[j])
          BY <1>6, <5>1, <5>2
        <5> QED BY <5>3 DEF InFile
      <4> QED BY <4>1, <4>2
    <3> QED BY <1>13, <2>1, <3>1
  <2>2. CASE /\ i = Len(toS) + 1 /\ Len(toS') = Len(toS) + 1
             /\ \/ rpc \notin Taking
                \/ rpc \in Inside /\ rpc' \notin Inside /\ rres' = "ok"
    <3>1. \A j \in i .. Len(toS') : j = i
      BY <1>3, <2>2
    <3>2. ~Asks(toS'[i])
      BY DEF Asks, Answers
    <3>3. CASE rpc \in Inside /\ rpc' \notin Inside /\ rres' = "ok"
      BY <1>11, <3>1, <3>2, <3>3 DEF Live, Over
    <3>4. CASE rpc \notin Taking
      <4>1. InFile(Len(toS))
        <5>1. CASE spc \in InData
          BY <5>1 DEF InFile
        <5>2. CASE spc \notin InData
          <6>1. PICK j \in 1 .. i : Asks(toS'[j])
            BY <1>1, <5>2 DEF InFile
          <6>2. j \in 1 .. Len(toS) /\ Asks(toS[j])
            <7>1. j \in 1 .. Len(toS')
              BY <1>3, <2>2
            <7> QED BY <1>7, <3>4, <6>1, <7>1 DEF Taking
          <6> QED BY <6>2 DEF InFile
        <5> QED BY <5>1, <5>2
      <4>2. Live
        <5>1. CASE RCalls
          BY <1>1, <5>1, ReceiverGoes DEF RCalls, Counted, Live, Over
        <5>2. CASE RNextFile \/ ROver
          BY <1>3, <2>2, <5>2 DEF RNextFile, ROver
        <5>3. CASE RCloses
          <6>1. toS' = toS \o <<Eof>>
            BY <1>3, <5>3 DEF RCloses, RClose
          <6>2. toS'[Len(toS) + 1] = Eof
            BY <1>3, <6>1
          <6> QED BY <2>2, <6>2 DEF Answers, Eof
        <5> QED BY <1>1, <5>1, <5>2, <5>3 DEF ReceiveSide
      <4>3. Delivered(sfile)
        BY <3>4, <4>1, <4>2 DEF Delivery, LeftBehind, Taking
      <4>4. Delivered(sfile)'
        BY <1>1, <1>2, <4>3 DEF Delivered, Whole
      <4> QED BY <3>1, <3>2, <4>4
    <3> QED BY <2>2, <3>3, <3>4
  <2> QED BY <1>6, <2>1, <2>2
<1>15. Unasked'
  <2> SUFFICES ASSUME AtRest \/ sres = "skipped" PROVE NoRequest'
    BY <1>1 DEF Unasked, AtRest
  <2>1. NoRequest
    BY DEF Delivery, Unasked
  <2>2. rpc \notin Inside
    BY <1>4 DEF SInv, OneAtATime, Rested, Unskipped, Taking
  <2> QED BY <1>7, <2>1, <2>2 DEF NoRequest, Asks
<1>16. SkipIsLast'
  <2> SUFFICES ASSUME NEW i \in 1 .. Len(toS'), IsZSKIP(toS'[i])
               PROVE  /\ rres' \in Over
                      /\ \A j \in i .. Len(toS') : ~Asks(toS'[j])
    BY DEF SkipIsLast, IsZSKIP, Asks
  <2>1. CASE i \in 1 .. Len(toS) /\ toS'[i] = toS[i]
    <3>1. rres \in Over /\ \A j \in i .. Len(toS) : ~Asks(toS[j])
      BY <2>1 DEF Delivery, SkipIsLast
    <3>2. rpc \notin Inside
      BY <1>4, <3>1 DEF Live, Taking
    <3> QED BY <1>5, <1>8, <2>1, <3>1, <3>2
  <2>2. CASE i = Len(toS) + 1 /\ Len(toS') = Len(toS) + 1 /\ rres' \in Over
    <3>1. \A j \in i .. Len(toS') : j = i
      BY <1>3, <2>2
    <3> QED BY <2>2, <3>1 DEF Asks, IsZSKIP
  <2> QED BY <1>6, <2>1, <2>2
<1> QED BY <1>9, <1>10, <1>12, <1>14, <1>15, <1>16 DEF Delivery

\* Delivery when a frame is damaged.
LEMMA DeliveryByLine ==
  ASSUME SInv, Delivery, Line PROVE Delivery'
<1>1. /\ Garble /\ LineTypeOK
      /\ UNCHANGED <<rpc, rres, rfile, rover, got, disk, sfile, sphase, spc, sres, sent>>
  BY DEF Line, sessvars, sendvars, recvvars, svars, rvars, SInv, IInv, TypeOK
<1>2. toS' \in Seq(Frame) /\ Thinned(toS, toS', 0)
  BY <1>1, GarbleSpoils, SpoiltType, DamageThins DEF LineTypeOK
<1>3. /\ OverEnds' /\ AnsweredFor' /\ LeftBehind' /\ SkipIsLast'
      /\ NoRequest => NoRequest'
      /\ \A f : Delivered(f) => Delivered(f)'
  BY <1>1, <1>2, DeliveryByReading
<1>4. KnownSent' /\ JustSent' /\ Unasked'
  BY <1>1, <1>3 DEF Delivery, KnownSent, JustSent, Unasked, AtRest
<1> QED BY <1>3, <1>4 DEF Delivery

\* Delivery when the user breaks the line.
LEMMA DeliveryByHangUp ==
  ASSUME Delivery, HangUp PROVE Delivery'
<1>1. /\ toS' = <<Eof>>
      /\ UNCHANGED <<rpc, rres, rfile, rover, got, disk, sfile, sphase, spc, sres, sent>>
  BY DEF HangUp, sendvars, recvvars, svars, rvars
<1>2. Len(toS') = 1 /\ \A i \in 1 .. Len(toS') : toS'[i].k = "eof"
  BY <1>1 DEF Eof
<1>3. AnsweredFor' /\ SkipIsLast' /\ NoRequest'
  BY <1>2 DEF AnsweredFor, SkipIsLast, NoRequest, Answers, IsZSKIP, Asks
<1>4. InFile(Len(toS))' => InFile(Len(toS))
  BY <1>1, <1>2 DEF InFile, Asks
<1>5. \A f : Delivered(f) => Delivered(f)'
  BY <1>1 DEF Delivered, Whole
<1>6. OverEnds' /\ KnownSent' /\ JustSent' /\ Unasked'
  BY <1>1, <1>3, <1>5 DEF Delivery, OverEnds, KnownSent, JustSent, Unasked
<1>7. LeftBehind'
  BY <1>1, <1>4, <1>5 DEF Delivery, LeftBehind, Live
<1> QED BY <1>3, <1>6, <1>7 DEF Delivery

\* What either program was told of a file is true in every session.
LEMMA StaysTold == ASSUME Streams PROVE Spec /\ []SentOnce => []Delivery
<1>1. Init => Delivery
  <2> SUFFICES ASSUME Init PROVE Delivery
    OBVIOUS
  <2>1. /\ toS = <<>> /\ sphase = "loop" /\ spc = "init" /\ sres = "none"
        /\ rover = FALSE /\ sent = [f \in Files |-> "none"]
    BY DEF Init, LineInit, SenderInit
  <2>2. 1 .. Len(toS) = {} /\ (\A f \in Files : sent[f] = "none") /\ spc \notin InData
    BY <2>1 DEF InData
  <2>3. OverEnds /\ KnownSent /\ JustSent
    BY <2>1, <2>2 DEF OverEnds, KnownSent, JustSent
  <2>4. AnsweredFor /\ Unasked /\ SkipIsLast
    BY <2>1, <2>2 DEF AnsweredFor, Unasked, SkipIsLast, NoRequest
  <2>5. LeftBehind
    BY <2>1, <2>2 DEF LeftBehind, InFile
  <2> QED BY <2>3, <2>4, <2>5 DEF Delivery
<1>2. SInv /\ Integrity' /\ Delivery /\ [Next]_vars /\ SentOnce' => Delivery'
  <2>1. ASSUME Delivery, UNCHANGED vars PROVE Delivery'
    <3>1. /\ toS' = toS /\ rpc' = rpc /\ rres' = rres /\ rfile' = rfile
          /\ rover' = rover /\ got' = got /\ disk' = disk /\ sfile' = sfile
          /\ sphase' = sphase /\ spc' = spc /\ sres' = sres /\ sent' = sent
      BY <2>1 DEF vars, line, sessvars, sendvars, recvvars, svars, rvars
    <3>2. \A f : Delivered(f)' <=> Delivered(f)
      BY <3>1 DEF Delivered, Whole
    <3>3. OverEnds' /\ KnownSent' /\ JustSent'
      BY <2>1, <3>1, <3>2 DEF Delivery, OverEnds, KnownSent, JustSent
    <3>4. \A i : InFile(i)' <=> InFile(i)
      BY <3>1 DEF InFile
    <3>5. AnsweredFor'
      BY <2>1, <3>1, <3>2, <3>4 DEF Delivery, AnsweredFor
    <3>6. LeftBehind'
      BY <2>1, <3>1, <3>2, <3>4 DEF Delivery, LeftBehind, Live
    <3>7. Unasked' /\ SkipIsLast'
      BY <2>1, <3>1 DEF Delivery, Unasked, SkipIsLast, AtRest, NoRequest
    <3> QED BY <3>3, <3>5, <3>6, <3>7 DEF Delivery
  <2> QED BY <2>1, DeliveryBySender, DeliveryByReceiver, DeliveryByLine,
             DeliveryByHangUp DEF Next, Done
<1> QED BY <1>1, <1>2, StaysApart, StaysWhole, PTL DEF Spec

\* A file reported complete is at the other end, whole, and stays so: through
\* any number of files and any damage, whatever either user declines and
\* whichever disk or source fails, as long as no file is sent a second time
\* (session.go:181-189).
THEOREM SentFilesAreDelivered ==
  ASSUME Streams PROVE Spec /\ []SentOnce => []SentAreDelivered
<1>1. Delivery => SentAreDelivered
  BY DEF Delivery, KnownSent, SentAreDelivered
<1> QED BY <1>1, StaysTold, PTL

-----------------------------------------------------------------------------
\* Nobody waits for ever on a line that damages nothing.

\* A header, or the end of the stream, is on its way.
Heads(ch) == \E i \in 1 .. Len(ch) : ch[i].k \in {"hdr", "eof"}

\* The receiver waits for a header and none is on its way.
Idle == rpc \in {"zfileWait", "dataWait"} /\ ~Heads(toR)

\* The sender waits for some header, or for one that is no invitation.
Waits == spc \in {"init", "initWait", "zsinitWait", "eofWait"} \/ sphase = "fin"
Awaits == spc \in {"zfileWait", "discard"}
Moves == ~(Waits \/ Awaits) \/ Closed(toS)

\* What follows each frame to the receiver is there, or yet to be written.
IsZSINIT(e) == e.k = "hdr" /\ e.t = "ZSINIT"
Formed ==
  \A i \in 1 .. Len(toR) :
    /\ toR[i].k = "hdr" => toR[i].t # "ZCOMMAND"
    /\ toR[i].k = "eof" => spc = "end"
    /\ IsZFILE(toR[i]) => i < Len(toR) /\ toR[i + 1].k = "info"
    /\ IsZSINIT(toR[i]) => i < Len(toR)
    /\ IsZDATA(toR[i]) /\ i = Len(toR) => Moves

\* So is what the receiver reads after a header.
Reading ==
  /\ rpc \notin {"commandInfo", "finWait"}
  /\ rpc = "zfileInfo" => toR # <<>> /\ Head(toR).k = "info"
  /\ rpc \in {"zsinitInfo", "discard"} => toR # <<>>
  /\ rpc = "block" /\ toR = <<>> => Moves

\* The receiver sends nothing but answers and attention strings,
Replies == {"ZRINIT", "ZNAK", "ZACK", "ZRPOS", "ZSKIP", "ZCOMPL"}
IsReply(e) ==
  e.k \in {"hdr", "nul", "eof"} /\ (e.k = "hdr" => e.t \in Replies)
Simple == \A i \in 1 .. Len(toS) : IsReply(toS[i])

\* and before the first ZFILE no attention string.
Early ==
  spc \in SInits =>
    /\ rpc \notin Taking /\ NoZFILE
    /\ \A i \in 1 .. Len(toS) : toS[i].k # "nul"

\* An idle receiver has sent what the sender waits for,
Owed == Waits /\ Idle => toS # <<>>

\* and a ZFILE header is not answered by an invitation only.
IsWord(e) == e.k = "eof" \/ (e.k = "hdr" /\ e.t # "ZRINIT")
OwedFile ==
  Awaits => \/ ~NoZFILE \/ rpc \in {"zfileInfo", "prompt", "zrpos", "discard"}
            \/ rres \in Over \/ \E i \in 1 .. Len(toS) : IsWord(toS[i])

\* Only a receiver that has ended closes its stream.
EndsLast == Closed(toS) => rpc = "end"

Calm == faults = 0 /\ ~Deadlines
Answered ==
  Formed /\ Reading /\ Simple /\ Early /\ Owed /\ OwedFile /\ EndsLast

\* Then nothing is stalled.
LEMMA AnsweredIsNoStall ==
  ASSUME IInv, Flowing, Answered PROVE ~Stalled
<1> SUFFICES ASSUME Stalled PROVE FALSE
  OBVIOUS
<1>1. /\ toR = <<>> /\ toS = <<>> /\ ~Closed(toS)
      /\ 1 .. Len(toR) = {} /\ 1 .. Len(toS) = {}
  BY DEF Stalled, Closed
<1>2. Waits \/ Awaits
  BY DEF Stalled, SWaits, Flowing, Streaming, Waits, Awaits
<1>3. rpc \in {"zfileWait", "dataWait"}
  BY <1>1, <1>2 DEF Stalled, RWaits, Answered, Reading, Moves
<1>4. ~Waits
  BY <1>1, <1>3 DEF Answered, Owed, Idle, Heads
<1>5. rres \notin Over
  BY <1>3 DEF IInv, Counted, Over
<1> QED BY <1>1, <1>2, <1>3, <1>4, <1>5 DEF Answered, OwedFile, NoZFILE

-----------------------------------------------------------------------------
\* What the sender makes of such a stream.
LEMMA SenderHearsReplies ==
  ASSUME LineTypeOK, Simple, ~Deadlines
  PROVE  /\ \A types : SReceives(types) =>
              /\ toS # <<>> /\ Head(toS).k = "hdr"
              /\ Head(toS).t \in types /\ Head(toS).t \in Replies
              /\ toS' = Tail(toS)
         /\ STimeout => \/ toS # <<>> /\ Head(toS).k = "nul" /\ toS' = Tail(toS)
                        \/ toS # <<>> /\ Head(toS).k = "eof" /\ toS' = toS
         /\ ~SError
         /\ \A g : ~Skips(toS, sgarb, toS', g)
<1>1. toS # <<>> => Head(toS) = toS[1] /\ 1 \in 1 .. Len(toS) /\ Head(toS) \in Frame
  BY DEF LineTypeOK
<1>2. toS # <<>> => IsReply(Head(toS))
  BY <1>1 DEF Simple
<1>3. toS # <<>> => ~IsBlock(Head(toS)) /\ Head(toS).k # "info" /\ Head(toS).k # "badhdr"
  BY <1>2 DEF IsReply, IsBlock
<1>4. toS # <<>> => ~Unreadable(Head(toS))
  <2> SUFFICES ASSUME toS # <<>>, Unreadable(Head(toS)) PROVE FALSE
    OBVIOUS
  <2>1. Head(toS).t \in {"ZSINIT", "ZFILE", "ZDATA", "ZEOF", "ZCRC"}
    BY LineAssumption DEF Unreadable
  <2> QED BY <1>2, <2>1 DEF IsReply, Replies, Unreadable
<1>5. \A types : SReceives(types) =>
              /\ toS # <<>> /\ Head(toS).k = "hdr"
              /\ Head(toS).t \in types /\ Head(toS).t \in Replies
              /\ toS' = Tail(toS)
  BY <1>2 DEF SReceives, Arrives, IsReply
<1>6. STimeout => \/ toS # <<>> /\ Head(toS).k = "nul" /\ toS' = Tail(toS)
                  \/ toS # <<>> /\ Head(toS).k = "eof" /\ toS' = toS
  <2> SUFFICES ASSUME STimeout, toS # <<>>, Head(toS).k \notin {"nul", "eof"}
               PROVE  FALSE
    BY DEF STimeout, TimesOut, IsBlock
  <2> QED BY <1>2, <1>3 DEF STimeout, TimesOut, IsReply
<1>7. ~SError
  BY <1>3, <1>4 DEF SError, Fails
<1>8. \A g : ~Skips(toS, sgarb, toS', g)
  BY <1>3 DEF Skips
<1> QED BY <1>5, <1>6, <1>7, <1>8

-----------------------------------------------------------------------------
\* The sender writes frames, the last of which leaves nothing open, and in
\* which there is a header, or a ZFILE, if it then waits for an answer.
Shaped(es) ==
  \A i \in 1 .. Len(es) :
    /\ es[i].k = "hdr" => es[i].t # "ZCOMMAND"
    /\ es[i].k = "eof" => spc' = "end"
    /\ IsZFILE(es[i]) => spc' = "zfileWait" /\ i < Len(es) /\ es[i + 1].k = "info"
    /\ IsZSINIT(es[i]) => i < Len(es)
    /\ IsZDATA(es[i]) => ~(Waits \/ Awaits)'
Speaks(es) ==
  /\ es \in Seq(Frame) /\ es # <<>> /\ Shaped(es)
  /\ toR' = toR \o es \/ (Closed(toS) /\ toR' = toR)
  /\ Waits' => Heads(es)
  /\ Awaits' => \E i \in 1 .. Len(es) : IsZFILE(es[i])

\* Or it writes nothing, and does not come to wait.
Keeps ==
  /\ toR' = toR
  /\ Waits' => Waits /\ toS' = toS
  /\ Awaits' => Awaits /\ \/ toS' = toS
                          \/ toS # <<>> /\ toS' = Tail(toS) /\ ~IsWord(Head(toS))
Acts == Keeps \/ \E es : Speaks(es)

\* Sending one header is of the second kind.
LEMMA SpeaksHeader ==
  ASSUME NEW t \in {"ZRQINIT", "ZNAK", "ZFIN", "ZEOF", "ZDATA"}, NEW p \in Nat,
         SWrites(<<Hdr(t, p)>>), ~Awaits', t = "ZDATA" => ~Waits'
  PROVE  Acts
<1> DEFINE e == Hdr(t, p)
<1>1. e \in Frame /\ e.k = "hdr" /\ e.t = t
  BY FramesAreTyped DEF FrameTypes, Hdr
<1> HIDE DEF e
<1>2. /\ <<e>> \in Seq(Frame) /\ <<e>> # <<>> /\ Len(<<e>>) = 1 /\ <<e>>[1] = e
  BY <1>1
<1>3. Shaped(<<e>>)
  BY <1>1, <1>2 DEF Shaped, IsZFILE, IsZSINIT, IsZDATA
<1>4. Heads(<<e>>)
  BY <1>1, <1>2 DEF Heads
<1>5. toR' = toR \o <<e>> \/ (Closed(toS) /\ toR' = toR)
  BY DEF SWrites, Written, e
<1>6. Speaks(<<e>>)
  BY <1>2, <1>3, <1>4, <1>5 DEF Speaks
<1> QED BY <1>6 DEF Acts

\* Every step of the sending program is of one of these kinds.
LEMMA SenderActs ==
  ASSUME LineTypeOK, SenderTypeOK, Simple, Early, ~Deadlines, SCall,
         sphase' # "fin"
  PROVE  Acts
<1> USE DEF SGo, SReturn, SQuiet
<1>1. /\ \A types : SReceives(types) =>
              /\ toS # <<>> /\ Head(toS).k = "hdr"
              /\ Head(toS).t \in types /\ Head(toS).t \in Replies
              /\ toS' = Tail(toS)
      /\ STimeout => \/ toS # <<>> /\ Head(toS).k = "nul" /\ toS' = Tail(toS)
                     \/ toS # <<>> /\ Head(toS).k = "eof" /\ toS' = toS
      /\ ~SError
      /\ \A g : ~Skips(toS, sgarb, toS', g)
  BY SenderHearsReplies
<1>2. ASSUME toR' = toR, ~(Waits \/ Awaits)' PROVE Acts
  BY <1>2 DEF Acts, Keeps
<1>3. ASSUME toR' = toR,
             spc' \notin {"init", "initWait", "zsinitWait", "eofWait",
                          "zfileWait", "discard"}
      PROVE  Acts
  BY <1>2, <1>3 DEF Waits, Awaits
<1>4. toS # <<>> => Head(toS) = toS[1] /\ 1 \in 1 .. Len(toS) /\ IsReply(Head(toS))
  BY DEF Simple, LineTypeOK
<1>5. CASE SSkipGarbage
  BY <1>1, <1>5 DEF SSkipGarbage
<1>6. CASE SInitTop
  <2>1. CASE SWrites(<<Hdr("ZRQINIT", 0)>>) /\ spc' = "initWait"
    BY <2>1, SpeaksHeader DEF Awaits
  <2>2. CASE toR' = toR
    BY <1>6, <2>2 DEF SInitTop, Acts, Keeps, Waits, Awaits
  <2> QED BY <1>6, <2>1, <2>2 DEF SInitTop
<1>7. CASE SInitZRINIT
  BY <1>3, <1>7 DEF SInitZRINIT
<1>8. CASE SInitOther
  <2>1. SWrites(<<Hdr("ZNAK", 0)>>) /\ spc' = "init"
    BY <1>1, <1>8 DEF SInitOther, SInitAgain, Replies
  <2> QED BY <2>1, SpeaksHeader DEF Awaits
<1>9. CASE SInitNoHeader
  <2>1. toR' = toR /\ STimeout /\ spc = "initWait"
    BY <1>1, <1>9 DEF SInitNoHeader
  <2>2. Head(toS).k = "eof" /\ toS' = toS
    BY <1>1, <1>4, <2>1 DEF Early, SInits
  <2> QED BY <2>1, <2>2, <1>9 DEF SInitNoHeader, SInitAgain, Acts, Keeps, Waits, Awaits
<1>10. CASE SZsinitTop
  <2> DEFINE f == IF EscapesCtrl THEN Part(0, 0) ELSE Info
             h == Hdr("ZSINIT", 0)
             es == <<h, f>>
  <2>1. h \in Frame /\ h.k = "hdr" /\ h.t = "ZSINIT" /\ f \in Frame /\ f.k \in {"part", "info"}
    BY FramesAreTyped DEF FrameTypes, Hdr, Part, Info
  <2>2. toR' = toR \o es \/ (Closed(toS) /\ toR' = toR)
    BY <1>10 DEF SZsinitTop, SWrites, Written
  <2>3. spc' = "zsinitWait"
    BY <1>10 DEF SZsinitTop
  <2> HIDE DEF f, h
  <2>4. es \in Seq(Frame) /\ es # <<>> /\ Len(es) = 2 /\ es[1] = h /\ es[2] = f
    BY <2>1
  <2> HIDE DEF es
  <2>5. \A i \in 1 .. Len(es) : i = 1 \/ i = 2
    BY <2>4
  <2>6. Shaped(es)
    BY <2>1, <2>4, <2>5 DEF Shaped, IsZFILE, IsZSINIT, IsZDATA
  <2>7. Heads(es)
    BY <2>1, <2>4 DEF Heads
  <2>8. Speaks(es)
    BY <2>2, <2>3, <2>4, <2>6, <2>7 DEF Speaks, Awaits
  <2> QED BY <2>8 DEF Acts
<1>11. CASE SZsinitReply
  BY <1>3, <1>11 DEF SZsinitReply, SRetry
<1>12. CASE SFileTop
  <2> DEFINE h == Hdr("ZFILE", 0)
             es == <<h, Info>>
  <2>1. h \in Frame /\ h.k = "hdr" /\ h.t = "ZFILE" /\ Info \in Frame /\ Info.k = "info"
    BY FramesAreTyped DEF FrameTypes, Hdr, Info
  <2>2. toR' = toR \o es \/ (Closed(toS) /\ toR' = toR)
    BY <1>12 DEF SFileTop, SWrites, Written
  <2>3. spc' = "zfileWait"
    BY <1>12 DEF SFileTop
  <2> HIDE DEF h
  <2>4. es \in Seq(Frame) /\ es # <<>> /\ Len(es) = 2 /\ es[1] = h /\ es[2] = Info
    BY <2>1
  <2> HIDE DEF es
  <2>5. \A i \in 1 .. Len(es) : i = 1 \/ i = 2
    BY <2>4
  <2>6. Shaped(es)
    BY <2>1, <2>3, <2>4, <2>5 DEF Shaped, IsZFILE, IsZSINIT, IsZDATA
  <2>7. Heads(es) /\ \E i \in 1 .. Len(es) : IsZFILE(es[i])
    BY <2>1, <2>4 DEF Heads, IsZFILE
  <2>8. Speaks(es)
    BY <2>2, <2>4, <2>6, <2>7 DEF Speaks
  <2> QED BY <2>8 DEF Acts
<1>13. CASE SFileReply
  <2>1. CASE spc' = "discard"
    <3>1. Head(toS).k = "hdr" /\ Head(toS).t = "ZRINIT" /\ toS' = Tail(toS) /\ toS # <<>>
      BY <1>1, <1>13, <2>1 DEF SFileReply, SRetry
    <3>2. spc = "zfileWait" /\ toR' = toR
      BY <1>13 DEF SFileReply
    <3> QED BY <2>1, <3>1, <3>2 DEF Acts, Keeps, Waits, Awaits, IsWord
  <2>2. CASE spc' # "discard"
    BY <1>3, <1>13, <2>2 DEF SFileReply, SRetry
  <2> QED BY <2>1, <2>2
<1>14. CASE SDiscard
  <2>1. CASE spc' = spc
    <3>1. toS # <<>> /\ toS' = Tail(toS) /\ ~IsWord(Head(toS)) /\ spc = "discard" /\ toR' = toR
      BY <1>14, <2>1 DEF SDiscard, IsWord
    <3> QED BY <2>1, <3>1 DEF Acts, Keeps, Waits, Awaits
  <2>2. CASE spc' = "zfile"
    BY <1>3, <1>14, <2>2 DEF SDiscard
  <2> QED BY <1>14, <2>1, <2>2 DEF SDiscard
<1>15. CASE SFileCRC
  BY <1>1, <1>15 DEF SFileCRC, Replies
<1>16. CASE SFileZRPOS \/ SEofZRPOS \/ SAckWSeek
  <2>1. SWrites(<<Hdr("ZDATA", rxpos)>>) /\ spc' = "data" /\ SReceives({"ZRPOS"})
    BY <1>16 DEF SFileZRPOS, SEofZRPOS, SAckWSeek, StartData
  <2>2. rxpos \in Nat
    BY <2>1, ReceivedPosition DEF SReceives, rxpos, LineTypeOK
  <2> QED BY <2>1, <2>2, SpeaksHeader DEF Waits, Awaits
<1>17. CASE SBlock
  <2> DEFINE e == Data(fpos, ReadLen, FrameEnd(ReadLen))
  <2>1. FrameEnd(ReadLen) \in FrameEnds /\ fpos \in Nat
    BY DEF FrameEnd, FrameEnds, SenderTypeOK
  <2>2. e \in Frame /\ e.k = "data"
    BY <2>1, ReadLenType, FramesAreTyped DEF Data
  <2>3. toR' = toR \o <<e>> \/ (Closed(toS) /\ toR' = toR)
    BY <1>17 DEF SBlock, SWrites, Written
  <2>4. ~(Waits \/ Awaits)'
    BY <1>17 DEF SBlock, SWindow, Waits, Awaits
  <2> HIDE DEF e
  <2>5. <<e>> \in Seq(Frame) /\ <<e>> # <<>> /\ Len(<<e>>) = 1 /\ <<e>>[1] = e
    BY <2>2
  <2>6. Shaped(<<e>>)
    BY <2>2, <2>5 DEF Shaped, IsZFILE, IsZSINIT, IsZDATA
  <2>7. Speaks(<<e>>)
    BY <2>3, <2>4, <2>5, <2>6 DEF Speaks
  <2> QED BY <2>7 DEF Acts
<1>18. CASE SCancelled \/ SWriteFails
  BY <1>3, <1>18 DEF SCancelled, SWriteFails
<1>19. CASE SAckW \/ SAckQ \/ SWinWait
  <2>1. toR' = toR
    BY <1>19 DEF SAckW, SAckQ, SWinWait
  <2>2. spc' \in {"ret", "data", "win", "winEnd", "eof"}
    <3>1. CASE SAckW
      BY <3>1 DEF SAckW, Junk, SWindow
    <3>2. CASE SAckQ
      BY <3>2 DEF SAckQ, Junk, SWindow
    <3>3. CASE SWinWait
      BY <3>3 DEF SWinWait, SRetry
    <3> QED BY <1>19, <3>1, <3>2, <3>3
  <2> QED BY <1>3, <2>1, <2>2
<1>20. CASE SEofTop
  <2>1. SWrites(<<Hdr("ZEOF", spos)>>) /\ spc' = "eofWait" /\ spos \in Nat
    BY <1>20 DEF SEofTop, SenderTypeOK
  <2> QED BY <2>1, SpeaksHeader DEF Awaits
<1>21. CASE SEofReply
  BY <1>3, <1>21 DEF SEofReply
<1> QED
  BY <1>5, <1>6, <1>7, <1>8, <1>9, <1>10, <1>11, <1>12, <1>13, <1>14, <1>15, <1>16,
     <1>17, <1>18, <1>19, <1>20, <1>21
  DEF SCall

\* So is every step of the loop around the calls.
LEMMA SendSideActs ==
  ASSUME TypeOK, Counted, Simple, Early, ~Deadlines, SendSide
  PROVE  /\ Acts
         /\ toS' = toS \/ (toS # <<>> /\ toS' = Tail(toS))
         /\ spc' \in SInits => spc \in SInits
         /\ spc = "end" => spc' = "end"
<1>0. LineTypeOK /\ SenderTypeOK
  BY DEF TypeOK
<1>1. /\ \A types : SReceives(types) =>
              /\ toS # <<>> /\ Head(toS).k = "hdr"
              /\ Head(toS).t \in types /\ Head(toS).t \in Replies
              /\ toS' = Tail(toS)
      /\ STimeout => \/ toS # <<>> /\ Head(toS).k = "nul" /\ toS' = Tail(toS)
                     \/ toS # <<>> /\ Head(toS).k = "eof" /\ toS' = toS
      /\ ~SError
      /\ \A g : ~Skips(toS, sgarb, toS', g)
  BY <1>0, SenderHearsReplies
<1>2. toS # <<>> => Head(toS) = toS[1] /\ 1 \in 1 .. Len(toS) /\ IsReply(Head(toS))
  BY DEF Simple, TypeOK, LineTypeOK
<1>3. ASSUME toR' = toR, ~(Waits \/ Awaits)' PROVE Acts
  BY <1>3 DEF Acts, Keeps
<1>4. CASE SCalls
  <2>1. SCall /\ sphase' = sphase
    BY <1>4 DEF SCalls
  <2>2. /\ spc \in SInits \cup SBefore \cup InData
        /\ spc \in SBefore => spc' \in SBefore \cup InData \cup {"ret"}
        /\ spc \in InData => spc' \in InData \cup {"ret"}
    BY <2>1, SenderGoes
  <2>3. sphase' # "fin"
    BY <2>1, <2>2 DEF Counted, SInits, SBefore, InData
  <2>4. Acts
    BY <1>0, <2>1, <2>3, SenderActs
  <2>5. toS' = toS \/ (toS # <<>> /\ toS' = Tail(toS))
    <3>1. CASE \/ SInitTop \/ SZsinitTop \/ SFileTop \/ SBlock \/ SCancelled
               \/ SEofTop \/ SWriteFails \/ SSkipGarbage \/ SDiscard
      BY <1>1, <3>1 DEF SInitTop, SZsinitTop, SFileTop, SBlock, SCancelled, SEofTop,
         SWriteFails, SSkipGarbage, SDiscard
    <3>2. CASE SInitZRINIT \/ SInitOther \/ SInitNoHeader \/ SZsinitReply
      BY <1>1, <3>2 DEF SInitZRINIT, SInitOther, SInitNoHeader, SZsinitReply
    <3>3. CASE SFileReply \/ SFileCRC \/ SFileZRPOS \/ SEofReply \/ SEofZRPOS
      BY <1>1, <3>3 DEF SFileReply, SFileCRC, SFileZRPOS, SEofReply, SEofZRPOS
    <3>4. CASE SAckW \/ SAckWSeek \/ SAckQ \/ SWinWait
      BY <1>1, <3>4 DEF SAckW, SAckWSeek, SAckQ, SWinWait
    <3> QED BY <2>1, <3>1, <3>2, <3>3, <3>4 DEF SCall
  <2> QED BY <2>2, <2>4, <2>5 DEF SInits, SBefore, InData
<1>5. CASE TInit
  <2>1. \/ SReceives({"ZRINIT"}) /\ spc' \in {"zfile", "zsinit"}
        \/ STimeout /\ spc' = "ret"
    BY <1>1, <1>2, <1>5 DEF TInit, SGo, SReturn, Early, SInits, IsReply
  <2>2. sphase' # "fin"
    BY <1>5 DEF TInit, Counted
  <2>3. toR' = toR /\ spc = "init"
    BY <1>5 DEF TInit, SQuiet
  <2> QED BY <1>1, <1>3, <2>1, <2>2, <2>3 DEF Waits, Awaits, SInits
<1>6. CASE SNextFile \/ SFileDone \/ SRetryFile \/ SAborts \/ SAllSent
  <2>1. toR' = toR /\ toS' = toS
    BY <1>6 DEF SNextFile, SFileDone, SRetryFile, SAborts, SAllSent, SLoops
  <2>2. sphase' # "fin" /\ spc' \in {"zfile", "ret"} /\ spc # "end"
    BY <1>6 DEF SNextFile, SFileDone, SRetryFile, SAborts, SAllSent, BetweenFiles,
       SReturn, Counted
  <2> QED BY <1>3, <2>1, <2>2 DEF Waits, Awaits, SInits
<1>7. CASE TFin
  <2>1. SWrites(<<Hdr("ZFIN", 0)>>) /\ spc' = "ret" /\ toS' = toS /\ spc # "end"
    BY <1>7 DEF TFin, BetweenFiles
  <2> QED BY <2>1, SpeaksHeader DEF Awaits, SInits
<1>8. CASE TFinReply
  <2>1. toR' = toR /\ spc' = spc /\ sphase' = "over" /\ spc \in {"ret", "end"}
    BY <1>1, <1>8 DEF TFinReply, SQuiet, Counted
  <2>2. toS' = toS \/ (toS # <<>> /\ toS' = Tail(toS))
    BY <1>1, <1>8 DEF TFinReply
  <2> QED BY <1>3, <2>1, <2>2 DEF Waits, Awaits, SInits
<1>9. CASE SCloses
  <2>1. toR' = toR \o <<Eof>> /\ spc' = "end" /\ toS' = toS /\ sphase' = "over"
    BY <1>9 DEF SCloses, SClose, TypeOK, LineTypeOK
  <2>2. <<Eof>> \in Seq(Frame) /\ <<Eof>> # <<>> /\ Len(<<Eof>>) = 1 /\ <<Eof>>[1].k = "eof"
    BY FramesAreTyped DEF Eof
  <2>3. Speaks(<<Eof>>)
    BY <2>1, <2>2 DEF Speaks, Shaped, IsZFILE, IsZSINIT, IsZDATA, Waits, Awaits
  <2> QED BY <2>1, <2>3 DEF Acts, SInits
<1> QED BY <1>4, <1>5, <1>6, <1>7, <1>8, <1>9 DEF SendSide

\* Answered in the steps of the sending program.
LEMMA AnsweredBySender ==
  ASSUME IInv, Calm, Answered, Sender PROVE Answered'
<1>1. /\ TypeOK /\ Counted /\ SendSide /\ ~Deadlines
      /\ rpc' = rpc /\ rres' = rres
      /\ Formed /\ Reading /\ Simple /\ Early /\ Owed /\ OwedFile /\ EndsLast
  BY DEF IInv, Calm, Answered, Sender, rvars
<1>2. /\ Acts
      /\ toS' = toS \/ (toS # <<>> /\ toS' = Tail(toS))
      /\ spc' \in SInits => spc \in SInits
      /\ spc = "end" => spc' = "end"
  BY <1>1, SendSideActs
<1>3. /\ toR \in Seq(Frame) /\ toS \in Seq(Frame) /\ toS' \in Seq(Frame)
      /\ \E d \in {0, 1} : Thinned(toS, toS', d)
  BY <1>1, SendSideLine DEF TypeOK, LineTypeOK
<1>4. Closed(toS) <=> Closed(toS')
  BY <1>3, ThinnedEnds
<1>5. \A i \in 1 .. Len(toS') : \E j \in 1 .. Len(toS) : toS'[i] = toS[j]
  <2>1. CASE toS' = toS
    BY <2>1
  <2>2. CASE toS # <<>> /\ toS' = Tail(toS)
    <3>1. Len(toS) \in Nat /\ Len(toS') = Len(toS) - 1
      BY <1>3, <2>2
    <3>2. \A i \in 1 .. Len(toS') : i + 1 \in 1 .. Len(toS) /\ toS'[i] = toS[i + 1]
      BY <1>3, <2>2, <3>1
    <3> QED BY <3>2
  <2> QED BY <1>2, <2>1, <2>2
<1>6. Simple' /\ EndsLast'
  BY <1>1, <1>4, <1>5 DEF Simple, IsReply, EndsLast, Closed
\* Nothing is added to the stream: no promise is broken,
<1>7. ASSUME toR' = toR, Keeps \/ Closed(toS)
      PROVE  Formed' /\ Reading' /\ Early' /\ Owed' /\ OwedFile'
  <2>1. Moves => Moves'
    BY <1>4, <1>7 DEF Keeps, Moves
  <2>2. Formed'
    BY <1>1, <1>2, <1>7, <2>1 DEF Formed, IsZFILE, IsZSINIT, IsZDATA
  <2>3. Reading'
    BY <1>1, <1>7, <2>1 DEF Reading
  <2>4. Early'
    BY <1>1, <1>2, <1>5, <1>7 DEF Early, NoZFILE
  <2>5. CASE Closed(toS)
    <3>1. Closed(toS')
      BY <1>4, <2>5
    <3>2. toS' # <<>> /\ Len(toS') \in 1 .. Len(toS') /\ IsWord(toS'[Len(toS')])
      BY <1>3, <3>1 DEF Closed, IsWord
    <3>3. \E i \in 1 .. Len(toS') : IsWord(toS'[i])
      BY <3>2
    <3> QED BY <2>2, <2>3, <2>4, <3>2, <3>3 DEF Owed, OwedFile
  <2>6. CASE Keeps
    <3>1. Owed'
      BY <1>1, <2>6 DEF Owed, Keeps, Idle, Heads
    <3>2. OwedFile'
      <4>1. SUFFICES ASSUME Awaits',
                            ~(~NoZFILE \/ rpc \in {"zfileInfo", "prompt", "zrpos", "discard"}
                              \/ rres \in Over)
                     PROVE  \E i \in 1 .. Len(toS') : IsWord(toS'[i])
        BY <1>1, <1>7 DEF OwedFile, NoZFILE
      <4>2. /\ Awaits
            /\ \/ toS' = toS
               \/ toS # <<>> /\ toS' = Tail(toS) /\ ~IsWord(Head(toS))
        BY <2>6, <4>1 DEF Keeps
      <4>3. PICK i \in 1 .. Len(toS) : IsWord(toS[i])
        BY <1>1, <4>1, <4>2 DEF OwedFile
      <4>4. CASE toS' = toS
        BY <4>3, <4>4
      <4>5. CASE toS # <<>> /\ toS' = Tail(toS) /\ ~IsWord(Head(toS))
        <5>1. i # 1 /\ Len(toS) \in Nat /\ Len(toS') = Len(toS) - 1
          BY <1>3, <4>3, <4>5
        <5>2. i - 1 \in 1 .. Len(toS') /\ (i - 1) + 1 = i
          BY <5>1
        <5>3. toS'[i - 1] = toS[i]
          BY <1>3, <4>5, <5>2
        <5> QED BY <4>3, <5>2, <5>3
      <4> QED BY <4>2, <4>4, <4>5
    <3> QED BY <2>2, <2>3, <2>4, <3>1, <3>2
  <2> QED BY <1>7, <2>5, <2>6
\* or frames are added that keep it well formed.
<1>8. ASSUME NEW es, Speaks(es), toR' = toR \o es
      PROVE  Formed' /\ Reading' /\ Early' /\ Owed' /\ OwedFile'
  <2>1. es \in Seq(Frame) /\ Len(es) \in Nat /\ Len(es) # 0 /\ Len(toR) \in Nat /\ Shaped(es)
    BY <1>3, <1>8 DEF Speaks
  <2>2. /\ Len(toR') = Len(toR) + Len(es)
        /\ \A i \in 1 .. Len(toR) + Len(es) :
             toR'[i] = IF i <= Len(toR) THEN toR[i] ELSE es[i - Len(toR)]
    BY ONLY <1>3, <1>8, <2>1, ConcatProperties
  <2>3. \A i \in 1 .. Len(toR) : i \in 1 .. Len(toR') /\ toR'[i] = toR[i] /\ i # Len(toR')
    BY <2>1, <2>2
  <2>4. \A j \in 1 .. Len(es) :
          Len(toR) + j \in 1 .. Len(toR') /\ toR'[Len(toR) + j] = es[j]
    BY <2>1, <2>2
  <2>5. \A i \in 1 .. Len(toR') :
          i \in 1 .. Len(toR) \/ \E j \in 1 .. Len(es) : i = Len(toR) + j
    <3> TAKE i \in 1 .. Len(toR')
    <3>1. CASE i > Len(toR)
      <4>1. i - Len(toR) \in 1 .. Len(es) /\ i = Len(toR) + (i - Len(toR))
        BY <2>1, <2>2, <3>1
      <4> QED BY <4>1
    <3>2. CASE i <= Len(toR)
      BY <2>1, <3>2
    <3> QED BY <2>1, <2>2, <3>1, <3>2
  <2>6. Formed'
    <3> DEFINE New(m) ==
          /\ toR'[m].k = "hdr" => toR'[m].t # "ZCOMMAND"
          /\ toR'[m].k = "eof" => spc' = "end"
          /\ IsZFILE(toR'[m]) => m < Len(toR') /\ toR'[m + 1].k = "info"
          /\ IsZSINIT(toR'[m]) => m < Len(toR')
          /\ IsZDATA(toR'[m]) /\ m = Len(toR') => Moves'
    <3>1. ASSUME NEW i \in 1 .. Len(toR) PROVE New(i)
      <4>1. /\ toR[i].k = "hdr" => toR[i].t # "ZCOMMAND"
            /\ toR[i].k = "eof" => spc = "end"
            /\ IsZFILE(toR[i]) => i < Len(toR) /\ toR[i + 1].k = "info"
            /\ IsZSINIT(toR[i]) => i < Len(toR)
        BY <1>1 DEF Formed
      <4>2. toR'[i] = toR[i] /\ i # Len(toR') /\ (i < Len(toR) => i < Len(toR'))
        BY <2>1, <2>2, <2>3
      <4>3. i < Len(toR) => toR'[i + 1] = toR[i + 1]
        <5>1. i < Len(toR) => i + 1 \in 1 .. Len(toR)
          BY <2>1
        <5> QED BY <2>3, <5>1
      <4> QED BY <1>2, <4>1, <4>2, <4>3 DEF IsZFILE, IsZSINIT, IsZDATA
    <3>2. ASSUME NEW j \in 1 .. Len(es) PROVE New(Len(toR) + j)
      <4>1. toR'[Len(toR) + j] = es[j]
        BY <2>4
      <4>2. /\ es[j].k = "hdr" => es[j].t # "ZCOMMAND"
            /\ es[j].k = "eof" => spc' = "end"
            /\ IsZFILE(es[j]) => j < Len(es) /\ es[j + 1].k = "info"
            /\ IsZSINIT(es[j]) => j < Len(es)
            /\ IsZDATA(es[j]) => Moves'
        BY <2>1 DEF Shaped, Moves
      <4>3. j < Len(es) => Len(toR) + j < Len(toR')
                           /\ toR'[(Len(toR) + j) + 1] = es[j + 1]
        <5>1. j < Len(es) => j + 1 \in 1 .. Len(es)
          BY <2>1
        <5>2. Len(toR) + (j + 1) = (Len(toR) + j) + 1
          BY <2>1
        <5>3. j < Len(es) => Len(toR) + j < Len(toR')
          BY <2>1, <2>2
        <5>4. j < Len(es) => toR'[Len(toR) + (j + 1)] = es[j + 1]
          BY <2>4, <5>1
        <5> QED BY <5>2, <5>3, <5>4
      <4> DEFINE m == Len(toR) + j
      <4>4. toR'[m] = es[j] /\ (j < Len(es) => m < Len(toR') /\ toR'[m + 1] = es[j + 1])
        BY <4>1, <4>3
      <4> HIDE DEF m
      <4>5. New(m)
        BY <4>2, <4>4
      <4> QED BY <4>5 DEF m
    <3>3. \A i \in 1 .. Len(toR') : New(i)
      BY <2>5, <3>1, <3>2
    <3> QED BY <3>3 DEF Formed
  <2>7. Reading'
    <3>1. toR' # <<>>
      BY <2>1, <2>2
    <3>2. toR # <<>> => Head(toR') = Head(toR)
      <4>1. toR # <<>> => 1 \in 1 .. Len(toR) /\ Head(toR) = toR[1]
        BY <1>3
      <4>2. toR' \in Seq(Frame)
        BY <1>3, <1>8, <2>1
      <4> QED BY <2>3, <3>1, <4>1, <4>2
    <3> QED BY <1>1, <3>1, <3>2 DEF Reading
  <2>8. Early'
    <3>1. spc' \in SInits => NoZFILE'
      <4>1. spc' \in SInits => \A j \in 1 .. Len(es) : ~IsZFILE(es[j])
        BY <2>1 DEF Shaped, SInits
      <4>2. spc' \in SInits => \A i \in 1 .. Len(toR) : ~IsZFILE(toR[i])
        BY <1>1, <1>2 DEF Early, NoZFILE
      <4> QED BY <2>3, <2>4, <2>5, <4>1, <4>2 DEF NoZFILE
    <3> QED BY <1>1, <1>2, <1>5, <3>1 DEF Early
  <2>9. Owed'
    <3>1. Waits' => Heads(es)
      BY <1>8 DEF Speaks
    <3>2. Heads(es) => Heads(toR')
      BY <2>4 DEF Heads
    <3> QED BY <3>1, <3>2 DEF Owed, Idle, Heads
  <2>10. OwedFile'
    <3>1. Awaits' => \E j \in 1 .. Len(es) : IsZFILE(es[j])
      BY <1>8 DEF Speaks
    <3>2. Awaits' => ~NoZFILE'
      BY <2>4, <3>1 DEF NoZFILE
    <3> QED BY <3>2 DEF OwedFile
  <2> QED BY <2>6, <2>7, <2>8, <2>9, <2>10
<1>9. \/ toR' = toR /\ (Keeps \/ Closed(toS))
      \/ \E es : Speaks(es) /\ toR' = toR \o es
  BY <1>2 DEF Acts, Keeps, Speaks
<1> QED BY <1>6, <1>7, <1>8, <1>9 DEF Answered

-----------------------------------------------------------------------------
\* What the receiver writes.
LEMMA ReceiveSideReplies ==
  ASSUME TypeOK, ReceiveSide
  PROVE  \/ toS' = toS
         \/ \E e \in Frame :
              /\ toS' = toS \o <<e>> /\ IsReply(e)
              /\ e.k = "nul" => rpc \in Taking
              /\ e.k = "eof" => rpc' = "end"
<1> USE DEF RGo, RReturn, RAgain, RPass, RQuiet
<1> DEFINE Fine(e) == /\ IsReply(e)
                      /\ e.k = "nul" => rpc \in Taking
                      /\ e.k = "eof" => rpc' = "end"
           Tells == toS' = toS \/ \E e \in Frame : toS' = toS \o <<e>> /\ Fine(e)
<1> SUFFICES Tells
  OBVIOUS
<1>1. ASSUME NEW e \in Frame, Fine(e), RWrites(<<e>>) PROVE Tells
  BY <1>1 DEF RWrites, Written
<1>2. \A t \in Replies, p \in Nat : Hdr(t, p) \in Frame /\ Fine(Hdr(t, p))
  BY FramesAreTyped DEF FrameTypes, Hdr, IsReply, Replies
<1>3. RAttention /\ rpc \in Taking => Tells
  <2>1. Nul \in Frame /\ (rpc \in Taking => Fine(Nul))
    BY FramesAreTyped DEF Nul, IsReply
  <2> QED BY <1>1, <2>1 DEF RAttention
<1>4. rpos \in Nat /\ 0 \in Nat /\ 1 \in Nat /\ PosMod - 1 \in Nat
  BY LineAssumption DEF TypeOK, ReceiverTypeOK
<1> HIDE DEF Fine, Tells
<1>5. ASSUME NEW t \in {"ZRINIT", "ZNAK", "ZACK", "ZRPOS", "ZSKIP", "ZCOMPL"},
             NEW p \in Nat, RWrites(<<Hdr(t, p)>>)
      PROVE  Tells
  BY <1>1, <1>2, <1>5 DEF Replies
<1>6. toS' = toS => Tells
  BY DEF Tells
<1>7. CASE RNextFile \/ ROver
  BY <1>6, <1>7 DEF RNextFile, ROver
<1>8. CASE RCloses
  <2>1. Eof \in Frame /\ (rpc' = "end" => Fine(Eof))
    BY FramesAreTyped DEF Eof, Fine, IsReply
  <2>2. toS' = toS \o <<Eof>> /\ rpc' = "end"
    BY <1>8 DEF RCloses, RClose, TypeOK, LineTypeOK
  <2> QED BY <2>1, <2>2 DEF Tells
<1>9. CASE RSkipGarbage \/ RFinWait \/ RDiscard \/ RWriteFails
  BY <1>6, <1>9 DEF RSkipGarbage, RFinWait, RDiscard, RWriteFails
<1>10. CASE RTry \/ RTryReply
  BY <1>4, <1>5, <1>6, <1>10 DEF RTry, RTryReply
<1>11. CASE RInfo \/ RInfoFails
  BY <1>4, <1>5, <1>6, <1>11 DEF RInfo, RInfoFails
<1>12. CASE RPrompt \/ RZrpos
  BY <1>4, <1>5, <1>6, <1>12 DEF RPrompt, RZrpos
<1>13. CASE RDataReply
  BY <1>3, <1>4, <1>5, <1>6, <1>13 DEF RDataReply, InPlace, Inside, Taking
<1>14. CASE RBlock
  <2>1. rpos + Head(toR).n \in Nat
    <3>1. Head(toR) \in Frame /\ IsBlock(Head(toR))
      BY <1>14 DEF RBlock, Reads, IsBlock, TypeOK, LineTypeOK
    <3> QED BY <1>4, <3>1, BlockRange
  <2> QED BY <1>5, <1>6, <1>14, <2>1 DEF RBlock
<1>15. CASE RBlockFails
  BY <1>3, <1>15 DEF RBlockFails, Inside, Taking
<1> QED
  BY <1>7, <1>8, <1>9, <1>10, <1>11, <1>12, <1>13, <1>14, <1>15
  DEF ReceiveSide, RCalls, RCall

\* Where a read after a header, or after garbage, leads.
LEMMA ReceiveSideTurns ==
  ASSUME TypeOK, Formed, Reading, ReceiveSide
  PROVE  /\ rpc' \notin {"commandInfo", "finWait"}
         /\ rpc' = "zfileInfo" => toR # <<>> /\ IsZFILE(Head(toR)) /\ toR' = Tail(toR)
         /\ rpc' = "zsinitInfo" => toR # <<>> /\ IsZSINIT(Head(toR)) /\ toR' = Tail(toR)
         /\ rpc' = "discard" => toR # <<>> /\ IsZFILE(Head(toR)) /\ toR' = Tail(toR)
         /\ rpc' = "block" => toR # <<>> /\ IsZDATA(Head(toR)) /\ toR' = Tail(toR)
         /\ rpc' \in {"zfileWait", "dataWait"} =>
              \/ rpc' = rpc /\ toS' = toS /\ (Heads(toR) => Heads(toR'))
              \/ \E e : toS' = toS \o <<e>>
              \/ Closed(toR) /\ toR' = toR
         /\ rpc # "end"
<1> USE DEF RGo, RReturn, RAgain, RPass, RQuiet
<1>1. \A types : RReceives(types) =>
        /\ toR # <<>> /\ Head(toR).k = "hdr" /\ Head(toR).t \in types
        /\ toR' = Tail(toR)
  BY DEF RReceives, Arrives
<1>2. toR # <<>> => Head(toR) = toR[1] /\ 1 \in 1 .. Len(toR)
  BY DEF TypeOK, LineTypeOK
<1>3. ~RReceives({"ZCOMMAND"})
  BY <1>1, <1>2 DEF Formed
<1>4. rpc \notin {"commandInfo", "finWait"}
  BY DEF Reading
<1>5. ASSUME NEW es, NEW e, es = <<e>>, RWrites(es), toR' = toR
      PROVE  (\E f : toS' = toS \o <<f>>) \/ (Closed(toR) /\ toR' = toR)
  BY <1>5 DEF RWrites, Written
<1>6. CASE RSkipGarbage
  <2>1. /\ rpc' = rpc /\ toS' = toS /\ rpc \in RWaits
        /\ toR # <<>> /\ IsBlock(Head(toR)) /\ toR' = Tail(toR)
    BY <1>6 DEF RSkipGarbage, Skips
  <2>2. ASSUME Heads(toR) PROVE Heads(toR')
    <3>1. PICK i \in 1 .. Len(toR) : toR[i].k \in {"hdr", "eof"}
      BY <2>2 DEF Heads
    <3>2. i # 1
      BY <1>2, <2>1, <3>1 DEF IsBlock
    <3>3. Len(toR) \in Nat /\ Len(toR') = Len(toR) - 1
      BY <2>1 DEF TypeOK, LineTypeOK
    <3>4. i - 1 \in 1 .. Len(toR') /\ (i - 1) + 1 = i
      BY <3>2, <3>3
    <3>5. toR'[i - 1] = toR[i]
      BY <2>1, <3>4 DEF TypeOK, LineTypeOK
    <3> QED BY <3>1, <3>4, <3>5 DEF Heads
  <2> QED BY <1>4, <2>1, <2>2 DEF RWaits
<1>7. CASE RTry \/ RZrpos
  <2>1. rpc' \in {"zfileWait", "dataWait", "ret"} /\ rpc \in {"try", "zrpos"} /\ toR' = toR
    BY <1>7 DEF RTry, RZrpos
  <2>2. rpc' # "ret" => \E p : RWrites(<<Hdr("ZRINIT", 0)>>) \/ RWrites(<<Hdr("ZRPOS", p)>>)
    BY <1>7 DEF RTry, RZrpos
  <2> QED BY <1>5, <2>1, <2>2
<1>8. CASE RTryReply
  <2>1. /\ rpc = "zfileWait"
        /\ \/ rpc' = "zfileInfo" /\ RReceives({"ZFILE"})
           \/ rpc' = "zsinitInfo" /\ RReceives({"ZSINIT"})
           \/ rpc' \in {"try", "ret"}
    BY <1>3, <1>8 DEF RTryReply
  <2> QED BY <1>1, <2>1 DEF IsZFILE, IsZSINIT
<1>9. CASE RInfo \/ RInfoFails
  BY <1>4, <1>9 DEF RInfo, RInfoFails
<1>10. CASE RFinWait
  BY <1>4, <1>10 DEF RFinWait
<1>11. CASE RPrompt
  BY <1>11 DEF RPrompt
<1>12. CASE RDataReply
  <2>1. /\ rpc = "dataWait"
        /\ \/ rpc' = "discard" /\ RReceives({"ZFILE"})
           \/ rpc' = "block" /\ RReceives({"ZDATA"})
           \/ rpc' \in {"zrpos", "ret"}
    BY <1>12 DEF RDataReply, RRetry
  <2> QED BY <1>1, <2>1 DEF IsZFILE, IsZDATA
<1>13. CASE RDiscard
  BY <1>13 DEF RDiscard
<1>14. CASE RBlock \/ RBlockFails
  BY <1>14 DEF RBlock, RBlockFails, RRetry
<1>15. CASE RWriteFails
  BY <1>15 DEF RWriteFails, RWriting
<1>16. CASE RNextFile
  BY <1>16 DEF RNextFile
<1>17. CASE ROver
  BY <1>17 DEF ROver, rvars
<1>18. CASE RCloses
  BY <1>18 DEF RCloses, RClose
<1> QED
  BY <1>6, <1>7, <1>8, <1>9, <1>10, <1>11, <1>12, <1>13, <1>14, <1>15, <1>16,
     <1>17, <1>18
  DEF ReceiveSide, RCalls, RCall

\* A ZFILE header that was read leads into the file, to the end of
\* ReceiveFiles, or to an answer that is no invitation.
ZFILEHeard == {"zfileInfo", "prompt", "zrpos", "discard"}
Told ==
  \/ rpc' \in ZFILEHeard \/ rres' \in Over \/ Closed(toR)
  \/ \E e \in Frame : IsWord(e) /\ toS' = toS \o <<e>>

\* A receiver that has heard a ZFILE header, or reads one, is still busy with it
\* after its next step, has left ReceiveFiles, or has answered.
LEMMA ReceiverTold ==
  ASSUME TypeOK, Counted, Reading, ~Deadlines, ReceiveSide,
         \/ rpc \in ZFILEHeard \/ rres \in Over
         \/ toR # <<>> /\ IsZFILE(Head(toR)) /\ toR' # toR
  PROVE  Told
<1> USE DEF RGo, RReturn, RAgain, RPass, RQuiet, ZFILEHeard
<1>1. CASE rres \in Over
  BY <1>1, ReceiveSideGoes DEF Told
<1>2. SUFFICES ASSUME rres \notin Over,
                      \/ rpc \in ZFILEHeard
                      \/ toR # <<>> /\ IsZFILE(Head(toR)) /\ toR' # toR
               PROVE  Told
  BY <1>1
<1>3. ASSUME NEW t \in {"ZNAK", "ZRPOS"}, NEW p \in Nat, RWrites(<<Hdr(t, p)>>)
      PROVE  Told
  <2>1. Hdr(t, p) \in Frame /\ IsWord(Hdr(t, p))
    BY FramesAreTyped DEF FrameTypes, Hdr, IsWord
  <2> QED BY <1>3, <2>1 DEF RWrites, Written, Told
<1>4. rpc' \in ZFILEHeard \/ rres' \in Over => Told
  BY DEF Told
<1>5. rpc \notin {"commandInfo", "finWait"}
  BY DEF Reading
<1>6. 0 \in Nat /\ rpos \in Nat
  BY DEF TypeOK, ReceiverTypeOK
<1>7. CASE RSkipGarbage
  BY <1>2, <1>7 DEF RSkipGarbage, Skips, IsBlock, IsZFILE, RWaits
<1>8. CASE RTry
  BY <1>2, <1>8 DEF RTry
<1>9. CASE RTryReply
  <2>1. toR # <<>> /\ IsZFILE(Head(toR))
    BY <1>2, <1>9 DEF RTryReply
  <2>2. \A types : RReceives(types) => "ZFILE" \in types
    BY <2>1 DEF RReceives, Arrives, IsZFILE
  <2>3. ~RTimeout
    BY <2>1 DEF RTimeout, TimesOut, IsZFILE, IsBlock
  <2>4. rpc' = "zfileInfo" \/ rres' = "failed"
    BY <1>9, <2>2, <2>3 DEF RTryReply
  <2> QED BY <1>4, <2>4 DEF Over
<1>10. CASE RInfo
  <2>1. Head(toR).k = "info" /\ rpc \in {"zfileInfo", "zsinitInfo"}
    BY <1>5, <1>10 DEF RInfo, Reads
  <2>2. rpc = "zfileInfo"
    BY <1>2, <2>1 DEF IsZFILE
  <2> QED BY <1>4, <1>10, <2>2 DEF RInfo
<1>11. CASE RInfoFails
  BY <1>3, <1>6, <1>11 DEF RInfoFails
<1>12. CASE RFinWait
  BY <1>5, <1>12 DEF RFinWait
<1>13. CASE RPrompt
  BY <1>4, <1>13 DEF RPrompt, Over
<1>14. CASE RZrpos
  BY <1>3, <1>6, <1>14 DEF RZrpos
<1>15. CASE RDataReply
  <2>1. toR # <<>> /\ IsZFILE(Head(toR))
    BY <1>2, <1>15 DEF RDataReply
  <2>2. \A types : RReceives(types) => "ZFILE" \in types
    BY <2>1 DEF RReceives, Arrives, IsZFILE
  <2>3. ~RTimeout
    BY <2>1 DEF RTimeout, TimesOut, IsZFILE, IsBlock
  <2>4. rpc' = "discard" \/ rres' = "failed"
    BY <1>15, <2>2, <2>3 DEF RDataReply
  <2> QED BY <1>4, <2>4 DEF Over
<1>16. CASE RDiscard
  BY <1>4, <1>16 DEF RDiscard
<1>17. CASE RBlock
  BY <1>2, <1>17 DEF RBlock, Reads, IsZFILE
<1>18. CASE RBlockFails
  BY <1>4, <1>18 DEF RBlockFails, RRetry, Over
<1>19. CASE RWriteFails
  BY <1>4, <1>19 DEF RWriteFails, Over
<1>20. CASE RNextFile
  BY <1>2, <1>20 DEF RNextFile
<1>21. CASE ROver
  BY <1>2, <1>21 DEF ROver
<1>22. CASE RCloses
  BY <1>2, <1>22 DEF RCloses, RClose
<1> QED
  BY <1>7, <1>8, <1>9, <1>10, <1>11, <1>12, <1>13, <1>14, <1>15, <1>16, <1>17,
     <1>18, <1>19, <1>20, <1>21, <1>22
  DEF ReceiveSide, RCalls, RCall

\* Answered in the steps of the receiving program.
LEMMA AnsweredByReceiver ==
  ASSUME IInv, Calm, Answered, Receiver PROVE Answered'
<1>1. /\ TypeOK /\ Counted /\ ReceiveSide /\ ~Deadlines
      /\ spc' = spc /\ sphase' = sphase
      /\ Formed /\ Reading /\ Simple /\ Early /\ Owed /\ OwedFile /\ EndsLast
  BY DEF IInv, Calm, Answered, Receiver, svars, sendvars
<1>2. /\ rpc' \notin {"commandInfo", "finWait"}
      /\ rpc' = "zfileInfo" => toR # <<>> /\ IsZFILE(Head(toR)) /\ toR' = Tail(toR)
      /\ rpc' = "zsinitInfo" => toR # <<>> /\ IsZSINIT(Head(toR)) /\ toR' = Tail(toR)
      /\ rpc' = "discard" => toR # <<>> /\ IsZFILE(Head(toR)) /\ toR' = Tail(toR)
      /\ rpc' = "block" => toR # <<>> /\ IsZDATA(Head(toR)) /\ toR' = Tail(toR)
      /\ rpc' \in {"zfileWait", "dataWait"} =>
           \/ rpc' = rpc /\ toS' = toS /\ (Heads(toR) => Heads(toR'))
           \/ \E e : toS' = toS \o <<e>>
           \/ Closed(toR) /\ toR' = toR
      /\ rpc # "end"
  BY <1>1, ReceiveSideTurns
<1>3. toR \in Seq(Frame) /\ toS \in Seq(Frame) /\ toR' \in Seq(Frame) /\ toS' \in Seq(Frame)
  BY <1>1, ReceiveSideLine DEF TypeOK, LineTypeOK
<1>4. ~Closed(toS)
  BY <1>1, <1>2 DEF EndsLast
<1>5. Moves => Moves'
  BY <1>1, <1>4 DEF Moves, Waits, Awaits
<1>6. PICK d \in {0, 1} :
        /\ Len(toR') = Len(toR) - d /\ Len(toR) \in Nat
        /\ d = 1 => toR # <<>> /\ toR' = Tail(toR)
        /\ \A i \in 1 .. Len(toR') :
             /\ i + d \in 1 .. Len(toR)
             /\ \/ toR'[i] = toR[i + d]
                \/ i = 1 /\ d = 0 /\ toR'[i].k \in {"part", "zeros"}
  <2>1. Consumed(toR, toR')
    <3>1. CASE RCalls \/ RCloses
      BY <1>1, <3>1, ReceiverConsumes DEF RCalls, RCloses, RNext, TypeOK
    <3>2. CASE RNextFile \/ ROver
      BY <3>2 DEF RNextFile, ROver, Consumed
    <3> QED BY <1>1, <3>1, <3>2 DEF ReceiveSide
  <2> QED BY <1>3, <2>1, ConsumedRest
<1>7. toR # <<>> => Head(toR) = toR[1] /\ 1 \in 1 .. Len(toR)
  BY <1>3
<1>8. Formed'
  <2>1. ASSUME NEW i \in 1 .. Len(toR')
        PROVE  /\ toR'[i].k = "hdr" => toR'[i].t # "ZCOMMAND"
               /\ toR'[i].k = "eof" => spc' = "end"
               /\ IsZFILE(toR'[i]) => i < Len(toR') /\ toR'[i + 1].k = "info"
               /\ IsZSINIT(toR'[i]) => i < Len(toR')
               /\ IsZDATA(toR'[i]) /\ i = Len(toR') => Moves'
    <3>1. CASE toR'[i].k \in {"part", "zeros"}
      BY <3>1 DEF IsZFILE, IsZSINIT, IsZDATA
    <3>2. CASE toR'[i] = toR[i + d]
      <4> DEFINE j == i + d
      <4>1. /\ j \in 1 .. Len(toR) /\ (j < Len(toR) => i < Len(toR'))
            /\ i = Len(toR') => j = Len(toR)
            /\ j + 1 = (i + 1) + d /\ i + 1 # 1
        BY <1>6
      <4>2. j < Len(toR) => toR'[i + 1] = toR[j + 1]
        <5>1. j < Len(toR) => i + 1 \in 1 .. Len(toR')
          BY <1>6, <4>1
        <5> QED BY <1>6, <4>1, <5>1
      <4>3. toR'[i] = toR[j]
        BY <3>2
      <4> HIDE DEF j
      <4>4. /\ toR[j].k = "hdr" => toR[j].t # "ZCOMMAND"
            /\ toR[j].k = "eof" => spc = "end"
            /\ IsZFILE(toR[j]) => j < Len(toR) /\ toR[j + 1].k = "info"
            /\ IsZSINIT(toR[j]) => j < Len(toR)
            /\ IsZDATA(toR[j]) /\ j = Len(toR) => Moves
        BY <1>1, <4>1 DEF Formed
      <4> QED BY <1>1, <1>5, <4>1, <4>2, <4>3, <4>4
    <3> QED BY <1>6, <3>1, <3>2
  <2> QED BY <2>1 DEF Formed
<1>9. Reading'
  <2>1. ASSUME toR # <<>>, toR' = Tail(toR)
        PROVE  /\ Len(toR) > 1 => toR' # <<>> /\ Head(toR') = toR[2]
               /\ toR' = <<>> => Len(toR) = 1
    <3>1. Len(toR') = Len(toR) - 1 /\ Len(toR) \in Nat
      BY <1>3, <2>1
    <3>2. Len(toR) > 1 => toR' # <<>> /\ Head(toR') = toR'[1] /\ 1 \in 1 .. Len(toR')
      BY <1>3, <3>1
    <3>3. Len(toR) > 1 => toR'[1] = toR[2]
      BY <1>3, <2>1, <3>2
    <3> QED BY <1>3, <2>1, <3>1, <3>2, <3>3
  <2>2. rpc' = "zfileInfo" => toR' # <<>> /\ Head(toR').k = "info"
    <3> SUFFICES ASSUME rpc' = "zfileInfo" PROVE toR' # <<>> /\ Head(toR').k = "info"
      OBVIOUS
    <3>1. toR # <<>> /\ IsZFILE(toR[1]) /\ toR' = Tail(toR) /\ 1 \in 1 .. Len(toR)
      BY <1>2, <1>7
    <3>2. 1 < Len(toR) /\ toR[1 + 1].k = "info"
      BY <1>1, <3>1 DEF Formed
    <3> QED BY <1>6, <2>1, <3>1, <3>2
  <2>3. rpc' \in {"zsinitInfo", "discard"} => toR' # <<>>
    <3> SUFFICES ASSUME rpc' \in {"zsinitInfo", "discard"} PROVE toR' # <<>>
      OBVIOUS
    <3>1. /\ toR # <<>> /\ (IsZSINIT(toR[1]) \/ IsZFILE(toR[1]))
          /\ toR' = Tail(toR) /\ 1 \in 1 .. Len(toR)
      BY <1>2, <1>7
    <3>2. 1 < Len(toR)
      BY <1>1, <3>1 DEF Formed
    <3> QED BY <1>6, <2>1, <3>1, <3>2
  <2>4. rpc' = "block" /\ toR' = <<>> => Moves'
    <3> SUFFICES ASSUME rpc' = "block", toR' = <<>> PROVE Moves'
      OBVIOUS
    <3>1. toR # <<>> /\ IsZDATA(toR[1]) /\ toR' = Tail(toR) /\ 1 \in 1 .. Len(toR)
      BY <1>2, <1>7
    <3>2. 1 = Len(toR)
      BY <2>1, <3>1
    <3> QED BY <1>1, <1>5, <3>1, <3>2 DEF Formed
  <2> QED BY <1>2, <2>2, <2>3, <2>4 DEF Reading
<1>10. \/ toS' = toS
       \/ \E e \in Frame :
            /\ toS' = toS \o <<e>> /\ IsReply(e)
            /\ e.k = "nul" => rpc \in Taking
            /\ e.k = "eof" => rpc' = "end"
  BY <1>1, ReceiveSideReplies
<1>11. \A i \in 1 .. Len(toS) : i \in 1 .. Len(toS') /\ toS'[i] = toS[i]
  <2>1. CASE toS' = toS
    BY <2>1
  <2>2. ASSUME NEW e \in Frame, toS' = toS \o <<e>>
        PROVE  \A i \in 1 .. Len(toS) : i \in 1 .. Len(toS') /\ toS'[i] = toS[i]
    <3>1. Len(toS') = Len(toS) + 1 /\ (\A i \in 1 .. Len(toS) : toS'[i] = toS[i])
      BY ONLY <1>3, <2>2, AppendedEnds
    <3>2. Len(toS) \in Nat
      BY <1>3
    <3> QED BY <3>1, <3>2
  <2> QED BY <1>10, <2>1, <2>2
<1>12. /\ Simple' /\ EndsLast'
       /\ \A i \in 1 .. Len(toS') : toS'[i].k = "nul" =>
            \/ \E j \in 1 .. Len(toS) : toS[j].k = "nul"
            \/ rpc \in Taking
  <2>1. CASE toS' = toS
    <3>1. Simple' /\ EndsLast'
      BY <1>1, <1>4, <2>1 DEF Simple, EndsLast, Closed
    <3> QED BY <2>1, <3>1
  <2>2. ASSUME NEW e \in Frame, toS' = toS \o <<e>>, IsReply(e),
               e.k = "nul" => rpc \in Taking, e.k = "eof" => rpc' = "end"
        PROVE  /\ Simple' /\ EndsLast'
               /\ \A i \in 1 .. Len(toS') : toS'[i].k = "nul" =>
                    \/ \E j \in 1 .. Len(toS) : toS[j].k = "nul"
                    \/ rpc \in Taking
    <3>1. Len(toS') = Len(toS) + 1 /\ toS'[Len(toS) + 1] = e
          /\ (\A i \in 1 .. Len(toS) : toS'[i] = toS[i])
      BY ONLY <1>3, <2>2, AppendedEnds
    <3>6. Closed(toS') <=> e.k = "eof"
      BY ONLY <1>3, <2>2, AppendedEnds
    <3>2. \A i \in 1 .. Len(toS') : i \in 1 .. Len(toS) \/ i = Len(toS) + 1
      <4>1. Len(toS) \in Nat
        BY <1>3
      <4> QED BY <3>1, <4>1
    <3>3. \A i \in 1 .. Len(toS') :
            (i \in 1 .. Len(toS) /\ toS'[i] = toS[i]) \/ toS'[i] = e
      BY <3>1, <3>2
    <3>4. Simple'
      BY <1>1, <2>2, <3>3 DEF Simple, IsReply
    <3>5. EndsLast'
      BY <2>2, <3>6 DEF EndsLast, Closed
    <3> QED BY <2>2, <3>3, <3>4, <3>5
  <2> QED BY <1>10, <2>1, <2>2
\* A ZFILE header is still in the stream, or it was the first and was read.
<1>13. ~NoZFILE /\ NoZFILE' => toR # <<>> /\ IsZFILE(Head(toR)) /\ toR' # toR
  <2> SUFFICES ASSUME ~NoZFILE, NoZFILE'
               PROVE  toR # <<>> /\ IsZFILE(Head(toR)) /\ toR' # toR
    OBVIOUS
  <2>1. PICK i \in 1 .. Len(toR) : IsZFILE(toR[i])
    BY DEF NoZFILE
  <2>2. toR' # toR
    BY <2>1 DEF NoZFILE
  <2>3. CASE i # 1
    <3>1. i - d \in 1 .. Len(toR') /\ (i - d) + d = i
      BY <1>6, <2>1, <2>3
    <3>2. toR'[i - d] = toR[i] \/ (i - d = 1 /\ d = 0)
      BY <1>6, <3>1
    <3>3. toR'[i - d] = toR[i]
      BY <2>3, <3>2
    <3> QED BY <2>1, <3>1, <3>3 DEF NoZFILE
  <2>4. CASE i = 1
    BY <1>3, <1>7, <2>1, <2>2, <2>4
  <2> QED BY <2>3, <2>4
<1>14. NoZFILE => NoZFILE'
  <2>1. ASSUME NoZFILE, NEW i \in 1 .. Len(toR'), IsZFILE(toR'[i]) PROVE FALSE
    <3>1. i + d \in 1 .. Len(toR) /\ toR'[i] = toR[i + d]
      BY <1>6, <2>1 DEF IsZFILE
    <3> QED BY <2>1, <3>1 DEF NoZFILE
  <2> QED BY <2>1 DEF NoZFILE
<1>15. Early'
  <2> SUFFICES ASSUME spc \in SInits
               PROVE  /\ rpc' \notin Taking /\ NoZFILE'
                      /\ \A i \in 1 .. Len(toS') : toS'[i].k # "nul"
    BY <1>1 DEF Early
  <2>1. /\ rpc \notin Taking /\ NoZFILE
        /\ \A i \in 1 .. Len(toS) : toS[i].k # "nul"
    BY <1>1 DEF Early
  <2>2. rpc' \notin Taking
    <3>1. rpc' \in Taking => toR # <<>> /\ IsZFILE(Head(toR))
      BY <1>1, <2>1, ReceiveSideGoes
    <3> QED BY <1>7, <2>1, <3>1 DEF NoZFILE
  <2> QED BY <1>12, <1>14, <2>1, <2>2
<1>16. Closed(toR) => Heads(toR) /\ spc = "end"
  <2>1. Closed(toR) => Len(toR) \in 1 .. Len(toR) /\ toR[Len(toR)].k = "eof"
    BY <1>3 DEF Closed
  <2> QED BY <1>1, <2>1 DEF Formed, Heads
<1>17. Owed'
  <2> SUFFICES ASSUME Waits, rpc' \in {"zfileWait", "dataWait"}, ~Heads(toR')
               PROVE  toS' # <<>>
    BY <1>1 DEF Owed, Idle, Waits, Heads
  <2>1. CASE rpc' = rpc /\ toS' = toS /\ (Heads(toR) => Heads(toR'))
    BY <1>1, <2>1 DEF Owed, Idle
  <2>2. ASSUME NEW e, toS' = toS \o <<e>> PROVE toS' # <<>>
    BY <1>3, <2>2
  <2> QED BY <1>2, <1>16, <2>1, <2>2
<1>18. OwedFile'
  <2> SUFFICES ASSUME Awaits, NoZFILE'
               PROVE  \/ rpc' \in ZFILEHeard \/ rres' \in Over
                      \/ \E i \in 1 .. Len(toS') : IsWord(toS'[i])
    BY <1>1 DEF OwedFile, Awaits, ZFILEHeard, NoZFILE
  <2>1. CASE \E i \in 1 .. Len(toS) : IsWord(toS[i])
    BY <1>11, <2>1
  <2>2. CASE ~ \E i \in 1 .. Len(toS) : IsWord(toS[i])
    <3>1. \/ rpc \in ZFILEHeard \/ rres \in Over
          \/ toR # <<>> /\ IsZFILE(Head(toR)) /\ toR' # toR
      BY <1>1, <1>13, <2>2 DEF OwedFile, ZFILEHeard
    <3>2. Told
      BY <1>1, <3>1, ReceiverTold
    <3>3. ~Closed(toR)
      BY <1>16 DEF Awaits
    <3>4. ASSUME NEW e \in Frame, IsWord(e), toS' = toS \o <<e>>
          PROVE  \E i \in 1 .. Len(toS') : IsWord(toS'[i])
      <4>1. Len(toS') = Len(toS) + 1 /\ toS'[Len(toS) + 1] = e
        BY ONLY <1>3, <3>4, AppendedEnds
      <4>2. Len(toS) + 1 \in 1 .. Len(toS')
        <5>1. Len(toS) \in Nat
          BY <1>3
        <5> QED BY <4>1, <5>1
      <4> QED BY <3>4, <4>1, <4>2
    <3> QED BY <3>2, <3>3, <3>4 DEF Told
  <2> QED BY <2>1, <2>2
<1> QED BY <1>8, <1>9, <1>12, <1>15, <1>17, <1>18 DEF Answered

\* The sender streams, whether files are sent a second time or not.
LEMMA StaysFlowing == ASSUME Streams PROVE Spec => []Flowing
<1>1. Init => Flowing
  <2> SUFFICES ASSUME Init PROVE Flowing
    OBVIOUS
  <2>1. toR = <<>> /\ spc = "init" /\ swin = 0 /\ 1 .. Len(toR) = {}
    BY DEF Init, LineInit, SenderInit
  <2> QED BY <2>1 DEF Flowing, Streaming, AsksNothing, InData
<1>2. IInv /\ Flowing /\ [Next]_vars => Flowing'
  <2> SUFFICES ASSUME IInv, Flowing, [Next]_vars PROVE Flowing'
    OBVIOUS
  <2>1. ASSUME UNCHANGED <<swin, spc, spos, fpos, sjunk, slast>>,
               toR' \in Seq(Frame), NEW d \in {0, 1}, Thinned(toR, toR', d)
        PROVE  Flowing'
    <3>1. \A i \in 1 .. Len(toR') : toR'[i].k = "data" =>
            i + d \in 1 .. Len(toR) /\ toR'[i] = toR[i + d]
      <4>1. toR \in Seq(Frame) /\ Len(toR) \in Nat /\ Len(toR') \in Nat
            /\ Len(toR') = Len(toR) - d
        BY <2>1 DEF IInv, TypeOK, LineTypeOK, Thinned
      <4>2. \A i \in 1 .. Len(toR') : i + d \in 1 .. Len(toR)
        BY <4>1
      <4> QED BY <2>1, <4>2 DEF Thinned
    <3>2. AsksNothing(toR')
      BY <3>1 DEF Flowing, AsksNothing
    <3> QED BY <2>1, <3>2 DEF Flowing, Streaming, AsksNothing
  <2>2. CASE Sender
    BY <2>2, SendSideFlows DEF IInv, Sender
  <2>3. CASE Receiver
    <3>1. ReceiveSide /\ UNCHANGED <<swin, spc, spos, fpos, sjunk, slast>>
      BY <2>3 DEF Receiver, svars, negotiated, progress
    <3> QED BY <2>1, <3>1, ReceiveSideLine DEF IInv
  <2>4. CASE Line
    <3>1. toR \in Seq(Frame) /\ Spoilt(toR, toR')
      BY <2>4, GarbleSpoils DEF Line, IInv, TypeOK, LineTypeOK
    <3>2. toR' \in Seq(Frame) /\ Thinned(toR, toR', 0)
      BY <3>1, SpoiltType, DamageThins
    <3>3. UNCHANGED <<swin, spc, spos, fpos, sjunk, slast>>
      BY <2>4 DEF Line, svars, negotiated, progress
    <3> QED BY <2>1, <3>2, <3>3
  <2>5. CASE HangUp
    <3>1. /\ UNCHANGED <<swin, spc, spos, fpos, sjunk, slast>>
          /\ toR' = <<Eof>>
      BY <2>5 DEF HangUp, svars, negotiated, progress
    <3>2. \A i \in 1 .. Len(toR') : toR'[i].k # "data"
      BY <3>1 DEF Eof
    <3>3. AsksNothing(toR')
      BY <3>2 DEF AsksNothing
    <3> QED BY <3>1, <3>3 DEF Flowing, Streaming, AsksNothing
  <2>6. CASE UNCHANGED vars
    <3>1. UNCHANGED <<toR, swin, spc, spos, fpos, sjunk, slast>>
      BY <2>6 DEF vars, line, svars, negotiated, progress
    <3> QED BY <3>1 DEF Flowing, Streaming, AsksNothing
  <2> QED BY <2>2, <2>3, <2>4, <2>5, <2>6 DEF Next, Done
<1> QED BY <1>1, <1>2, StaysCounted, PTL DEF Spec

\* On an undamaged line every promise is kept.
LEMMA StaysAnswered == ASSUME Streams PROVE Spec => [](Calm => Answered)
<1> DEFINE Kept == Calm => Answered
<1>1. Init => Kept
  <2> SUFFICES ASSUME Init PROVE Answered
    OBVIOUS
  <2>1. /\ toR = <<>> /\ toS = <<>> /\ spc = "init" /\ rpc = "try"
        /\ 1 .. Len(toR) = {} /\ 1 .. Len(toS) = {} /\ ~Closed(toS)
    BY DEF Init, LineInit, SenderInit, ReceiverInit, Closed
  <2>2. Formed /\ Reading /\ Simple
    BY <2>1 DEF Formed, Reading, Simple
  <2>3. Early /\ Owed /\ OwedFile /\ EndsLast
    BY <2>1 DEF Early, Taking, Inside, NoZFILE, Owed, Idle, OwedFile, Awaits, EndsLast
  <2> QED BY <2>2, <2>3 DEF Answered
<1>2. IInv /\ Flowing /\ Kept /\ [Next]_vars => Kept'
  <2> SUFFICES ASSUME IInv, Flowing, Kept, [Next]_vars, Calm' PROVE Answered'
    OBVIOUS
  <2>1. /\ Calm /\ Answered
        /\ Sender \/ Receiver \/ UNCHANGED vars
    <3>1. faults \in Nat /\ ~Deadlines
      BY LineAssumption DEF IInv, TypeOK, LineTypeOK, Calm
    <3>2. ~Line
      BY <3>1 DEF Calm, Line, Garble
    <3>3. faults' = faults
      BY <3>2 DEF Next, Sender, Receiver, HangUp, Done, vars, line
    <3>4. Calm /\ Answered
      BY <3>3 DEF Calm
    <3>5. ~HangUp
      BY <3>4, AnsweredIsNoStall DEF HangUp
    <3> QED BY <3>2, <3>4, <3>5 DEF Next, Done
  <2>2. CASE UNCHANGED vars
    <3>1. /\ toR' = toR /\ toS' = toS /\ spc' = spc /\ rpc' = rpc /\ rres' = rres
          /\ sphase' = sphase
      BY <2>2 DEF vars, line, svars, rvars, sessvars, sendvars
    <3>2. (Moves' <=> Moves) /\ (Waits' <=> Waits) /\ (Awaits' <=> Awaits)
      BY <3>1 DEF Moves, Waits, Awaits
    <3>3. Formed' /\ Reading' /\ Simple'
      BY <2>1, <3>1, <3>2 DEF Answered, Formed, Reading, Simple
    <3>4. Early' /\ Owed' /\ OwedFile' /\ EndsLast'
      BY <2>1, <3>1, <3>2
      DEF Answered, Early, NoZFILE, Owed, Idle, Heads, OwedFile, EndsLast
    <3> QED BY <3>3, <3>4 DEF Answered
  <2> QED BY <2>1, <2>2, AnsweredBySender, AnsweredByReceiver
<1> QED BY <1>1, <1>2, StaysCounted, StaysFlowing, PTL DEF Spec

\* Through any number of files, of either loop, declined, failed or sent again:
\* as long as nothing is damaged the sender that streams and the receiver never
\* come to wait for each other (sender.go:232-314 to 898-930,
\* receiver.go:103-543).
THEOREM StreamsNeverStall == ASSUME Streams PROVE Spec => []NeverStalls
<1>1. IInv /\ Flowing /\ (Calm => Answered) => NeverStalls
  <2>1. Stalled => ~Deadlines
    BY DEF Stalled
  <2> QED BY <2>1, AnsweredIsNoStall DEF NeverStalls, Calm
<1> QED BY <1>1, StaysCounted, StaysFlowing, StaysAnswered, PTL
=============================================================================
