---------------------------- MODULE ZSession_proofs ----------------------------
(***************************************************************************)
(* Sessions of several files: every frame on its way to the receiver is    *)
(* accounted to the file it was sent for, and the account agrees with what *)
(* the receiver takes it for.                                              *)
(***************************************************************************)
EXTENDS ZSession, ZEnds_proofs

\* The receiver has heard a ZFILE header; it is inside the file once it read
\* its subpacket.
Inside == {"prompt", "zrpos", "dataWait", "discard", "block"}
Taking == Inside \cup {"zfileInfo"}

\* Calls of the receiver after which ReceiveFiles returns (session.go:365).
Over == {"skipped", "denied", "failed"}

IsZFILE(e) == e.k = "hdr" /\ e.t = "ZFILE"
IsZEOF(e) == e.k = "hdr" /\ e.t = "ZEOF"

-----------------------------------------------------------------------------
\* What the two ends do.

\* A call of the sender appends frames or none, a ZFILE header only where
\* SendFile starts and a ZEOF header only at the end of the data.
InItsPlace(es) ==
  \A i \in 1 .. Len(es) :
    /\ IsZFILE(es[i]) => spc = "zfile" /\ spc' = "zfileWait"
    /\ IsZEOF(es[i]) => spc = "eof"

Appends ==
  \/ toR' = toR
  \/ \E es \in Seq(Frame) : es # <<>> /\ toR' = toR \o es /\ InItsPlace(es)

LEMMA SenderAppends ==
  ASSUME LineTypeOK, SenderTypeOK, SNext
  PROVE  Appends
<1> USE DEF SGo, SReturn
<1>1. ASSUME NEW es \in Seq(Frame), es # <<>>, InItsPlace(es), SWrites(es)
      PROVE  Appends
  BY <1>1 DEF SWrites, Written, Appends
<1>2. ASSUME NEW t \in FrameTypes \ {"ZFILE", "ZEOF"}, NEW p \in Nat,
             SWrites(<<Hdr(t, p)>>)
      PROVE  Appends
  <2>1. <<Hdr(t, p)>> \in Seq(Frame)
    BY FramesAreTyped, ShortSeqs
  <2>2. InItsPlace(<<Hdr(t, p)>>)
    BY DEF InItsPlace, IsZFILE, IsZEOF, Hdr
  <2> QED BY <1>1, <1>2, <2>1, <2>2
<1>3. SQuiet => Appends
  BY DEF SQuiet, Appends
<1>4. ASSUME NEW types, SReceives(types) PROVE rxpos \in Nat
  BY <1>4, ReceivedPosition DEF SReceives, rxpos, LineTypeOK
<1>5. CASE \/ SSkipGarbage \/ SInitZRINIT \/ SInitNoHeader \/ SZsinitReply
           \/ SFileReply \/ SDiscard \/ SCancelled \/ SAckW \/ SAckQ
           \/ SWinWait \/ SEofReply \/ SWriteFails
  BY <1>3, <1>5 DEF SSkipGarbage, SInitZRINIT, SInitNoHeader, SZsinitReply,
     SFileReply, SDiscard, SCancelled, SAckW, SAckQ, SWinWait, SEofReply, SWriteFails
<1>6. CASE SInitTop
  BY <1>2, <1>3, <1>6 DEF SInitTop, FrameTypes
<1>7. CASE SInitOther
  BY <1>2, <1>3, <1>4, <1>7 DEF SInitOther, FrameTypes
<1>8. CASE SZsinitTop
  <2> DEFINE es == <<Hdr("ZSINIT", 0), IF EscapesCtrl THEN Part(0, 0) ELSE Info>>
  <2>1. es \in Seq(Frame) /\ es # <<>>
    BY FramesAreTyped, ShortSeqs DEF FrameTypes
  <2>2. InItsPlace(es)
    BY DEF InItsPlace, IsZFILE, IsZEOF, Hdr, Part, Info
  <2> QED BY <1>1, <1>8, <2>1, <2>2 DEF SZsinitTop
<1>9. CASE SFileTop
  <2> DEFINE es == <<Hdr("ZFILE", 0), Info>>
  <2>1. es \in Seq(Frame) /\ es # <<>>
    BY FramesAreTyped, ShortSeqs DEF FrameTypes
  <2>2. InItsPlace(es)
    BY <1>9 DEF SFileTop, InItsPlace, IsZFILE, IsZEOF, Hdr, Info
  <2> QED BY <1>1, <1>9, <2>1, <2>2 DEF SFileTop
<1>10. CASE SFileCRC
  BY <1>2, <1>10 DEF SFileCRC, FrameTypes
<1>11. CASE SFileZRPOS \/ SAckWSeek \/ SEofZRPOS
  BY <1>2, <1>4, <1>11
  DEF SFileZRPOS, SAckWSeek, SEofZRPOS, StartData, FrameTypes
<1>12. CASE SBlock
  <2> DEFINE n == ReadLen  end == FrameEnd(ReadLen)
  <2>1. n \in Nat /\ fpos \in Nat /\ end \in FrameEnds
    BY ReadLenType DEF FrameEnd, FrameEnds, SenderTypeOK
  <2>2. <<Data(fpos, n, end)>> \in Seq(Frame) /\ <<Data(fpos, n, end)>> # <<>>
    BY <2>1, FramesAreTyped, ShortSeqs
  <2>3. InItsPlace(<<Data(fpos, n, end)>>)
    BY DEF InItsPlace, IsZFILE, IsZEOF, Data
  <2>4. SWrites(<<Data(fpos, n, end)>>)
    BY <1>12 DEF SBlock
  <2> QED BY <1>1, <2>2, <2>3, <2>4
<1>13. CASE SEofTop
  <2>1. <<Hdr("ZEOF", spos)>> \in Seq(Frame) /\ <<Hdr("ZEOF", spos)>> # <<>>
    BY FramesAreTyped, ShortSeqs DEF FrameTypes, SenderTypeOK
  <2>2. InItsPlace(<<Hdr("ZEOF", spos)>>)
    BY <1>13 DEF SEofTop, InItsPlace, IsZFILE, IsZEOF, Hdr
  <2> QED BY <1>1, <1>13, <2>1, <2>2 DEF SEofTop
<1>14. CASE SClose
  <2>1. <<Eof>> \in Seq(Frame) /\ <<Eof>> # <<>> /\ toR' = toR \o <<Eof>>
    BY <1>14, FramesAreTyped, ShortSeqs DEF SClose, LineTypeOK
  <2>2. InItsPlace(<<Eof>>)
    BY DEF InItsPlace, IsZFILE, IsZEOF, Eof
  <2> QED BY <2>1, <2>2 DEF Appends
<1> QED
  BY <1>5, <1>6, <1>7, <1>8, <1>9, <1>10, <1>11, <1>12, <1>13, <1>14
  DEF SNext, SCall

\* So does the program around it, which reads answers or leaves them.
LEMMA SendSideLine ==
  ASSUME TypeOK, SendSide
  PROVE  /\ Appends
         /\ toS' \in Seq(Frame) /\ \E d \in {0, 1} : Thinned(toS, toS', d)
         /\ SenderTypeOK'
<1>1. toR \in Seq(Frame) /\ toS \in Seq(Frame) /\ LineTypeOK /\ SenderTypeOK
  BY DEF TypeOK, LineTypeOK
<1>2. ASSUME Consumed(toS, toS')
      PROVE  toS' \in Seq(Frame) /\ \E d \in {0, 1} : Thinned(toS, toS', d)
  BY <1>1, <1>2, ConsumedType, ReadingThins
<1>3. toR' = toR => Appends
  BY DEF Appends
<1>4. CASE SCalls \/ SCloses
  <2>1. SNext
    BY <1>4 DEF SCalls, SCloses, SNext
  <2> QED BY <1>1, <1>2, <2>1, SenderAppends, SenderConsumes, SenderVarsType
<1>5. CASE TInit
  <2>1. Consumed(toS, toS')
    <3>1. \A types : SReceives(types) => Consumed(toS, toS')
      BY <1>1, ReadsConsume DEF SReceives
    <3>2. STimeout \/ SError => Consumed(toS, toS')
      BY <1>1, ReadsConsume DEF STimeout, SError, SenderTypeOK
    <3>3. toS # <<>> /\ Head(toS).k \in {"nul", "zeros", "part"} /\ toS' = Tail(toS)
            => Consumed(toS, toS')
      BY DEF Consumed
    <3> QED BY <1>5, <3>1, <3>2, <3>3 DEF TInit
  <2>2. SenderTypeOK'
    <3>1. \A types : SReceives(types) => rxpos \in Nat /\ sgarb' \in Nat
      BY <1>1, ReceivedPosition DEF SReceives, rxpos
    <3>2. \A p \in Nat : Buflen(p) \in Nat \ {0}
      BY SenderConstants DEF Buflen
    <3>3. /\ sgarb' \in Nat
          /\ spc' \in {"zfile", "zsinit", "ret", spc}
          /\ sres' \in {"failed", sres}
          /\ UNCHANGED <<stry, szrq, progress>>
      BY <1>1, <1>5, <3>1
      DEF TInit, STimeout, SError, SGo, SReturn, SenderTypeOK
    <3>4. sblk' \in Nat \ {0}
      <4>1. CASE SReceives({"ZRINIT"})
                 /\ sblk' = (IF sblk > Buflen(rxpos) THEN Buflen(rxpos) ELSE sblk)
        BY <1>1, <4>1, <3>1, <3>2 DEF SenderTypeOK
      <4>2. CASE UNCHANGED sblk
        BY <1>1, <4>2 DEF SenderTypeOK
      <4> QED BY <1>5, <4>1, <4>2 DEF TInit
    <3>5. swin' \in Nat
      BY <1>1, <1>5, SenderConstants DEF TInit, SenderTypeOK
    <3> QED BY <1>1, <3>3, <3>4, <3>5 DEF SenderTypeOK, SPcs, Results, progress
  <2> QED BY <1>2, <1>3, <1>5, <2>1, <2>2 DEF TInit, SQuiet
<1>6. CASE SNextFile \/ SFileDone \/ SRetryFile \/ SAborts \/ SAllSent
  <2>1. UNCHANGED <<toR, toS, sgarb, negotiated>>
    BY <1>6 DEF SNextFile, SFileDone, SRetryFile, SAborts, SAllSent, SLoops
  <2>2. Consumed(toS, toS')
    BY <2>1 DEF Consumed
  <2>3. SenderTypeOK'
    BY <1>1, <1>6, <2>1
    DEF SNextFile, SFileDone, SRetryFile, SAborts, SAllSent, SReturn,
        SenderTypeOK, SPcs, Results, negotiated, progress
  <2> QED BY <1>2, <1>3, <2>1, <2>2, <2>3
<1>7. CASE TFin
  <2>1. Consumed(toS, toS')
    BY <1>7 DEF TFin, Consumed
  <2>2. <<Hdr("ZFIN", 0)>> \in Seq(Frame) /\ <<Hdr("ZFIN", 0)>> # <<>>
    BY FramesAreTyped, ShortSeqs DEF FrameTypes
  <2>3. InItsPlace(<<Hdr("ZFIN", 0)>>)
    BY DEF InItsPlace, IsZFILE, IsZEOF, Hdr
  <2>4. Appends
    BY <1>7, <2>2, <2>3 DEF TFin, SWrites, Written, Appends
  <2>5. SenderTypeOK'
    BY <1>1, <1>7 DEF TFin, SenderTypeOK, SPcs, negotiated, progress
  <2> QED BY <1>2, <2>1, <2>4, <2>5
<1>8. CASE TFinReply
  <2>1. Consumed(toS, toS') /\ sgarb' \in Nat
    <3>1. CASE Skips(toS, sgarb, toS', sgarb')
      <4>1. Consumed(toS, toS')
        BY <1>1, <3>1, ReadsConsume
      <4>2. Head(toS) \in Frame /\ IsBlock(Head(toS)) /\ sgarb' = sgarb + Head(toS).n
        BY <1>1, <3>1 DEF Skips
      <4> QED BY <1>1, <4>1, <4>2, BlockRange DEF SenderTypeOK
    <3>2. CASE SReceives(FrameTypes \ {"ZFIN"}) \/ STimeout \/ SError
      BY <1>1, <3>2, ReadsConsume DEF SReceives, STimeout, SError, SenderTypeOK
    <3> QED BY <1>8, <3>1, <3>2 DEF TFinReply
  <2>2. SenderTypeOK'
    BY <1>1, <1>8, <2>1 DEF TFinReply, SenderTypeOK, negotiated, progress
  <2> QED BY <1>2, <1>3, <1>8, <2>1, <2>2 DEF TFinReply, SQuiet
<1> QED BY <1>4, <1>5, <1>6, <1>7, <1>8 DEF SendSide

\* Where a call of the receiver takes it: a ZFILE header it hears and the
\* subpacket after it are the only way into a file, and the only way out that
\* is not an error is the ZEOF header at the head of the stream.
LEMMA ReceiverGoes ==
  ASSUME RCall
  PROVE  /\ rpc \notin {"ret", "end"} /\ rpc' # "end"
         /\ rpc' # "ret" => UNCHANGED rres
         /\ rpc' \in Taking /\ rpc \notin Taking =>
              /\ rpc' = "zfileInfo" /\ UNCHANGED rres
              /\ toR # <<>> /\ IsZFILE(Head(toR)) /\ toR' = Tail(toR)
         /\ rpc' \in Inside /\ rpc \notin Inside =>
              rpc = "zfileInfo" /\ rpc' = "prompt" /\ toR # <<>>
         /\ rpc = "zfileInfo" => rpc' # "zfileInfo"
         /\ rpc = "prompt" => rpc' # "prompt"
         /\ rpc \in Inside => rpc' \in Inside \cup {"ret"}
         /\ rpc \in Inside /\ rpc' = "ret" => \/ rres' \in Over
                 \/ /\ rres' = "ok" /\ toR # <<>> /\ IsZEOF(Head(toR))
                    /\ toR' = Tail(toR)
         /\ rres' = "ok" => rres = "ok" \/ rpc \in Inside
<1> USE DEF RGo, RReturn, RAgain, RPass, Taking, Inside, Over
<1>1. CASE RSkipGarbage
  BY <1>1 DEF RSkipGarbage, RWaits
<1>2. CASE RTry \/ RWriteFails
  BY <1>2 DEF RTry, RWriteFails, RWriting
<1>3. CASE RTryReply
  <2>1. ASSUME RReceives({"ZFILE"})
        PROVE  toR # <<>> /\ IsZFILE(Head(toR)) /\ toR' = Tail(toR)
    BY <2>1 DEF RReceives, Arrives, IsZFILE
  <2> QED BY <1>3, <2>1 DEF RTryReply
<1>4. CASE RInfo
  BY <1>4 DEF RInfo, Reads
<1>5. CASE RInfoFails
  BY <1>5 DEF RInfoFails
<1>6. CASE RFinWait
  BY <1>6 DEF RFinWait
<1>7. CASE RPrompt
  BY <1>7 DEF RPrompt
<1>8. CASE RZrpos \/ RDiscard
  BY <1>8 DEF RZrpos, RDiscard
<1>9. CASE RDataReply
  <2>1. ASSUME RReceives({"ZEOF"})
        PROVE  toR # <<>> /\ IsZEOF(Head(toR)) /\ toR' = Tail(toR)
    BY <2>1 DEF RReceives, Arrives, IsZEOF
  <2> QED BY <1>9, <2>1 DEF RDataReply, RRetry
<1>10. CASE RBlock
  BY <1>10 DEF RBlock
<1>11. CASE RBlockFails
  BY <1>11 DEF RBlockFails, RRetry
<1> QED BY <1>1, <1>2, <1>3, <1>4, <1>5, <1>6, <1>7, <1>8, <1>9, <1>10, <1>11
        DEF RCall

\* What ReceiveFiles does around it leaves the streams alone.
LEMMA ReceiveSideLine ==
  ASSUME TypeOK, ReceiveSide
  PROVE  /\ toR' \in Seq(Frame) /\ \E d \in {0, 1} : Thinned(toR, toR', d)
         /\ toS' \in Seq(Frame)
         /\ ReceiverTypeOK'
<1>1. toR \in Seq(Frame) /\ toS \in Seq(Frame) /\ LineTypeOK /\ ReceiverTypeOK
  BY DEF TypeOK, LineTypeOK
<1>2. ASSUME Consumed(toR, toR')
      PROVE  toR' \in Seq(Frame) /\ \E d \in {0, 1} : Thinned(toR, toR', d)
  BY <1>1, <1>2, ConsumedType, ReadingThins
<1>3. CASE RCalls \/ RCloses
  <2>1. RNext
    BY <1>3 DEF RCalls, RCloses, RNext
  <2>2. Consumed(toR, toR') /\ toS' \in Seq(Frame) /\ ReceiverTypeOK'
    BY <1>1, <2>1, ReceiverConsumes, ReceiverLineType, ReceiverVarsType
  <2> QED BY <1>2, <2>2
<1>4. CASE RNextFile \/ ROver
  <2>1. UNCHANGED <<toR, toS>>
    BY <1>4 DEF RNextFile, ROver
  <2>2. Consumed(toR, toR')
    BY <2>1 DEF Consumed
  <2>3. ReceiverTypeOK'
    <3>1. CASE RNextFile
      <4>1. disk' = <<>> /\ <<>> \in Seq(Nat)
        BY <3>1 DEF RNextFile
      <4>2. /\ rpc' = "try" /\ rres' = "none" /\ rtry' = 0 /\ rerr' = 0 /\ rpos' = 0
            /\ UNCHANGED <<rzrq, rgarb, rattn>>
        BY <3>1 DEF RNextFile
      <4> QED BY <1>1, <4>1, <4>2 DEF ReceiverTypeOK, RPcs, RResults
    <3>2. CASE ROver
      BY <1>1, <3>2 DEF ROver, ReceiverTypeOK, rvars
    <3> QED BY <1>4, <3>1, <3>2
  <2> QED BY <1>1, <1>2, <2>1, <2>2, <2>3
<1> QED BY <1>3, <1>4 DEF ReceiveSide

-----------------------------------------------------------------------------
\* The account of the stream to the receiver.

\* Frames that are appended are accounted to the file the sender is at.
LEMMA AppendedTags ==
  ASSUME TypeOK, Tagged, NEW es \in Seq(Frame), es # <<>>, toR' = toR \o es
  PROVE  /\ toR' \in Seq(Frame)
         /\ Len(toR) \in Nat /\ Len(es) \in Nat /\ Len(toR') = Len(toR) + Len(es)
         /\ tags' \in Seq(0 .. NumFiles) /\ Len(tags') = Len(toR')
         /\ \A i \in 1 .. Len(toR') :
              IF i <= Len(toR)
              THEN i \in 1 .. Len(toR) /\ toR'[i] = toR[i] /\ tags'[i] = tags[i]
              ELSE /\ i - Len(toR) \in 1 .. Len(es)
                   /\ toR'[i] = es[i - Len(toR)] /\ tags'[i] = sfile
<1> DEFINE m == Len(toR)  n == Len(es)  new == [i \in 1 .. n |-> sfile]
<1>1. /\ toR \in Seq(Frame) /\ tags \in Seq(0 .. NumFiles) /\ Len(tags) = m
      /\ sfile \in 0 .. NumFiles /\ m \in Nat /\ n \in Nat /\ n > 0
  BY DEF TypeOK, LineTypeOK
<1>2. /\ toR' \in Seq(Frame) /\ Len(toR') = m + n
      /\ \A i \in 1 .. m + n : toR'[i] = IF i <= m THEN toR[i] ELSE es[i - m]
  BY <1>1, ConcatProperties
<1>3. new \in Seq(0 .. NumFiles) /\ Len(new) = n /\ \A i \in 1 .. n : new[i] = sfile
  BY <1>1
<1>4. tags' = tags \o new
  <2>1. ~(Len(toR') < m) /\ Len(toR') - m = n
    BY <1>1, <1>2
  <2> QED BY <2>1 DEF Tagged
<1> HIDE DEF new
<1>5. /\ tags' \in Seq(0 .. NumFiles) /\ Len(tags') = m + n
      /\ \A i \in 1 .. m + n : tags'[i] = IF i <= m THEN tags[i] ELSE new[i - m]
  <2>1. \A a, b \in Seq(0 .. NumFiles) :
          /\ a \o b \in Seq(0 .. NumFiles) /\ Len(a \o b) = Len(a) + Len(b)
          /\ \A i \in 1 .. Len(a) + Len(b) :
               (a \o b)[i] = IF i <= Len(a) THEN a[i] ELSE b[i - Len(a)]
    BY ConcatProperties
  <2>2. tags \in Seq(0 .. NumFiles) /\ new \in Seq(0 .. NumFiles)
    BY <1>1, <1>3
  <2>3. /\ tags \o new \in Seq(0 .. NumFiles)
        /\ Len(tags \o new) = Len(tags) + Len(new)
        /\ \A i \in 1 .. Len(tags) + Len(new) :
             (tags \o new)[i] = IF i <= Len(tags) THEN tags[i] ELSE new[i - Len(tags)]
    BY ONLY <2>1, <2>2
  <2>4. Len(tags) = m /\ Len(new) = n
    BY <1>1, <1>3
  <2> QED BY ONLY <2>3, <2>4, <1>4
<1>6. \A i \in 1 .. m + n : i <= m => i \in 1 .. m
  BY <1>1
<1>7. \A i \in 1 .. m + n : ~(i <= m) => i - m \in 1 .. n
  BY <1>1
<1> QED BY <1>1, <1>2, <1>3, <1>5, <1>6, <1>7

\* The account of a frame goes with it when the stream is read.
LEMMA ThinnedTags ==
  ASSUME TypeOK, Tagged, NEW d \in {0, 1}, Thinned(toR, toR', d), toR' \in Seq(Frame)
  PROVE  /\ tags' \in Seq(0 .. NumFiles) /\ Len(tags') = Len(toR')
         /\ \A i \in 1 .. Len(toR') :
              i + d \in 1 .. Len(toR) /\ tags'[i] = tags[i + d]
<1> DEFINE m == Len(toR)  new == [i \in 1 .. Len(toR') - m |-> sfile]
<1>1. /\ toR \in Seq(Frame) /\ tags \in Seq(0 .. NumFiles) /\ Len(tags) = m
      /\ m \in Nat /\ Len(toR') \in Nat /\ Len(toR') = m - d
  BY DEF TypeOK, LineTypeOK, Thinned
<1>2. \A i \in 1 .. Len(toR') : i + d \in 1 .. m
  BY <1>1
<1>3. CASE d = 0
  <2>1. tags' = tags \o new /\ Len(toR') - m = 0
    BY <1>1, <1>3 DEF Tagged
  <2>2. new = <<>>
    BY <2>1
  <2>3. tags' = tags
    BY <1>1, <2>1, <2>2
  <2> QED BY <1>1, <1>2, <1>3, <2>3
<1>4. CASE d = 1
  <2>1. tags' = Tail(tags) /\ tags # <<>>
    BY <1>1, <1>4 DEF Tagged
  <2>2. /\ Tail(tags) \in Seq(0 .. NumFiles) /\ Len(Tail(tags)) = Len(tags) - 1
        /\ \A i \in 1 .. Len(tags) - 1 : Tail(tags)[i] = tags[i + 1]
    BY <1>1, <2>1
  <2> QED BY <1>1, <1>2, <1>4, <2>1, <2>2
<1> QED BY <1>3, <1>4

-----------------------------------------------------------------------------
\* Where a call of the sender takes it, by the part of the protocol it is in.
SInits == {"init", "initWait", "zsinit", "zsinitWait"}
SBefore == {"zfile", "zfileWait", "discard"}

LEMMA SenderGoes ==
  ASSUME SCall
  PROVE  /\ spc \in SInits \cup SBefore \cup InData
         /\ spc \in SInits => spc' \in SInits \cup {"zfile", "ret"}
         /\ spc \in SBefore => spc' \in SBefore \cup InData \cup {"ret"}
         /\ spc \in InData => spc' \in InData \cup {"ret"}
         /\ spc' # "ret" => UNCHANGED sres
         /\ sres' = "skipped" =>
              \/ sres = "skipped"
              \/ toS # <<>> /\ Head(toS).k = "hdr" /\ Head(toS).t = "ZSKIP"
<1> USE DEF SGo, SReturn, SInits, SBefore, InData
<1>1. CASE SSkipGarbage \/ SDiscard \/ SCancelled
  BY <1>1 DEF SSkipGarbage, SDiscard, SCancelled, SWaits
<1>2. CASE SWriteFails
  BY <1>2 DEF SWriteFails, SWriting
<1>3. CASE SInitTop \/ SInitZRINIT \/ SInitOther \/ SInitNoHeader
  BY <1>3 DEF SInitTop, SInitZRINIT, SInitOther, SInitNoHeader, SInitAgain
<1>4. CASE SZsinitTop \/ SZsinitReply \/ SFileTop
  BY <1>4 DEF SZsinitTop, SZsinitReply, SRetry, SFileTop
<1>5. CASE SFileReply
  BY <1>5 DEF SFileReply, SRetry, SReceives, Arrives
<1>6. CASE SFileCRC \/ SFileZRPOS \/ SEofZRPOS \/ SAckWSeek
  BY <1>6 DEF SFileCRC, SFileZRPOS, SEofZRPOS, StartData, SAckWSeek
<1>7. CASE SBlock
  BY <1>7 DEF SBlock, SWindow
<1>8. CASE SAckW
  BY <1>8 DEF SAckW, Junk, SWindow, SReceives, Arrives
<1>9. CASE SAckQ \/ SWinWait \/ SEofTop
  BY <1>9 DEF SAckQ, SWinWait, SEofTop, Junk, SWindow, SRetry
<1>10. CASE SEofReply
  BY <1>10 DEF SEofReply, SReceives, Arrives
<1> QED BY <1>1, <1>2, <1>3, <1>4, <1>5, <1>6, <1>7, <1>8, <1>9, <1>10 DEF SCall

-----------------------------------------------------------------------------
\* Types.

\* The account ascends up to the file the sender is at: the stream holds no
\* frame of a file behind one of a later file.
Ascends ==
  \A i \in 1 .. Len(tags) :
    tags[i] <= sfile /\ \A j \in 1 .. i : tags[j] <= tags[i]

\* A ZFILE header is of some file, and so is all that follows it.
Counted ==
  /\ \A i \in 1 .. Len(toR) : IsZFILE(toR[i]) => tags[i] >= 1
  /\ rpc = "zfileInfo" => sfile >= 1 /\ \A i \in 1 .. Len(toR) : tags[i] >= 1
  /\ rpc \in Inside \/ rres = "ok" => rfile >= 1
  /\ sphase \in {"file", "retry"} => sfile >= 1
  /\ sphase \in {"fin", "over"} => spc \in {"ret", "end"}
  /\ rpc \notin {"ret", "end"} => rres = "none"

IInv == TypeOK /\ Ascends /\ Counted

LEMMA AccountKept ==
  ASSUME TypeOK, Ascends, Tagged, sfile' \in Nat, sfile' >= sfile,
         Appends \/ (toR' \in Seq(Frame) /\ \E d \in {0, 1} : Thinned(toR, toR', d))
  PROVE  /\ toR' \in Seq(Frame)
         /\ tags' \in Seq(0 .. NumFiles) /\ Len(tags') = Len(toR')
         /\ Ascends'
<1>1. /\ toR \in Seq(Frame) /\ sfile \in Nat /\ Len(tags) = Len(toR)
      /\ \A i \in 1 .. Len(toR) : tags[i] \in Nat
  BY SessionAssumption DEF TypeOK, LineTypeOK, SessionAssumption
<1>2. ASSUME NEW d \in {0, 1}, Thinned(toR, toR', d), toR' \in Seq(Frame)
      PROVE  /\ tags' \in Seq(0 .. NumFiles) /\ Len(tags') = Len(toR')
             /\ Ascends'
  <2>1. /\ tags' \in Seq(0 .. NumFiles) /\ Len(tags') = Len(toR')
        /\ \A i \in 1 .. Len(toR') :
             i + d \in 1 .. Len(toR) /\ tags'[i] = tags[i + d]
    BY <1>2, ThinnedTags
  <2>2. ASSUME NEW i \in 1 .. Len(toR')
        PROVE  tags'[i] <= sfile' /\ \A j \in 1 .. i : tags'[j] <= tags'[i]
    <3>1. i + d \in 1 .. Len(tags) /\ tags'[i] = tags[i + d]
      BY <1>1, <2>1
    <3>2. tags'[i] <= sfile'
      BY <1>1, <3>1 DEF Ascends
    <3>3. ASSUME NEW j \in 1 .. i PROVE tags'[j] <= tags'[i]
      <4>1. j \in 1 .. Len(toR') /\ j + d \in 1 .. (i + d)
        BY <2>1
      <4> QED BY <2>1, <3>1, <4>1 DEF Ascends
    <3> QED BY <3>2, <3>3
  <2> QED BY <2>1, <2>2 DEF Ascends
<1>3. CASE toR' = toR
  <2>1. Thinned(toR, toR', 0)
    BY <1>1, <1>3 DEF Thinned
  <2> QED BY <1>1, <1>2, <1>3, <2>1
<1>4. ASSUME NEW es \in Seq(Frame), es # <<>>, toR' = toR \o es
      PROVE  /\ toR' \in Seq(Frame)
             /\ tags' \in Seq(0 .. NumFiles) /\ Len(tags') = Len(toR')
             /\ Ascends'
  <2>1. /\ toR' \in Seq(Frame)
        /\ Len(toR) \in Nat /\ Len(es) \in Nat /\ Len(toR') = Len(toR) + Len(es)
        /\ tags' \in Seq(0 .. NumFiles) /\ Len(tags') = Len(toR')
        /\ \A i \in 1 .. Len(toR') :
             IF i <= Len(toR) THEN i \in 1 .. Len(toR) /\ tags'[i] = tags[i]
                              ELSE tags'[i] = sfile
    BY <1>4, AppendedTags
  <2>2. ASSUME NEW i \in 1 .. Len(toR')
        PROVE  tags'[i] <= sfile' /\ \A j \in 1 .. i : tags'[j] <= tags'[i]
    <3>1. CASE i <= Len(toR)
      <4>1. i \in 1 .. Len(tags) /\ tags'[i] = tags[i]
        BY <1>1, <2>1, <3>1
      <4>2. \A j \in 1 .. i : j \in 1 .. Len(toR') /\ j <= Len(toR)
        BY <2>1, <3>1
      <4> QED BY <1>1, <2>1, <4>1, <4>2 DEF Ascends
    <3>2. CASE ~(i <= Len(toR))
      <4>1. tags'[i] = sfile
        BY <2>1, <3>2
      <4>2. ASSUME NEW j \in 1 .. i PROVE tags'[j] <= sfile
        <5>1. j \in 1 .. Len(toR')
          BY <2>1
        <5>2. j \in 1 .. Len(tags) => tags[j] <= sfile
          BY DEF Ascends
        <5> QED BY <1>1, <2>1, <5>1, <5>2
      <4> QED BY <1>1, <4>1, <4>2
    <3> QED BY <3>1, <3>2
  <2> QED BY <2>1, <2>2 DEF Ascends
<1> QED BY <1>2, <1>3, <1>4 DEF Appends

\* The sending program counts its files.
LEMMA SendSideCounts ==
  ASSUME TypeOK, Counted, SendSide
  PROVE  /\ sphase' \in {"loop", "file", "retry", "fin", "over"}
         /\ sfile' \in 0 .. NumFiles /\ sfile' >= sfile
         /\ sent' \in [Files -> Outcomes] /\ again' \subseteq Files
         /\ sphase' \in {"file", "retry"} => sfile' >= 1
         /\ sphase' \in {"fin", "over"} => spc' \in {"ret", "end"}
         /\ spc = "zfile" /\ spc' = "zfileWait" => sfile >= 1 /\ sfile' = sfile
<1> USE SessionAssumption DEF SessionAssumption, TypeOK
<1>0. sfile \in Int /\ sfile \in 0 .. NumFiles
  OBVIOUS
<1>1. CASE TInit
  BY <1>0, <1>1 DEF TInit, SGo, SReturn, Counted
<1>2. CASE SCalls
  <2>1. spc \notin {"ret", "end"} /\ spc' # "end"
    BY <1>2, SenderGoes DEF SCalls, SInits, SBefore, InData
  <2>2. UNCHANGED <<sphase, sfile, sent, again>> /\ ~BetweenFiles
    BY <1>2 DEF SCalls
  <2> QED BY <1>0, <2>1, <2>2 DEF Counted, BetweenFiles
<1>3. CASE SNextFile
  <2>1. /\ sfile' = sfile + 1 /\ sfile < NumFiles /\ UNCHANGED <<spc, again>>
        /\ sphase' \in {"file", "loop"} /\ sphase = "loop"
    BY <1>3 DEF SNextFile, BetweenFiles
  <2>2. sent' \in [Files -> Outcomes]
    BY <1>3 DEF SNextFile, Outcomes
  <2>3. sfile' \in 0 .. NumFiles /\ sfile' >= sfile /\ sfile' >= 1
    BY <1>0, <2>1
  <2>4. again' \subseteq Files
    BY <2>1
  <2>5. /\ sphase' \notin {"retry", "fin", "over"}
        /\ ~(spc = "zfile" /\ spc' = "zfileWait")
    BY <2>1
  <2> QED BY <2>1, <2>2, <2>3, <2>4, <2>5
<1>4. CASE SFileDone
  <2>1. sent' \in [Files -> Outcomes]
    BY <1>4 DEF SFileDone, Outcomes
  <2>2. sphase' = "loop" /\ spc' = "zfile" /\ UNCHANGED <<sfile, again>>
    BY <1>4 DEF SFileDone
  <2> QED BY <1>0, <2>1, <2>2
<1>5. CASE SRetryFile
  <2>1. sfile \in Files
    BY <1>0, <1>5 DEF SRetryFile, Counted, Files
  <2> QED BY <1>0, <1>5, <2>1 DEF SRetryFile, Counted
<1>6. CASE SAborts
  <2>1. sent' \in [Files -> Outcomes]
    <3>1. sres \in Outcomes
      BY DEF SenderTypeOK, Results, Outcomes
    <3> QED BY <1>6, <3>1 DEF SAborts
  <2> QED BY <1>0, <1>6, <2>1 DEF SAborts
<1>7. CASE SAllSent
  BY <1>0, <1>7 DEF SAllSent, SReturn
<1>8. CASE TFin
  <2>1. sent' \in [Files -> Outcomes]
    BY <1>8 DEF TFin, Outcomes
  <2> QED BY <1>0, <1>8, <2>1 DEF TFin
<1>9. CASE TFinReply \/ SCloses
  BY <1>0, <1>9 DEF TFinReply, SCloses, SClose, Counted
<1> QED BY <1>1, <1>2, <1>3, <1>4, <1>5, <1>6, <1>7, <1>8, <1>9 DEF SendSide

LEMMA CountedBySender ==
  ASSUME IInv, Sender PROVE IInv'
<1>1. /\ SendSide /\ Tagged
      /\ UNCHANGED <<faults, rvars, driver, recvvars, rpc, rres, rfile>>
  BY DEF Sender, rvars, recvvars
<1>2. /\ sphase' \in {"loop", "file", "retry", "fin", "over"}
      /\ sfile' \in 0 .. NumFiles /\ sfile' >= sfile
      /\ sent' \in [Files -> Outcomes] /\ again' \subseteq Files
      /\ sphase' \in {"file", "retry"} => sfile' >= 1
      /\ sphase' \in {"fin", "over"} => spc' \in {"ret", "end"}
      /\ spc = "zfile" /\ spc' = "zfileWait" => sfile >= 1 /\ sfile' = sfile
  BY <1>1, SendSideCounts DEF IInv
<1>3. Appends /\ toS' \in Seq(Frame) /\ SenderTypeOK'
  BY <1>1, SendSideLine DEF IInv
<1>4. sfile' \in Nat /\ sfile \in Nat
  BY <1>2, SessionAssumption DEF SessionAssumption, IInv, TypeOK
<1>5. toR' \in Seq(Frame) /\ tags' \in Seq(0 .. NumFiles)
      /\ Len(tags') = Len(toR') /\ Ascends'
  BY <1>1, <1>2, <1>3, <1>4, AccountKept DEF IInv
<1>6. TypeOK'
  BY <1>1, <1>2, <1>3, <1>5
  DEF IInv, TypeOK, LineTypeOK, ReceiverTypeOK, rvars, recvvars
<1>7. /\ \A i \in 1 .. Len(toR') : IsZFILE(toR'[i]) => tags'[i] >= 1
      /\ rpc = "zfileInfo" => \A i \in 1 .. Len(toR') : tags'[i] >= 1
  <2>1. CASE toR' = toR
    <3>1. Thinned(toR, toR', 0)
      BY <2>1 DEF Thinned, IInv, TypeOK, LineTypeOK
    <3>2. \A i \in 1 .. Len(toR') : i + 0 \in 1 .. Len(toR) /\ tags'[i] = tags[i + 0]
      BY <1>1, <1>5, <3>1, ThinnedTags DEF IInv
    <3>3. \A i \in 1 .. Len(toR) : tags'[i] = tags[i]
      BY <2>1, <3>2
    <3> QED BY <2>1, <3>3 DEF IInv, Counted
  <2>2. ASSUME NEW es \in Seq(Frame), es # <<>>, toR' = toR \o es, InItsPlace(es)
        PROVE  \A i \in 1 .. Len(toR') :
                 /\ IsZFILE(toR'[i]) => tags'[i] >= 1
                 /\ rpc = "zfileInfo" => tags'[i] >= 1
    <3>1. \A i \in 1 .. Len(toR') :
            IF i <= Len(toR)
            THEN i \in 1 .. Len(toR) /\ toR'[i] = toR[i] /\ tags'[i] = tags[i]
            ELSE /\ i - Len(toR) \in 1 .. Len(es)
                 /\ toR'[i] = es[i - Len(toR)] /\ tags'[i] = sfile
      BY <1>1, <2>2, AppendedTags DEF IInv
    <3>2. \A i \in 1 .. Len(es) : IsZFILE(es[i]) => sfile >= 1
      BY <1>2, <2>2 DEF InItsPlace
    <3>3. rpc = "zfileInfo" => sfile >= 1
      BY DEF IInv, Counted
    <3> TAKE i \in 1 .. Len(toR')
    <3>4. CASE i <= Len(toR)
      BY <3>1, <3>4 DEF IInv, Counted
    <3>5. CASE ~(i <= Len(toR))
      BY <3>1, <3>2, <3>3, <3>5
    <3> QED BY <3>4, <3>5
  <2> QED BY <1>3, <2>1, <2>2 DEF Appends
<1>8. rpc = "zfileInfo" => sfile' >= 1
  BY <1>2, <1>4 DEF IInv, Counted
<1>9. Counted'
  BY <1>1, <1>2, <1>7, <1>8 DEF IInv, Counted, IsZFILE
<1> QED BY <1>5, <1>6, <1>9 DEF IInv

LEMMA CountedByReceiver ==
  ASSUME IInv, Receiver PROVE IInv'
<1>1. /\ ReceiveSide /\ Tagged
      /\ UNCHANGED <<faults, svars, sendvars, maxFiles, spc, sphase, sfile>>
  BY DEF Receiver, svars, sendvars
<1>2. /\ toR' \in Seq(Frame) /\ toS' \in Seq(Frame) /\ ReceiverTypeOK'
      /\ \E d \in {0, 1} : Thinned(toR, toR', d)
  BY <1>1, ReceiveSideLine DEF IInv
<1>3. sfile \in Nat /\ sfile' = sfile /\ rfile \in 0 .. NumFiles /\ NumFiles \in Nat
  BY <1>1, SessionAssumption DEF SessionAssumption, IInv, TypeOK
<1>4. /\ tags' \in Seq(0 .. NumFiles) /\ Len(tags') = Len(toR') /\ Ascends'
  BY <1>1, <1>2, <1>3, AccountKept DEF IInv
<1>5. PICK d \in {0, 1} : Thinned(toR, toR', d)
  BY <1>2
<1>6. \A i \in 1 .. Len(toR') :
        /\ i + d \in 1 .. Len(toR) /\ tags'[i] = tags[i + d]
        /\ IsZFILE(toR'[i]) => IsZFILE(toR[i + d])
  <2>1. \A i \in 1 .. Len(toR') : i + d \in 1 .. Len(toR) /\ tags'[i] = tags[i + d]
    BY <1>1, <1>2, <1>5, ThinnedTags DEF IInv
  <2>2. \A i \in 1 .. Len(toR') : IsZFILE(toR'[i]) => IsZFILE(toR[i + d])
    BY <1>5 DEF Thinned, IsZFILE
  <2> QED BY <2>1, <2>2
<1>7. \A i \in 1 .. Len(toR') : IsZFILE(toR'[i]) => tags'[i] >= 1
  BY <1>6 DEF IInv, Counted
<1>8. rpc' \in {"ret", "end"} \/ rres' = "none"
  <2>1. CASE RCalls
    BY <2>1, ReceiverGoes DEF RCalls, IInv, Counted
  <2>2. CASE RNextFile \/ ROver \/ RCloses
    BY <2>2 DEF RNextFile, ROver, RCloses, RClose, rvars, IInv, Counted
  <2> QED BY <1>1, <2>1, <2>2 DEF ReceiveSide
<1>9. rpc' = "zfileInfo" => sfile >= 1 /\ \A i \in 1 .. Len(toR') : tags'[i] >= 1
  <2> SUFFICES ASSUME rpc' = "zfileInfo"
               PROVE  sfile >= 1 /\ \A i \in 1 .. Len(toR') : tags'[i] >= 1
    OBVIOUS
  <2>1. RCalls
    BY <1>1 DEF ReceiveSide, RNextFile, ROver, RCloses, RClose, rvars, IInv, Counted
  <2>2. rpc # "zfileInfo"
    BY <2>1, ReceiverGoes DEF RCalls
  <2>3. toR # <<>> /\ IsZFILE(Head(toR)) /\ toR' = Tail(toR)
    BY <2>1, <2>2, ReceiverGoes DEF RCalls, Taking, Inside
  <2>4. 1 \in 1 .. Len(toR) /\ Head(toR) = toR[1] /\ Len(tags) = Len(toR)
        /\ \A i \in 1 .. Len(tags) : tags[i] \in Nat
    BY <2>3, <1>3 DEF IInv, TypeOK, LineTypeOK
  <2>5. tags[1] >= 1
    BY <2>3, <2>4 DEF IInv, Counted
  <2>6. \A i \in 1 .. Len(tags) : tags[1] <= tags[i]
    BY <2>4 DEF IInv, Ascends
  <2>7. tags[1] <= sfile
    BY <2>4 DEF IInv, Ascends
  <2> QED BY <1>3, <1>6, <2>4, <2>5, <2>6, <2>7
<1>10. /\ rfile' \in 0 .. NumFiles
       /\ rpc' \in Inside \/ rres' = "ok" => rfile' >= 1
  <2>1. CASE RCalls
    <3>1. CASE rpc = "zfileInfo" /\ rpc' = "prompt"
      <4>1. toR # <<>>
        BY <2>1, <3>1, ReceiverGoes DEF RCalls, Inside
      <4>2. 1 \in 1 .. Len(toR) /\ Len(tags) = Len(toR) /\ tags \in Seq(0 .. NumFiles)
        BY <4>1 DEF IInv, TypeOK, LineTypeOK
      <4>3. Head(tags) = tags[1] /\ tags[1] \in 0 .. NumFiles
        <5>1. tags[1] \in 0 .. NumFiles
          BY <4>2, ElementOfSeq
        <5> QED BY <5>1
      <4>4. rfile' = Head(tags)
        BY <2>1, <3>1 DEF RCalls
      <4> QED BY <3>1, <4>2, <4>3, <4>4 DEF IInv, Counted
    <3>2. CASE ~(rpc = "zfileInfo" /\ rpc' = "prompt")
      <4>1. rfile' = rfile
        BY <2>1, <3>2 DEF RCalls
      <4>2. rpc' \in Inside => rpc \in Inside
        BY <2>1, <3>2, ReceiverGoes DEF RCalls
      <4>3. rres' = "ok" => rres = "ok" \/ rpc \in Inside
        BY <2>1, ReceiverGoes DEF RCalls
      <4> QED BY <1>3, <4>1, <4>2, <4>3 DEF IInv, Counted
    <3> QED BY <3>1, <3>2
  <2>2. CASE RNextFile
    BY <1>3, <2>2 DEF RNextFile, Inside
  <2>3. CASE ROver \/ RCloses
    BY <1>3, <2>3 DEF ROver, RCloses, RClose, rvars, Inside, IInv, Counted
  <2> QED BY <1>1, <2>1, <2>2, <2>3 DEF ReceiveSide
<1>11. rover' \in BOOLEAN /\ got' \in Seq([file : Files, whole : BOOLEAN])
  <2>1. ASSUME rres = "ok"
        PROVE  Append(got, [file |-> rfile, whole |-> Whole])
                 \in Seq([file : Files, whole : BOOLEAN])
    <3>1. rfile \in Files
      BY <1>3, <2>1 DEF IInv, Counted, Files
    <3>2. Whole \in BOOLEAN
      BY DEF Whole
    <3>3. [file |-> rfile, whole |-> Whole] \in [file : Files, whole : BOOLEAN]
      BY <3>1, <3>2
    <3>4. got \in Seq([file : Files, whole : BOOLEAN])
      BY DEF IInv, TypeOK
    <3> HIDE DEF Whole
    <3> QED BY <3>3, <3>4
  <2>2. rover \in BOOLEAN /\ got \in Seq([file : Files, whole : BOOLEAN])
    BY DEF IInv, TypeOK
  <2>3. \/ UNCHANGED got
        \/ rres = "ok" /\ got' = Append(got, [file |-> rfile, whole |-> Whole])
    BY <1>1 DEF ReceiveSide, RCalls, RNextFile, ROver, RCloses
  <2>4. rover' \in BOOLEAN
    BY <1>1, <2>2 DEF ReceiveSide, RCalls, RNextFile, ROver, RCloses
  <2> QED BY <2>1, <2>2, <2>3, <2>4
<1>12. TypeOK'
  BY <1>1, <1>2, <1>4, <1>10, <1>11
  DEF IInv, TypeOK, LineTypeOK, SenderTypeOK, svars, negotiated, progress, sendvars
<1>13. Counted'
  BY <1>1, <1>7, <1>8, <1>9, <1>10 DEF IInv, Counted, IsZFILE
<1> QED BY <1>4, <1>12, <1>13 DEF IInv

\* Damage makes no header, and whoever hangs up leaves nothing on the line.
LEMMA CountedByLine ==
  ASSUME IInv, Line PROVE IInv'
<1>1. /\ Garble /\ LineTypeOK
      /\ UNCHANGED <<svars, rvars, sessvars, tags, rpc, rres, rfile, sfile, sphase, spc>>
  BY DEF Line, sessvars, sendvars, recvvars, svars, rvars, IInv, TypeOK
<1>2. Spoilt(toR, toR') /\ Spoilt(toS, toS') /\ faults' \in 0 .. MaxFaults
  BY <1>1, GarbleSpoils
<1>3. /\ toR' \in Seq(Frame) /\ toS' \in Seq(Frame) /\ Thinned(toR, toR', 0)
  BY <1>1, <1>2, SpoiltType, DamageThins DEF LineTypeOK
<1>4. Len(toR) \in Nat /\ Len(toR') = Len(toR)
  BY <1>1, <1>3 DEF LineTypeOK, Thinned
<1>5. TypeOK'
  BY <1>1, <1>2, <1>3, <1>4
  DEF IInv, TypeOK, LineTypeOK, SenderTypeOK, ReceiverTypeOK,
      svars, rvars, sessvars, sendvars, recvvars, negotiated, progress
<1>6. Ascends'
  BY <1>1 DEF IInv, Ascends
<1>7. \A i \in 1 .. Len(toR') : IsZFILE(toR'[i]) => IsZFILE(toR[i])
  <2>1. \A i \in 1 .. Len(toR') : i + 0 = i
    BY <1>4
  <2>2. \A i \in 1 .. Len(toR') :
          toR'[i] = toR[i + 0] \/ toR'[i].k \notin {"hdr", "data", "eof"}
    BY <1>3 DEF Thinned
  <2> QED BY <2>1, <2>2 DEF IsZFILE
<1>8. Counted'
  BY <1>1, <1>4, <1>7 DEF IInv, Counted
<1> QED BY <1>5, <1>6, <1>8 DEF IInv

LEMMA CountedByHangUp ==
  ASSUME IInv, HangUp PROVE IInv'
<1>1. /\ toR' = <<Eof>> /\ toS' = <<Eof>> /\ tags' = <<sfile>>
      /\ UNCHANGED <<faults, svars, rvars, sendvars, recvvars,
                     rpc, rres, rfile, sfile, sphase, spc>>
  BY DEF HangUp, svars, rvars, sendvars, recvvars
<1>2. toR' \in Seq(Frame) /\ toS' \in Seq(Frame)
  BY <1>1, FramesAreTyped, ShortSeqs
<1>3. /\ sfile \in 0 .. NumFiles /\ sfile \in Nat
      /\ Len(toR') = 1 /\ Len(tags') = 1 /\ tags'[1] = sfile /\ toR'[1] = Eof
  BY <1>1, SessionAssumption DEF SessionAssumption, IInv, TypeOK
<1>4. tags' \in Seq(0 .. NumFiles)
  BY <1>1, <1>3
<1>5. TypeOK'
  BY <1>1, <1>2, <1>3, <1>4
  DEF IInv, TypeOK, LineTypeOK, SenderTypeOK, ReceiverTypeOK,
      svars, rvars, sendvars, recvvars, negotiated, progress
<1>6. Ascends'
  <2>1. \A i \in 1 .. Len(tags') : i = 1 /\ \A j \in 1 .. i : j = 1
    BY <1>3
  <2> QED BY <1>1, <1>3, <2>1 DEF Ascends
<1>7. \A i \in 1 .. Len(toR') : i = 1 /\ ~IsZFILE(toR'[i])
  <2>1. ~IsZFILE(Eof)
    BY DEF IsZFILE, Eof
  <2> QED BY <1>3, <2>1
<1>8. Counted'
  BY <1>1, <1>3, <1>7 DEF IInv, Counted
<1> QED BY <1>5, <1>6, <1>8 DEF IInv

\* The account is kept through every session.
LEMMA StaysCounted == Spec => []IInv
<1>1. Init => IInv
  <2> SUFFICES ASSUME Init PROVE IInv
    OBVIOUS
  <2>1. /\ toR = <<>> /\ toS = <<>> /\ tags = <<>> /\ disk = <<>> /\ got = <<>>
    BY DEF Init, LineInit, ReceiverInit
  <2>2. LineTypeOK
    BY <2>1, LineAssumption DEF Init, LineInit, LineTypeOK, LineAssumption
  <2>3. SenderTypeOK
    BY SenderConstants, LineAssumption
    DEF Init, SenderInit, SenderTypeOK, SPcs, Results, LineAssumption
  <2>4. ReceiverTypeOK
    <3>1. <<>> \in Seq(Nat)
      OBVIOUS
    <3> QED
      BY <2>1, <3>1, ReceiverConstants
      DEF Init, ReceiverInit, ReceiverTypeOK, RPcs, RResults
  <2>5. TypeOK
    <3>1. /\ <<>> \in Seq([file : Files, whole : BOOLEAN])
          /\ <<>> \in Seq(0 .. NumFiles) /\ Len(<<>>) = 0 /\ 0 \in 0 .. NumFiles
      BY SessionAssumption DEF SessionAssumption
    <3>2. sent \in [Files -> Outcomes] /\ again \subseteq Files
      BY DEF Init, Outcomes
    <3> QED BY <2>1, <2>2, <2>3, <2>4, <3>1, <3>2 DEF Init, TypeOK
  <2>6. Ascends /\ Counted
    BY <2>1 DEF Init, ReceiverInit, Ascends, Counted, Inside
  <2> QED BY <2>5, <2>6 DEF IInv
<1>2. IInv /\ [Next]_vars => IInv'
  <2>1. ASSUME IInv, UNCHANGED vars PROVE IInv'
    BY <2>1 DEF IInv, TypeOK, Ascends, Counted, LineTypeOK, SenderTypeOK,
                ReceiverTypeOK, IsZFILE, vars, line, svars, rvars, sessvars,
                sendvars, recvvars, negotiated, progress
  <2> QED BY <2>1, CountedBySender, CountedByReceiver, CountedByLine, CountedByHangUp
          DEF Next, Done
<1> QED BY <1>1, <1>2, PTL DEF Spec

\* Through every session of any number of files: the programs count their
\* files within bounds, and every frame stays accounted to one file.
THEOREM TypeCorrect == Spec => []TypeOK
<1>1. IInv => TypeOK
  BY DEF IInv
<1> QED BY <1>1, StaysCounted, PTL

-----------------------------------------------------------------------------
\* One file at a time.

\* Files are streamed from sources that can seek and are shorter than a header
\* can say, to a receiver that is not waited for.
Streams ==
  /\ Seekable = TRUE /\ Len(File) < PosMod
  /\ WindowSize = 0 \/ CanFDX = FALSE

\* No file was sent a second time.
SentOnce == again = {}

\* Which calls run in which part of the sending program.
Phases ==
  /\ sphase = "loop" => spc \in SInits \cup {"zfile", "ret"}
  /\ sphase = "file" => spc \in SBefore \cup InData \cup {"ret"}
  /\ sphase # "retry"
  /\ spc \notin {"ret", "end"} => sres = "none"

\* The sender streams each file.
Flowing ==
  /\ swin = 0 /\ Streaming /\ AsksNothing(toR)
  /\ spc \in InData => spos <= fpos

NoZFILE == \A i \in 1 .. Len(toR) : ~IsZFILE(toR[i])
NoRequest == \A i \in 1 .. Len(toS) : ~Asks(toS[i])

\* ReceiveFiles is still going on.
Live == rres \notin Over

\* Between two files, and from a file's success on, neither end is at a file.
AtRest == sphase = "loop" \/ (sphase = "file" /\ spc = "ret" /\ sres = "ok")
Rested == AtRest => rpc \notin Taking /\ NoZFILE /\ NoRequest

\* A receiver that heard a ZFILE header has only frames of the sender's file
\* before it; the header is of that file, and so is the copy.
Accounted ==
  /\ rpc \in Taking => \A i \in 1 .. Len(tags) : tags[i] = sfile
  /\ rpc \in Inside => rfile = sfile
  /\ \A i \in 1 .. Len(toR) : IsZFILE(toR[i]) => tags[i] = sfile

\* Before the data of a file no ZEOF of it is on the line, and no request but
\* its own.
Fresh ==
  sphase = "file" /\ spc \in SBefore =>
    /\ \A i \in 1 .. Len(toR) : IsZEOF(toR[i]) => tags[i] < sfile
    /\ rpc \notin Inside => NoRequest

\* A ZFILE header behind a ZEOF is of a later file.
Parted ==
  \A i, j \in 1 .. Len(toR) :
    i < j /\ IsZEOF(toR[i]) /\ IsZFILE(toR[j]) => tags[i] < tags[j]

\* Once a file was asked for, and until the receiver left it, no second header
\* of the file can take the receiver into it again;
Begun ==
  rpc \notin Inside /\ InFile(Len(toS)) => rpc # "zfileInfo" /\ NoZFILE

\* an answer that passes for the one to ZEOF finds the receiver out of the
\* file, and nothing that takes it there;
Acknowledged ==
  \A i \in 1 .. Len(toS) : Answers(toS[i]) /\ InFile(i) =>
    /\ rpc \notin Taking /\ NoZFILE
    /\ \A j \in i .. Len(toS) : ~Asks(toS[j])

\* and the sender was never told to skip a file.
IsZSKIP(e) == e.k = "hdr" /\ e.t = "ZSKIP"
Unskipped ==
  sres # "skipped" /\ \A i \in 1 .. Len(toS) : ~IsZSKIP(toS[i])

OneAtATime ==
  Live => /\ Rested /\ Accounted /\ Fresh /\ Parted
          /\ Begun /\ Acknowledged /\ Unskipped

SInv == IInv /\ Phases /\ Flowing /\ OneAtATime

-----------------------------------------------------------------------------
\* The account of a stream that is written to, and of one that is thinned.
LEMMA WrittenAccount ==
  ASSUME TypeOK, Tagged, Appends
  PROVE  /\ toR' \in Seq(Frame) /\ Len(tags) = Len(toR) /\ Len(tags') = Len(toR')
         /\ Len(toR) \in Nat
         /\ \A i \in 1 .. Len(toR') :
              \/ i \in 1 .. Len(toR) /\ toR'[i] = toR[i] /\ tags'[i] = tags[i]
              \/ /\ i > Len(toR) /\ tags'[i] = sfile
                 /\ IsZFILE(toR'[i]) => spc = "zfile" /\ spc' = "zfileWait"
                 /\ IsZEOF(toR'[i]) => spc = "eof"
<1>1. toR \in Seq(Frame) /\ Len(tags) = Len(toR) /\ Len(toR) \in Nat
  BY DEF TypeOK, LineTypeOK
<1>2. CASE toR' = toR
  <2>1. Thinned(toR, toR', 0)
    BY <1>1, <1>2 DEF Thinned
  <2>2. /\ Len(tags') = Len(toR')
        /\ \A i \in 1 .. Len(toR') : i + 0 \in 1 .. Len(toR) /\ tags'[i] = tags[i + 0]
    BY <1>1, <1>2, <2>1, ThinnedTags
  <2>3. \A i \in 1 .. Len(toR) : i + 0 = i
    BY <1>1
  <2> QED BY <1>1, <1>2, <2>2, <2>3
<1>3. ASSUME NEW es \in Seq(Frame), es # <<>>, toR' = toR \o es, InItsPlace(es)
      PROVE  /\ toR' \in Seq(Frame) /\ Len(tags') = Len(toR')
             /\ \A i \in 1 .. Len(toR') :
                  \/ i \in 1 .. Len(toR) /\ toR'[i] = toR[i] /\ tags'[i] = tags[i]
                  \/ /\ i > Len(toR) /\ tags'[i] = sfile
                     /\ IsZFILE(toR'[i]) => spc = "zfile" /\ spc' = "zfileWait"
                     /\ IsZEOF(toR'[i]) => spc = "eof"
  <2>1. /\ toR' \in Seq(Frame) /\ Len(tags') = Len(toR')
        /\ \A i \in 1 .. Len(toR') :
             IF i <= Len(toR)
             THEN i \in 1 .. Len(toR) /\ toR'[i] = toR[i] /\ tags'[i] = tags[i]
             ELSE /\ i - Len(toR) \in 1 .. Len(es)
                  /\ toR'[i] = es[i - Len(toR)] /\ tags'[i] = sfile
    BY <1>3, AppendedTags
  <2>2. \A i \in 1 .. Len(toR') : i <= Len(toR) \/ i > Len(toR)
    BY <1>1
  <2> QED BY <1>3, <2>1, <2>2 DEF InItsPlace
<1> QED BY <1>1, <1>2, <1>3 DEF Appends

LEMMA ReadAccount ==
  ASSUME TypeOK, Tagged, NEW d \in {0, 1}, Thinned(toR, toR', d), toR' \in Seq(Frame)
  PROVE  /\ Len(tags) = Len(toR) /\ Len(tags') = Len(toR') /\ Len(toR) \in Nat
         /\ \A i \in 1 .. Len(toR') :
              /\ i + d \in 1 .. Len(toR) /\ tags'[i] = tags[i + d]
              /\ toR'[i].k \in {"hdr", "data"} => toR'[i] = toR[i + d]
              /\ IsZFILE(toR'[i]) => IsZFILE(toR[i + d])
              /\ IsZEOF(toR'[i]) => IsZEOF(toR[i + d])
<1>1. /\ Len(tags') = Len(toR')
      /\ \A i \in 1 .. Len(toR') : i + d \in 1 .. Len(toR) /\ tags'[i] = tags[i + d]
  BY ThinnedTags
<1>2. \A i \in 1 .. Len(toR') : toR'[i].k \in {"hdr", "data"} => toR'[i] = toR[i + d]
  BY DEF Thinned
<1> QED BY <1>1, <1>2 DEF IsZFILE, IsZEOF, TypeOK, LineTypeOK

-----------------------------------------------------------------------------
\* What the sending program does next.
LEMMA SendSidePhases ==
  ASSUME TypeOK, Counted, Phases, SendSide, SentOnce'
  PROVE  /\ Phases'
         /\ sfile' = sfile \/ (sphase = "loop" /\ sfile' = sfile + 1)
         /\ AtRest' => \/ AtRest \/ sres = "skipped"
                       \/ spc = "eofWait" /\ toS # <<>> /\ Answers(Head(toS))
         /\ sphase' = "file" /\ spc' \in SBefore =>
              \/ sphase = "file" /\ spc \in SBefore /\ sfile' = sfile
              \/ sphase = "loop" /\ sfile' = sfile + 1
         /\ spc = "zfile" /\ spc' = "zfileWait" => sphase = "file" /\ sfile' = sfile
         /\ sres' = "skipped" =>
              \/ sres = "skipped"
              \/ toS # <<>> /\ IsZSKIP(Head(toS))
<1> USE DEF SInits, SBefore, InData
<1>1. /\ sphase \in {"loop", "file", "fin", "over"} /\ spc \in SPcs
      /\ sphase \in {"fin", "over"} => spc \in {"ret", "end"}
  BY DEF TypeOK, Counted, Phases, SenderTypeOK
<1>2. CASE TInit
  BY <1>1, <1>2 DEF TInit, SGo, SReturn, Phases, AtRest
<1>3. CASE SCalls
  <2>1. SCall /\ ~BetweenFiles /\ UNCHANGED <<sphase, sfile>> /\ SNext
    BY <1>3 DEF SCalls, SNext
  <2>2. spc \notin {"ret", "end"} /\ sphase \in {"loop", "file"} /\ sres = "none"
    BY <1>1, <2>1, SenderGoes DEF Phases
  <2>3. /\ spc \in {"init", "initWait", "zsinit", "zsinitWait"} =>
             spc' \in {"init", "initWait", "zsinit", "zsinitWait", "zfile", "ret"}
        /\ spc \in {"zfile", "zfileWait", "discard"} =>
             spc' \in {"zfile", "zfileWait", "discard"} \cup InData \cup {"ret"}
        /\ spc \in InData => spc' \in InData \cup {"ret"}
        /\ spc' # "ret" => UNCHANGED sres
        /\ sres' = "skipped" => sres = "skipped" \/ (toS # <<>> /\ IsZSKIP(Head(toS)))
    BY <2>1, SenderGoes DEF IsZSKIP
  <2>4. CASE sphase = "loop"
    <3>1. spc \in {"init", "initWait", "zsinit", "zsinitWait"}
      BY <2>1, <2>2, <2>4 DEF Phases, BetweenFiles
    <3> QED BY <2>1, <2>2, <2>3, <2>4, <3>1 DEF Phases, AtRest
  <2>5. CASE sphase = "file"
    <3>1. spc \in {"zfile", "zfileWait", "discard"} \cup InData
      BY <2>2, <2>5 DEF Phases
    <3>2. Phases'
      BY <2>1, <2>2, <2>3, <2>5, <3>1 DEF Phases
    <3>3. AtRest' => spc = "eofWait" /\ toS # <<>> /\ Answers(Head(toS))
      BY <2>1, <2>2, <2>5, SenderSucceeds DEF AtRest
    <3> QED BY <2>1, <2>3, <2>5, <3>1, <3>2, <3>3
  <2> QED BY <2>2, <2>4, <2>5
<1>4. CASE SNextFile
  <2>1. /\ spc = "zfile" /\ sphase = "loop" /\ sfile' = sfile + 1
        /\ UNCHANGED <<spc, sres>> /\ sphase' \in {"loop", "file"}
    BY <1>4 DEF SNextFile, BetweenFiles
  <2> QED BY <2>1 DEF Phases, AtRest
<1>5. CASE SFileDone
  <2>1. /\ spc = "ret" /\ sphase = "file" /\ sres \in {"ok", "skipped"}
        /\ UNCHANGED sfile /\ sphase' = "loop" /\ spc' = "zfile" /\ sres' = "none"
    BY <1>1, <1>5 DEF SFileDone
  <2> QED BY <2>1 DEF Phases, AtRest
<1>6. CASE SRetryFile
  <2>1. sfile \in again'
    BY <1>6 DEF SRetryFile
  <2> QED BY <2>1 DEF SentOnce
<1>7. CASE SAborts
  BY <1>7 DEF SAborts, Phases, AtRest
<1>8. CASE SAllSent
  BY <1>8 DEF SAllSent, SReturn, Phases, AtRest
<1>9. CASE TFin
  BY <1>9 DEF TFin, Phases, AtRest
<1>10. CASE TFinReply
  BY <1>1, <1>10 DEF TFinReply, Phases, AtRest
<1>11. CASE SCloses
  BY <1>11 DEF SCloses, SClose, Phases, AtRest
<1> QED BY <1>2, <1>3, <1>4, <1>5, <1>6, <1>7, <1>8, <1>9, <1>10, <1>11 DEF SendSide

\* It reads answers one by one, and a request when the data of a file starts.
LEMMA SendSideReads ==
  ASSUME TypeOK, SendSide
  PROVE  \E d \in {0, 1} :
           /\ Thinned(toS, toS', d)
           /\ spc' \in InData => spc \in InData \/ (d = 1 /\ Asks(toS[1]))
<1>1. LineTypeOK /\ SenderTypeOK
  BY DEF TypeOK
<1>2. CASE SCalls \/ SCloses
  <2>1. SNext
    BY <1>2 DEF SCalls, SCloses, SNext
  <2> QED BY <1>1, <2>1, SenderReads
<1>3. CASE spc' = spc \/ spc' \notin InData
  BY <1>3, SendSideLine
<1>4. CASE TInit \/ SNextFile \/ SFileDone \/ SRetryFile
  BY <1>3, <1>4 DEF TInit, SGo, SReturn, SNextFile, SFileDone, SRetryFile, InData
<1>5. CASE SAborts \/ SAllSent \/ TFin \/ TFinReply
  BY <1>3, <1>5 DEF SAborts, SAllSent, SReturn, TFin, TFinReply, InData
<1> QED BY <1>2, <1>4, <1>5 DEF SendSide

\* In a file, the position counted is never beyond the source's.
LEMMA BehindReader ==
  ASSUME LineTypeOK, SenderTypeOK, SNext, Seekable = TRUE,
         spc \in InData => spos <= fpos
  PROVE  spc' \in InData => spos' <= fpos'
<1> USE DEF SGo, SReturn
<1>0. /\ spos \in Nat /\ fpos \in Nat
      /\ \A types : SReceives(types) => rxpos \in Nat
  BY ReceivedPosition DEF SenderTypeOK, SReceives, rxpos, LineTypeOK
<1>1. CASE \/ SSkipGarbage \/ SDiscard \/ SCancelled \/ SWriteFails \/ SClose
           \/ SZsinitTop \/ SFileTop \/ SEofTop
  BY <1>1 DEF SSkipGarbage, SDiscard, SCancelled, SWriteFails, SClose,
     SZsinitTop, SFileTop, SEofTop, progress, InData
<1>2. CASE SInitTop \/ SInitZRINIT \/ SInitOther \/ SInitNoHeader
  BY <1>2 DEF SInitTop, SInitZRINIT, SInitOther, SInitNoHeader, SInitAgain, InData
<1>3. CASE SZsinitReply \/ SFileReply
  BY <1>3 DEF SZsinitReply, SFileReply, SRetry, InData
<1>4. CASE SFileCRC
  BY <1>4 DEF SFileCRC, InData
<1>5. CASE SFileZRPOS \/ SEofZRPOS
  BY <1>0, <1>5 DEF SFileZRPOS, SEofZRPOS, StartData
<1>6. CASE SAckWSeek
  BY <1>0, <1>6 DEF SAckWSeek
<1>7. CASE SBlock
  <2>1. ReadLen \in Nat
    BY ReadLenType
  <2>2. spos <= fpos /\ fpos' = fpos + ReadLen /\ spos' = spos + ReadLen
    BY <1>7 DEF SBlock, InData
  <2> QED BY <1>0, <2>1, <2>2
<1>8. CASE SAckW \/ SAckQ \/ SWinWait
  BY <1>8 DEF SAckW, SAckQ, SWinWait, InData
<1>9. CASE SEofReply
  BY <1>9 DEF SEofReply, progress, InData
<1> QED
  BY <1>1, <1>2, <1>3, <1>4, <1>5, <1>6, <1>7, <1>8, <1>9 DEF SNext, SCall

\* It goes on to stream.
LEMMA SendSideFlows ==
  ASSUME TypeOK, Flowing, SendSide, Streams
  PROVE  Flowing'
<1>1. LineTypeOK /\ SenderTypeOK /\ toR \in Seq(Frame)
  BY DEF TypeOK, LineTypeOK
<1>2. CASE SCalls \/ SCloses
  <2>1. SNext
    BY <1>2 DEF SCalls, SCloses, SNext
  <2>2. swin' = 0
    BY <2>1, NoWindow DEF Flowing, Streams
  <2>3. spc = "data" => spos <= fpos
    BY DEF Flowing, InData
  <2>4. Streaming' /\ AsksNothing(toR')
    BY <1>1, <2>1, <2>3, StaysStreaming DEF Flowing, Streams
  <2>5. spc' \in InData => spos' <= fpos'
    BY <1>1, <2>1, BehindReader DEF Flowing, Streams
  <2> QED BY <2>2, <2>4, <2>5 DEF Flowing, AsksNothing
<1>3. ASSUME spc' \notin InData, swin' = 0, AsksNothing(toR')
      PROVE  Flowing'
  BY <1>3 DEF Flowing, Streaming, InData, AsksNothing
<1>4. toR' = toR => AsksNothing(toR')
  BY DEF Flowing
<1>5. CASE TInit
  <2>1. spc' \notin InData /\ toR' = toR
    BY <1>5 DEF TInit, SGo, SReturn, SQuiet, InData
  <2>2. swin' = 0
    BY <1>5 DEF TInit, Flowing, Streams
  <2> QED BY <1>3, <1>4, <2>1, <2>2
<1>6. CASE SNextFile \/ SFileDone \/ SRetryFile \/ SAborts \/ SAllSent
  <2>1. spc' \notin InData /\ toR' = toR
    BY <1>6 DEF SNextFile, BetweenFiles, SFileDone, SRetryFile, SAborts, SAllSent,
       SReturn, SLoops, InData
  <2>2. swin' = swin
    BY <1>6 DEF SNextFile, SFileDone, SRetryFile, SAborts, SAllSent, SLoops, negotiated
  <2> QED BY <1>3, <1>4, <2>1, <2>2 DEF Flowing
<1>7. CASE TFin
  <2>1. spc' \notin InData /\ swin' = 0
    BY <1>7 DEF TFin, InData, negotiated, Flowing
  <2>2. PICK es \in Seq(Frame) :
          /\ Len(es) = 1 /\ es[1].k # "data"
          /\ toR' = toR \/ toR' = toR \o es
    <3>1. /\ <<Hdr("ZFIN", 0)>> \in Seq(Frame) /\ Len(<<Hdr("ZFIN", 0)>>) = 1
          /\ <<Hdr("ZFIN", 0)>>[1].k # "data"
      BY FramesAreTyped, ShortSeqs DEF FrameTypes, Hdr
    <3>2. toR' = toR \/ toR' = toR \o <<Hdr("ZFIN", 0)>>
      BY <1>7 DEF TFin, SWrites, Written
    <3> QED BY <3>1, <3>2
  <2>4. AsksNothing(toR')
    <3>1. CASE toR' = toR \o es
      <4>1. /\ Len(toR') = Len(toR) + Len(es) /\ Len(toR) \in Nat
            /\ \A i \in 1 .. Len(toR) + Len(es) :
                 toR'[i] = IF i <= Len(toR) THEN toR[i] ELSE es[i - Len(toR)]
        <5>1. toR \in Seq(Frame) /\ es \in Seq(Frame)
          BY <1>1, <2>2
        <5> QED BY ONLY <5>1, <3>1, ConcatProperties
      <4>2. ASSUME NEW i \in 1 .. Len(toR'), toR'[i].k = "data"
            PROVE  toR'[i].end \in {"ZCRCG", "ZCRCE"}
        <5>1. CASE i <= Len(toR)
          <6>1. i \in 1 .. Len(toR) /\ toR'[i] = toR[i]
            BY <4>1, <5>1
          <6> QED BY <4>2, <6>1 DEF Flowing, AsksNothing
        <5>2. CASE i > Len(toR)
          <6>1. i - Len(toR) = 1 /\ toR'[i] = es[i - Len(toR)]
            BY <2>2, <4>1, <5>2
          <6> QED BY <2>2, <4>2, <6>1
        <5> QED BY <4>1, <5>1, <5>2
      <4> QED BY <4>2 DEF AsksNothing
    <3> QED BY <1>4, <2>2, <3>1
  <2> QED BY <1>3, <2>1, <2>4
<1>8. CASE TFinReply
  <2>1. UNCHANGED <<toR, spc, swin, spos, fpos, slast, sjunk>>
    BY <1>8 DEF TFinReply, SQuiet, negotiated, progress
  <2> QED BY <1>4, <2>1 DEF Flowing, Streaming, AsksNothing
<1> QED BY <1>2, <1>5, <1>6, <1>7, <1>8 DEF SendSide

-----------------------------------------------------------------------------
\* Files stay apart when the sending program takes a step.
LEMMA ApartBySender ==
  ASSUME SInv, Streams, Sender, SentOnce' PROVE Phases' /\ Flowing' /\ OneAtATime'
<1>1. /\ TypeOK /\ Ascends /\ Counted /\ Phases /\ Flowing
      /\ SendSide /\ Tagged /\ UNCHANGED <<rpc, rres, rfile>>
  BY DEF SInv, IInv, Sender, rvars, recvvars
<1>2. /\ Phases'
      /\ sfile' = sfile \/ (sphase = "loop" /\ sfile' = sfile + 1)
      /\ AtRest' => \/ AtRest \/ sres = "skipped"
                    \/ spc = "eofWait" /\ toS # <<>> /\ Answers(Head(toS))
      /\ sphase' = "file" /\ spc' \in SBefore =>
           \/ sphase = "file" /\ spc \in SBefore /\ sfile' = sfile
           \/ sphase = "loop" /\ sfile' = sfile + 1
      /\ spc = "zfile" /\ spc' = "zfileWait" => sphase = "file" /\ sfile' = sfile
      /\ sres' = "skipped" =>
           \/ sres = "skipped"
           \/ toS # <<>> /\ IsZSKIP(Head(toS))
  BY <1>1, SendSidePhases
<1>3. Flowing'
  BY <1>1, SendSideFlows
<1>4. SUFFICES ASSUME Live
      PROVE  /\ Rested' /\ Accounted' /\ Fresh' /\ Parted'
             /\ Begun' /\ Acknowledged' /\ Unskipped'
  BY <1>1, <1>2, <1>3 DEF OneAtATime, Live
<1>5. /\ Rested /\ Accounted /\ Fresh /\ Parted
      /\ Begun /\ Acknowledged /\ Unskipped
  BY <1>4 DEF SInv, OneAtATime
<1>6. Appends /\ toS \in Seq(Frame) /\ toS' \in Seq(Frame)
  BY <1>1, SendSideLine DEF TypeOK, LineTypeOK
<1>7. /\ toR' \in Seq(Frame) /\ Len(tags) = Len(toR) /\ Len(tags') = Len(toR')
      /\ Len(toR) \in Nat
      /\ \A i \in 1 .. Len(toR') :
           \/ i \in 1 .. Len(toR) /\ toR'[i] = toR[i] /\ tags'[i] = tags[i]
           \/ /\ i > Len(toR) /\ tags'[i] = sfile
              /\ IsZFILE(toR'[i]) => spc = "zfile" /\ spc' = "zfileWait"
              /\ IsZEOF(toR'[i]) => spc = "eof"
  BY <1>1, <1>6, WrittenAccount
<1>8. PICK d \in {0, 1} :
        /\ Thinned(toS, toS', d)
        /\ spc' \in InData => spc \in InData \/ (d = 1 /\ Asks(toS[1]))
  BY <1>1, SendSideReads
<1>9. \A i \in 1 .. Len(toS') : toS'[i].k = "hdr" =>
        i + d \in 1 .. Len(toS) /\ toS'[i] = toS[i + d]
  BY <1>6, <1>8, ThinnedHeaders
<1>10. NoRequest => NoRequest'
  BY <1>6, <1>8, ThinnedAsksNot DEF NoRequest, Asks
<1>11. sfile \in Nat /\ \A i \in 1 .. Len(tags) : tags[i] <= sfile /\ tags[i] \in Nat
  BY <1>1, SessionAssumption DEF TypeOK, Ascends, SessionAssumption
<1>12. /\ Len(toS) \in Nat /\ Len(toS') \in Nat
       /\ toS # <<>> => 1 \in 1 .. Len(toS) /\ Head(toS) = toS[1]
  BY <1>6
\* Answers that find data under way did so before.
<1>13. \A i \in 1 .. Len(toS') : InFile(i)' => InFile(i + d)
  BY <1>6, <1>8, ThinnedInFile
<1>14. InFile(Len(toS))' => InFile(Len(toS))
  <2> SUFFICES ASSUME InFile(Len(toS))' PROVE InFile(Len(toS))
    OBVIOUS
  <2>1. CASE spc' \in InData
    <3>1. d = 1 => Len(toS) >= 1
      BY <1>8, <1>12 DEF Thinned
    <3>2. d = 1 => 1 \in 1 .. Len(toS)
      BY <1>12, <3>1
    <3> QED BY <1>8, <2>1, <3>2 DEF InFile
  <2>2. CASE spc' \notin InData
    <3>1. PICK j \in 1 .. Len(toS') : Asks(toS'[j])
      BY <2>2 DEF InFile
    <3> QED BY <1>9, <3>1 DEF InFile, Asks
  <2> QED BY <2>1, <2>2
\* A ZFILE header goes out before any request of its file is there.
<1>15. ASSUME spc = "zfile", spc' = "zfileWait", rpc \notin Inside
       PROVE  NoRequest /\ \A i \in 1 .. Len(toS') : ~InFile(i)'
  <2>1. NoRequest
    BY <1>2, <1>5, <1>15 DEF Fresh, SBefore
  <2>2. \A i \in 1 .. Len(toS') : ~Asks(toS'[i])
    BY <1>6, <1>8, <2>1, ThinnedAsksNot DEF NoRequest
  <2>3. \A i \in 1 .. Len(toS') : \A j \in 1 .. i : j \in 1 .. Len(toS')
    BY <1>12
  <2> QED BY <1>15, <2>1, <2>2, <2>3 DEF InFile, InData
<1>16. Rested'
  <2> SUFFICES ASSUME AtRest' PROVE rpc \notin Taking /\ NoZFILE' /\ NoRequest'
    BY <1>1 DEF Rested
  <2>1. ~(spc = "zfile" /\ spc' = "zfileWait")
    BY <1>2 DEF AtRest, Phases, SInits
  <2>2. NoZFILE => NoZFILE'
    BY <1>7, <2>1 DEF NoZFILE, IsZFILE
  <2>3. CASE AtRest
    BY <1>5, <1>10, <2>2, <2>3 DEF Rested
  <2>4. CASE spc = "eofWait" /\ toS # <<>> /\ Answers(Head(toS))
    <3>1. 1 \in 1 .. Len(toS) /\ Answers(toS[1]) /\ InFile(1)
      BY <1>12, <2>4 DEF InFile, InData
    <3>2. rpc \notin Taking /\ NoZFILE /\ NoRequest
      BY <1>5, <3>1 DEF Acknowledged, NoRequest
    <3> QED BY <1>10, <2>2, <3>2
  <2> QED BY <1>2, <1>5, <2>3, <2>4 DEF Unskipped
<1>17. Accounted'
  <2>1. CASE sfile' = sfile
    <3>1. rpc \in Taking => \A i \in 1 .. Len(tags') : tags'[i] = sfile'
      BY <1>5, <1>7, <2>1 DEF Accounted
    <3>2. \A i \in 1 .. Len(toR') : IsZFILE(toR'[i]) => tags'[i] = sfile'
      BY <1>5, <1>7, <2>1 DEF Accounted, IsZFILE
    <3> QED BY <1>1, <1>5, <2>1, <3>1, <3>2 DEF Accounted, IsZFILE
  <2>2. CASE sphase = "loop"
    <3>1. rpc \notin Taking /\ NoZFILE
      BY <1>5, <2>2 DEF Rested, AtRest
    <3>2. ~(spc = "zfile" /\ spc' = "zfileWait")
      BY <1>2, <2>2
    <3>3. NoZFILE'
      BY <1>7, <3>1, <3>2 DEF NoZFILE, IsZFILE
    <3> QED BY <1>1, <3>1, <3>3 DEF Accounted, NoZFILE, Taking
  <2> QED BY <1>2, <2>1, <2>2
<1>18. Fresh'
  <2> SUFFICES ASSUME sphase' = "file", spc' \in SBefore
               PROVE  /\ \A i \in 1 .. Len(toR') : IsZEOF(toR'[i]) => tags'[i] < sfile'
                      /\ rpc \notin Inside => NoRequest'
    BY <1>1 DEF Fresh, IsZEOF
  <2>1. spc # "eof"
    BY <1>1, <1>2 DEF Phases, SBefore, SInits
  <2>2. CASE sphase = "file" /\ spc \in SBefore /\ sfile' = sfile
    <3>1. \A i \in 1 .. Len(toR') : IsZEOF(toR'[i]) => tags'[i] < sfile'
      BY <1>5, <1>7, <2>1, <2>2 DEF Fresh, IsZEOF
    <3> QED BY <1>5, <1>10, <2>2, <3>1 DEF Fresh
  <2>3. CASE sphase = "loop" /\ sfile' = sfile + 1
    <3>1. \A i \in 1 .. Len(toR') : tags'[i] < sfile'
      BY <1>7, <1>11, <2>3
    <3> QED BY <1>5, <1>10, <2>3, <3>1 DEF Rested, AtRest
  <2> QED BY <1>2, <2>2, <2>3
<1>19. Parted'
  <2> SUFFICES ASSUME NEW i \in 1 .. Len(toR'), NEW j \in 1 .. Len(toR'),
                      i < j, IsZEOF(toR'[i]), IsZFILE(toR'[j])
               PROVE  tags'[i] < tags'[j]
    BY DEF Parted, IsZEOF, IsZFILE
  <2>1. CASE j \in 1 .. Len(toR) /\ toR'[j] = toR[j] /\ tags'[j] = tags[j]
    <3>1. i \in 1 .. Len(toR) /\ toR'[i] = toR[i] /\ tags'[i] = tags[i]
      BY <1>7, <2>1
    <3> QED BY <1>5, <2>1, <3>1 DEF Parted
  <2>2. CASE tags'[j] = sfile /\ spc = "zfile" /\ spc' = "zfileWait"
    <3>1. i \in 1 .. Len(toR) /\ toR'[i] = toR[i] /\ tags'[i] = tags[i]
      BY <1>7, <2>2
    <3>2. sphase = "file" /\ spc \in SBefore
      BY <1>2, <2>2 DEF SBefore
    <3>3. tags[i] < sfile
      BY <1>5, <3>1, <3>2 DEF Fresh
    <3> QED BY <2>2, <3>1, <3>3
  <2> QED BY <1>7, <2>1, <2>2
<1>20. Begun'
  <2> SUFFICES ASSUME rpc \notin Inside, InFile(Len(toS))'
               PROVE  rpc # "zfileInfo" /\ NoZFILE'
    BY <1>1 DEF Begun
  <2>1. rpc # "zfileInfo" /\ NoZFILE
    BY <1>5, <1>14 DEF Begun
  <2>2. ~(spc = "zfile" /\ spc' = "zfileWait")
    <3> SUFFICES ASSUME spc = "zfile", spc' = "zfileWait" PROVE FALSE
      OBVIOUS
    <3>1. Len(toS') \notin 1 .. Len(toS')
      BY <1>15
    <3>2. Len(toS') = 0
      BY <1>12, <3>1
    <3> QED BY <3>2 DEF InFile, InData
  <2> QED BY <1>7, <2>1, <2>2 DEF NoZFILE, IsZFILE
<1>21. Acknowledged'
  <2> SUFFICES ASSUME NEW i \in 1 .. Len(toS'), Answers(toS'[i]), InFile(i)'
               PROVE  /\ rpc \notin Taking /\ NoZFILE'
                      /\ \A j \in i .. Len(toS') : ~Asks(toS'[j])
    BY <1>1 DEF Acknowledged, Answers, Asks
  <2>1. i + d \in 1 .. Len(toS) /\ Answers(toS[i + d]) /\ InFile(i + d)
    BY <1>9, <1>13 DEF Answers
  <2>2. /\ rpc \notin Taking /\ NoZFILE
        /\ \A j \in i + d .. Len(toS) : ~Asks(toS[j])
    BY <1>5, <2>1 DEF Acknowledged
  <2>3. ~(spc = "zfile" /\ spc' = "zfileWait")
    BY <1>15, <2>2 DEF Taking
  <2>4. NoZFILE'
    BY <1>7, <2>2, <2>3 DEF NoZFILE, IsZFILE
  <2>5. ASSUME NEW j \in i .. Len(toS'), Asks(toS'[j]) PROVE FALSE
    <3>1. j \in 1 .. Len(toS')
      BY <1>12
    <3>2. toS'[j] = toS[j + d] /\ j + d \in 1 .. Len(toS)
      BY <1>9, <2>5, <3>1 DEF Asks
    <3>3. j + d \in i + d .. Len(toS)
      BY <1>12, <3>2
    <3> QED BY <2>2, <2>5, <3>2, <3>3
  <2> QED BY <2>2, <2>4, <2>5
<1>22. Unskipped'
  <2>1. sres' # "skipped"
    BY <1>2, <1>5, <1>12 DEF Unskipped
  <2>2. \A i \in 1 .. Len(toS') : ~IsZSKIP(toS'[i])
    BY <1>5, <1>9 DEF Unskipped, IsZSKIP
  <2> QED BY <2>1, <2>2 DEF Unskipped, IsZSKIP
<1> QED BY <1>16, <1>17, <1>18, <1>19, <1>20, <1>21, <1>22

-----------------------------------------------------------------------------
\* What the receiving program does next.
LEMMA ReceiveSideGoes ==
  ASSUME TypeOK, Counted, ReceiveSide
  PROVE  /\ rpc' \in Taking /\ rpc \notin Taking =>
              rpc' = "zfileInfo" /\ toR # <<>> /\ IsZFILE(Head(toR))
         /\ rpc' \in Inside /\ rpc \notin Inside =>
              rpc = "zfileInfo" /\ toR # <<>> /\ rfile' = Head(tags)
         /\ rpc' \in Inside /\ rpc \in Inside => rfile' = rfile
         /\ rpc \in Inside /\ rpc' \notin Inside /\ rres' \notin Over =>
              rpc' = "ret" /\ toR # <<>> /\ IsZEOF(Head(toR))
         /\ rpc = "zfileInfo" => rpc' # "zfileInfo"
         /\ rres \in Over => rres' \in Over
<1>1. rres \in Over => rpc \in {"ret", "end"}
  BY DEF Counted, Over
<1>2. CASE RCalls
  <2>1. RCall
    BY <1>2 DEF RCalls
  <2>2. rpc \notin {"ret", "end"} /\ rpc' # "end"
    BY <2>1, ReceiverGoes
  <2>3. rpc' \in Inside /\ rpc \notin Inside =>
          rpc = "zfileInfo" /\ toR # <<>> /\ rfile' = Head(tags)
    BY <1>2, <2>1, ReceiverGoes DEF RCalls
  <2>4. rpc \in Inside => rfile' = rfile
    BY <1>2 DEF RCalls, Inside
  <2>5. rpc \in Inside /\ rpc' \notin Inside /\ rres' \notin Over =>
          rpc' = "ret" /\ toR # <<>> /\ IsZEOF(Head(toR))
    <3>1. rpc \in Inside => rpc' \in Inside \cup {"ret"}
      BY <2>1, ReceiverGoes
    <3>2. rpc \in Inside /\ rpc' = "ret" =>
            \/ rres' \in Over
            \/ /\ rres' = "ok" /\ toR # <<>> /\ IsZEOF(Head(toR))
               /\ toR' = Tail(toR)
      BY <2>1, ReceiverGoes
    <3> QED BY <3>1, <3>2
  <2>6. rpc' \in Taking /\ rpc \notin Taking =>
          rpc' = "zfileInfo" /\ toR # <<>> /\ IsZFILE(Head(toR))
    BY <2>1, ReceiverGoes
  <2>7. rpc = "zfileInfo" => rpc' # "zfileInfo"
    BY <2>1, ReceiverGoes
  <2> QED BY <1>1, <2>2, <2>3, <2>4, <2>5, <2>6, <2>7
<1>3. CASE RNextFile
  BY <1>3 DEF RNextFile, Taking, Inside, Over
<1>4. CASE ROver
  <2>1. rpc = "ret" /\ UNCHANGED <<rpc, rres>>
    BY <1>4 DEF ROver, rvars
  <2> QED BY <2>1 DEF Taking, Inside
<1>5. CASE RCloses
  BY <1>5 DEF RCloses, RClose, Taking, Inside
<1> QED BY <1>2, <1>3, <1>4, <1>5 DEF ReceiveSide

\* It asks from inside a file, and answers from outside, or on leaving it.
LEMMA ReceiveSideTells ==
  ASSUME TypeOK, AsksNothing(toR), ReceiveSide
  PROVE  \/ toS' = toS
         \/ \E e \in Frame :
              /\ toS' = toS \o <<e>>
              /\ Asks(e) => rpc \in Inside /\ rpc' \in Inside
              /\ Answers(e) => \/ rpc \notin Taking
                               \/ rpc \in Inside /\ rpc' \notin Inside /\ rres' = "ok"
              /\ IsZSKIP(e) => rres' \in Over
<1> USE DEF RGo, RReturn, RAgain, RPass, RQuiet
<1> DEFINE Fine(e) ==
             /\ Asks(e) => rpc \in Inside /\ rpc' \in Inside
             /\ Answers(e) => \/ rpc \notin Taking
                              \/ rpc \in Inside /\ rpc' \notin Inside /\ rres' = "ok"
             /\ IsZSKIP(e) => rres' \in Over
           Tells == toS' = toS \/ \E e \in Frame : toS' = toS \o <<e>> /\ Fine(e)
<1> SUFFICES Tells
  OBVIOUS
<1>1. ASSUME NEW e \in Frame, Fine(e), RWrites(<<e>>) PROVE Tells
  BY <1>1 DEF RWrites, Written
<1>2. \A t \in {"ZNAK", "ZCOMPL"}, p \in Nat :
        Hdr(t, p) \in Frame /\ Fine(Hdr(t, p))
  BY FramesAreTyped DEF FrameTypes, Hdr, Asks, Answers, IsZSKIP
<1>3. \A t \in {"ZACK", "ZRINIT"}, p \in Nat :
        /\ Hdr(t, p) \in Frame
        /\ rpc \notin Taking \/ (rpc \in Inside /\ rpc' \notin Inside /\ rres' = "ok")
             => Fine(Hdr(t, p))
  BY FramesAreTyped DEF FrameTypes, Hdr, Asks, Answers, IsZSKIP
<1>4. RAttention => Tells
  <2>1. Nul \in Frame /\ Fine(Nul)
    BY FramesAreTyped DEF Nul, Asks, Answers, IsZSKIP
  <2> QED BY <1>1, <2>1 DEF RAttention
<1>5. rpos \in Nat /\ 0 \in Nat /\ 1 \in Nat /\ PosMod - 1 \in Nat
  BY LineAssumption DEF TypeOK, ReceiverTypeOK
<1> HIDE DEF Fine, Tells
<1>6. ASSUME NEW t \in {"ZNAK", "ZCOMPL"}, NEW p \in Nat, RWrites(<<Hdr(t, p)>>)
      PROVE  Tells
  BY <1>1, <1>2, <1>6
<1>7. ASSUME NEW t \in {"ZACK", "ZRINIT"}, NEW p \in Nat, RWrites(<<Hdr(t, p)>>),
             rpc \notin Taking \/ (rpc \in Inside /\ rpc' \notin Inside /\ rres' = "ok")
      PROVE  Tells
  BY <1>1, <1>3, <1>7
<1>8. toS' = toS => Tells
  BY DEF Tells
<1>9. CASE RNextFile \/ ROver
  BY <1>8, <1>9 DEF RNextFile, ROver
<1>10. CASE RCloses
  <2>1. Eof \in Frame /\ Fine(Eof)
    BY FramesAreTyped DEF Eof, Fine, Asks, Answers, IsZSKIP
  <2>2. toS' = toS \o <<Eof>>
    BY <1>10 DEF RCloses, RClose, TypeOK, LineTypeOK
  <2> QED BY <2>1, <2>2 DEF Tells
<1>11. CASE RSkipGarbage \/ RFinWait \/ RDiscard \/ RWriteFails
  BY <1>8, <1>11 DEF RSkipGarbage, RFinWait, RDiscard, RWriteFails
<1>12. CASE RTry
  BY <1>5, <1>7, <1>8, <1>12 DEF RTry, Taking, Inside
<1>13. CASE RTryReply
  BY <1>5, <1>7, <1>8, <1>13 DEF RTryReply, Taking, Inside
<1>14. CASE RInfo
  BY <1>5, <1>6, <1>7, <1>8, <1>14 DEF RInfo, Taking, Inside
<1>15. CASE RInfoFails
  BY <1>5, <1>6, <1>15 DEF RInfoFails
<1>16. CASE RPrompt
  <2>1. Hdr("ZSKIP", 0) \in Frame
    BY <1>5, FramesAreTyped DEF FrameTypes
  <2>2. rres' = "skipped" => Fine(Hdr("ZSKIP", 0))
    BY DEF Fine, Hdr, Asks, Answers, Over
  <2> QED BY <1>1, <1>8, <1>16, <2>1, <2>2 DEF RPrompt
<1>17. CASE RZrpos
  <2>1. Hdr("ZRPOS", rpos) \in Frame
    BY <1>5, FramesAreTyped DEF FrameTypes
  <2>2. Fine(Hdr("ZRPOS", rpos))
    BY <1>17 DEF Fine, Hdr, Answers, IsZSKIP, RZrpos, Inside
  <2> QED BY <1>1, <1>17, <2>1, <2>2 DEF RZrpos
<1>18. CASE RDataReply
  BY <1>4, <1>5, <1>7, <1>8, <1>18 DEF RDataReply, InPlace, Inside
<1>19. CASE RBlock
  <2>1. toR # <<>> /\ Head(toR).k = "data"
    BY <1>19 DEF RBlock, Reads
  <2>2. 1 \in 1 .. Len(toR) /\ Head(toR) = toR[1]
    BY <2>1 DEF TypeOK, LineTypeOK
  <2>3. Head(toR).end \in {"ZCRCG", "ZCRCE"}
    BY <2>1, <2>2 DEF AsksNothing
  <2> QED BY <1>8, <1>19, <2>3 DEF RBlock
<1>20. CASE RBlockFails
  BY <1>4, <1>20 DEF RBlockFails
<1> QED
  BY <1>9, <1>10, <1>11, <1>12, <1>13, <1>14, <1>15, <1>16, <1>17, <1>18, <1>19, <1>20
  DEF ReceiveSide, RCalls, RCall

-----------------------------------------------------------------------------
\* Files stay apart when the receiving program takes a step.
LEMMA ApartByReceiver ==
  ASSUME SInv, Receiver PROVE Phases' /\ Flowing' /\ OneAtATime'
<1>1. /\ TypeOK /\ Ascends /\ Counted /\ Phases /\ Flowing
      /\ ReceiveSide /\ Tagged
      /\ UNCHANGED <<spc, sres, swin, spos, fpos, slast, sjunk, sphase, sfile>>
  BY DEF SInv, IInv, Receiver, svars, negotiated, progress, sendvars
<1>2. Phases'
  BY <1>1 DEF Phases
<1>3. toR' \in Seq(Frame) /\ toS' \in Seq(Frame) /\ toS \in Seq(Frame)
  BY <1>1, ReceiveSideLine DEF TypeOK, LineTypeOK
<1>4. PICK d \in {0, 1} : Thinned(toR, toR', d)
  BY <1>1, ReceiveSideLine
<1>5. /\ Len(tags) = Len(toR) /\ Len(tags') = Len(toR') /\ Len(toR) \in Nat
      /\ \A i \in 1 .. Len(toR') :
           /\ i + d \in 1 .. Len(toR) /\ tags'[i] = tags[i + d]
           /\ toR'[i].k \in {"hdr", "data"} => toR'[i] = toR[i + d]
           /\ IsZFILE(toR'[i]) => IsZFILE(toR[i + d])
           /\ IsZEOF(toR'[i]) => IsZEOF(toR[i + d])
  BY <1>1, <1>3, <1>4, ReadAccount
<1>6. Flowing'
  <2>1. AsksNothing(toR')
    BY <1>1, <1>5 DEF Flowing, AsksNothing
  <2> QED BY <1>1, <2>1 DEF Flowing, Streaming, AsksNothing
<1>7. /\ rpc' \in Taking /\ rpc \notin Taking =>
           rpc' = "zfileInfo" /\ toR # <<>> /\ IsZFILE(Head(toR))
      /\ rpc' \in Inside /\ rpc \notin Inside =>
           rpc = "zfileInfo" /\ toR # <<>> /\ rfile' = Head(tags)
      /\ rpc' \in Inside /\ rpc \in Inside => rfile' = rfile
      /\ rpc \in Inside /\ rpc' \notin Inside /\ rres' \notin Over =>
           rpc' = "ret" /\ toR # <<>> /\ IsZEOF(Head(toR))
      /\ rpc = "zfileInfo" => rpc' # "zfileInfo"
      /\ rres \in Over => rres' \in Over
  BY <1>1, ReceiveSideGoes
<1>8. SUFFICES ASSUME rres' \notin Over
      PROVE  /\ Rested' /\ Accounted' /\ Fresh' /\ Parted'
             /\ Begun' /\ Acknowledged' /\ Unskipped'
  BY <1>2, <1>6 DEF OneAtATime, Live
<1>9. /\ Rested /\ Accounted /\ Fresh /\ Parted
      /\ Begun /\ Acknowledged /\ Unskipped
  BY <1>7, <1>8 DEF SInv, OneAtATime, Live
<1>10. Len(toS) \in Nat
  BY <1>3
<1>11. \A i \in 1 .. Len(toS') :
         \/ i \in 1 .. Len(toS) /\ toS'[i] = toS[i]
         \/ /\ i = Len(toS) + 1
            /\ Asks(toS'[i]) => rpc \in Inside /\ rpc' \in Inside
            /\ Answers(toS'[i]) => \/ rpc \notin Taking
                                   \/ rpc \in Inside /\ rpc' \notin Inside
            /\ ~IsZSKIP(toS'[i])
  <2>1. CASE toS' = toS
    BY <2>1
  <2>2. ASSUME NEW e \in Frame, toS' = toS \o <<e>>,
               Asks(e) => rpc \in Inside /\ rpc' \in Inside,
               Answers(e) => \/ rpc \notin Taking
                             \/ rpc \in Inside /\ rpc' \notin Inside,
               IsZSKIP(e) => rres' \in Over
        PROVE  \A i \in 1 .. Len(toS') :
                 \/ i \in 1 .. Len(toS) /\ toS'[i] = toS[i]
                 \/ i = Len(toS) + 1 /\ toS'[i] = e
    <3>1. /\ Len(toS') = Len(toS) + 1
          /\ \A i \in 1 .. Len(toS) + 1 :
               toS'[i] = IF i <= Len(toS) THEN toS[i] ELSE e
      BY <1>3, <2>2
    <3> QED BY <1>10, <3>1
  <2>3. \/ toS' = toS
        \/ \E e \in Frame :
             /\ toS' = toS \o <<e>>
             /\ Asks(e) => rpc \in Inside /\ rpc' \in Inside
             /\ Answers(e) => \/ rpc \notin Taking
                              \/ rpc \in Inside /\ rpc' \notin Inside /\ rres' = "ok"
             /\ IsZSKIP(e) => rres' \in Over
    BY <1>1, ReceiveSideTells DEF Flowing
  <2>4. CASE \E e \in Frame :
             /\ toS' = toS \o <<e>>
             /\ Asks(e) => rpc \in Inside /\ rpc' \in Inside
             /\ Answers(e) => \/ rpc \notin Taking
                              \/ rpc \in Inside /\ rpc' \notin Inside /\ rres' = "ok"
             /\ IsZSKIP(e) => rres' \in Over
    <3>1. PICK e \in Frame :
             /\ toS' = toS \o <<e>>
             /\ Asks(e) => rpc \in Inside /\ rpc' \in Inside
             /\ Answers(e) => \/ rpc \notin Taking
                              \/ rpc \in Inside /\ rpc' \notin Inside
             /\ IsZSKIP(e) => rres' \in Over
      BY <2>4
    <3>2. \A i \in 1 .. Len(toS') :
            \/ i \in 1 .. Len(toS) /\ toS'[i] = toS[i]
            \/ i = Len(toS) + 1 /\ toS'[i] = e
      BY <2>2, <3>1
    <3> QED BY <1>8, <3>1, <3>2
  <2> QED BY <2>1, <2>3, <2>4
<1>12. /\ toR # <<>> =>
            /\ 1 \in 1 .. Len(toR) /\ Head(toR) = toR[1] /\ Head(tags) = tags[1]
       /\ sfile \in Nat /\ \A i \in 1 .. Len(tags) : tags[i] \in Nat
  BY <1>1, <1>5, SessionAssumption DEF TypeOK, LineTypeOK, SessionAssumption
<1>13. NoZFILE => /\ NoZFILE'
                  /\ rpc \notin Taking => rpc' \notin Taking
  <2>1. NoZFILE => NoZFILE'
    BY <1>5 DEF NoZFILE, IsZFILE
  <2>2. NoZFILE /\ rpc \notin Taking => rpc' \notin Taking
    BY <1>7, <1>12 DEF NoZFILE
  <2> QED BY <2>1, <2>2
<1>14. NoRequest /\ (rpc \notin Inside \/ rpc' \notin Inside) => NoRequest'
  BY <1>11 DEF NoRequest, Asks
\* A file is entered behind all frames of earlier ones,
<1>15. ASSUME rpc' \in Taking
       PROVE  \A i \in 1 .. Len(tags) : tags[i] = sfile
  <2>1. CASE rpc \in Taking
    BY <1>9, <2>1 DEF Accounted
  <2>2. CASE rpc \notin Taking
    <3>1. 1 \in 1 .. Len(toR) /\ IsZFILE(toR[1])
      BY <1>7, <1>12, <1>15, <2>2
    <3>2. tags[1] = sfile
      BY <1>9, <3>1 DEF Accounted
    <3> TAKE i \in 1 .. Len(tags)
    <3>3. tags[i] <= sfile /\ \A j \in 1 .. i : tags[j] <= tags[i]
      BY <1>1 DEF Ascends
    <3>4. 1 \in 1 .. i
      OBVIOUS
    <3>5. tags[1] <= tags[i] /\ tags[i] <= sfile
      BY <3>3, <3>4
    <3> QED BY <1>12, <3>2, <3>5
  <2> QED BY <2>1, <2>2
\* and left at its own end.
<1>16. ASSUME rpc \in Inside, rpc' \notin Inside
       PROVE  /\ rpc' \notin Taking /\ NoZFILE /\ NoZFILE'
              /\ ~(sphase = "file" /\ spc \in SBefore)
  <2>1. rpc' = "ret" /\ toR # <<>> /\ IsZEOF(Head(toR))
    BY <1>7, <1>8, <1>16
  <2>2. 1 \in 1 .. Len(toR) /\ IsZEOF(toR[1])
    BY <1>12, <2>1
  <2>3. \A i \in 1 .. Len(tags) : tags[i] = sfile
    BY <1>9, <1>16 DEF Accounted, Taking
  <2>4. NoZFILE
    <3> SUFFICES ASSUME NEW j \in 1 .. Len(toR), IsZFILE(toR[j]) PROVE FALSE
      BY DEF NoZFILE
    <3>1. j # 1
      BY <2>2 DEF IsZFILE, IsZEOF
    <3>2. 1 < j
      BY <3>1
    <3>3. tags[1] < tags[j]
      BY <1>9, <2>2, <3>2 DEF Parted
    <3>4. tags[1] = sfile /\ tags[j] = sfile
      BY <1>5, <2>2, <2>3
    <3> QED BY <1>12, <3>3, <3>4
  <2>5. ~(sphase = "file" /\ spc \in SBefore)
    <3> SUFFICES ASSUME sphase = "file", spc \in SBefore PROVE FALSE
      OBVIOUS
    <3>1. tags[1] < sfile
      BY <1>9, <2>2 DEF Fresh
    <3>2. tags[1] = sfile
      BY <1>5, <2>2, <2>3
    <3> QED BY <1>12, <3>1, <3>2
  <2> QED BY <1>13, <2>1, <2>4, <2>5 DEF Taking, Inside
<1>17. Rested'
  <2> SUFFICES ASSUME AtRest PROVE rpc' \notin Taking /\ NoZFILE' /\ NoRequest'
    BY <1>1 DEF Rested, AtRest
  <2>1. rpc \notin Taking /\ NoZFILE /\ NoRequest
    BY <1>9 DEF Rested
  <2> QED BY <1>13, <1>14, <2>1 DEF Taking
<1>18. Accounted'
  <2>1. rpc' \in Taking => \A i \in 1 .. Len(tags') : tags'[i] = sfile'
    BY <1>1, <1>5, <1>15
  <2>2. rpc' \in Inside => rfile' = sfile'
    <3>1. CASE rpc \in Inside
      BY <1>1, <1>7, <1>9, <3>1 DEF Accounted
    <3>2. CASE rpc \notin Inside /\ rpc' \in Inside
      <4>1. rpc = "zfileInfo" /\ rfile' = tags[1] /\ 1 \in 1 .. Len(tags)
        BY <1>5, <1>7, <1>12, <3>2
      <4>2. tags[1] = sfile
        BY <1>9, <4>1 DEF Accounted, Taking
      <4> QED BY <1>1, <4>1, <4>2
    <3> QED BY <3>1, <3>2
  <2>3. \A i \in 1 .. Len(toR') : IsZFILE(toR'[i]) => tags'[i] = sfile'
    BY <1>1, <1>5, <1>9 DEF Accounted
  <2> QED BY <2>1, <2>2, <2>3 DEF Accounted, IsZFILE
<1>19. Fresh'
  <2> SUFFICES ASSUME sphase = "file", spc \in SBefore
               PROVE  /\ \A i \in 1 .. Len(toR') : IsZEOF(toR'[i]) => tags'[i] < sfile
                      /\ rpc' \notin Inside => NoRequest'
    BY <1>1 DEF Fresh, IsZEOF
  <2>1. \A i \in 1 .. Len(toR') : IsZEOF(toR'[i]) => tags'[i] < sfile
    BY <1>5, <1>9 DEF Fresh
  <2>2. rpc' \notin Inside => NoRequest'
    BY <1>9, <1>14, <1>16 DEF Fresh
  <2> QED BY <2>1, <2>2
<1>20. Parted'
  <2> SUFFICES ASSUME NEW i \in 1 .. Len(toR'), NEW j \in 1 .. Len(toR'),
                      i < j, IsZEOF(toR'[i]), IsZFILE(toR'[j])
               PROVE  tags'[i] < tags'[j]
    BY DEF Parted, IsZEOF, IsZFILE
  <2>1. /\ i + d \in 1 .. Len(toR) /\ IsZEOF(toR[i + d]) /\ tags'[i] = tags[i + d]
        /\ j + d \in 1 .. Len(toR) /\ IsZFILE(toR[j + d]) /\ tags'[j] = tags[j + d]
    BY <1>5
  <2>2. i + d < j + d
    OBVIOUS
  <2> QED BY <1>9, <2>1, <2>2 DEF Parted
\* A request that is on its way was so before, or the receiver is in the file.
<1>21. ASSUME rpc \notin Inside \/ rpc' \notin Inside,
              NEW i \in 1 .. Len(toS'), NEW j \in 1 .. i, Asks(toS'[j])
       PROVE  j \in 1 .. Len(toS) /\ Asks(toS[j])
  <2>1. j \in 1 .. Len(toS')
    BY <1>3
  <2> QED BY <1>11, <1>21, <2>1
<1>22. Begun'
  <2> SUFFICES ASSUME rpc' \notin Inside, InFile(Len(toS))'
               PROVE  rpc' # "zfileInfo" /\ NoZFILE'
    BY DEF Begun
  <2>1. CASE rpc \in Inside
    BY <1>16, <2>1 DEF Taking
  <2>2. CASE rpc \notin Inside
    <3>1. InFile(Len(toS))
      <4>1. CASE spc \in InData
        BY <4>1 DEF InFile
      <4>2. CASE spc \notin InData
        <5>1. PICK j \in 1 .. Len(toS') : Asks(toS'[j])
          BY <1>1, <4>2 DEF InFile
        <5>2. Len(toS') \in 1 .. Len(toS')
          BY <1>3, <5>1
        <5>3. j \in 1 .. Len(toS) /\ Asks(toS[j])
          BY <1>21, <2>2, <5>1, <5>2
        <5> QED BY <5>3 DEF InFile
      <4> QED BY <4>1, <4>2
    <3>2. rpc # "zfileInfo" /\ NoZFILE
      BY <1>9, <2>2, <3>1 DEF Begun
    <3>3. rpc \notin Taking
      BY <2>2, <3>2 DEF Taking
    <3> QED BY <1>13, <3>2, <3>3 DEF Taking
  <2> QED BY <2>1, <2>2
<1>23. Acknowledged'
  <2> SUFFICES ASSUME NEW i \in 1 .. Len(toS'), Answers(toS'[i]), InFile(i)'
               PROVE  /\ rpc' \notin Taking /\ NoZFILE'
                      /\ \A j \in i .. Len(toS') : ~Asks(toS'[j])
    BY DEF Acknowledged, Answers, Asks
  <2>1. CASE i \in 1 .. Len(toS) /\ toS'[i] = toS[i]
    <3>1. InFile(i)
      <4>1. CASE spc \in InData
        BY <4>1 DEF InFile
      <4>2. CASE spc \notin InData
        <5>1. PICK j \in 1 .. i : Asks(toS'[j])
          BY <1>1, <4>2 DEF InFile
        <5>2. j \in 1 .. Len(toS') /\ j # Len(toS) + 1
          BY <1>3, <1>10, <2>1
        <5>3. Asks(toS[j])
          BY <1>11, <5>1, <5>2
        <5> QED BY <5>3 DEF InFile
      <4> QED BY <4>1, <4>2
    <3>2. /\ rpc \notin Taking /\ NoZFILE
          /\ \A j \in i .. Len(toS) : ~Asks(toS[j])
      BY <1>9, <2>1, <3>1 DEF Acknowledged
    <3>3. ASSUME NEW j \in i .. Len(toS'), Asks(toS'[j]) PROVE FALSE
      <4>1. j \in 1 .. Len(toS')
        BY <1>3
      <4>2. rpc \notin Inside
        BY <3>2 DEF Taking
      <4>3. j \in 1 .. Len(toS) /\ Asks(toS[j])
        BY <1>11, <3>3, <4>1, <4>2
      <4>4. j \in i .. Len(toS)
        BY <4>3
      <4> QED BY <3>2, <4>3, <4>4
    <3> QED BY <1>13, <3>2, <3>3
  <2>2. CASE /\ i = Len(toS) + 1
             /\ rpc \notin Taking \/ (rpc \in Inside /\ rpc' \notin Inside)
    <3>1. ~Asks(toS'[i])
      BY DEF Asks, Answers
    <3>2. rpc' \notin Taking /\ NoZFILE'
      <4>1. CASE rpc \in Inside /\ rpc' \notin Inside
        BY <1>16, <4>1
      <4>2. CASE rpc \notin Taking
        <5>1. InFile(Len(toS))
          <6>1. CASE spc \in InData
            BY <6>1 DEF InFile
          <6>2. CASE spc \notin InData
            <7>1. PICK j \in 1 .. i : Asks(toS'[j])
              BY <1>1, <6>2 DEF InFile
            <7>2. j \in 1 .. Len(toS) /\ Asks(toS[j])
              BY <1>21, <4>2, <7>1 DEF Taking
            <7> QED BY <7>2 DEF InFile
          <6> QED BY <6>1, <6>2
        <5>2. NoZFILE
          BY <1>9, <4>2, <5>1 DEF Begun, Taking
        <5> QED BY <1>13, <4>2, <5>2
      <4> QED BY <2>2, <4>1, <4>2
    <3>3. \A j \in i .. Len(toS') : j = i
      <4>1. \A j \in 1 .. Len(toS') : j <= Len(toS) + 1
        BY <1>10, <1>11
      <4>2. \A j \in i .. Len(toS') : j \in 1 .. Len(toS') /\ j >= i
        BY <1>3
      <4> QED BY <1>10, <2>2, <4>1, <4>2
    <3> QED BY <3>1, <3>2, <3>3
  <2> QED BY <1>11, <2>1, <2>2
<1>24. Unskipped'
  BY <1>1, <1>9, <1>11 DEF Unskipped, IsZSKIP
<1> QED BY <1>17, <1>18, <1>19, <1>20, <1>22, <1>23, <1>24

-----------------------------------------------------------------------------
\* Files stay apart when a frame is damaged or somebody hangs up.
LEMMA ApartByLine ==
  ASSUME SInv, Line PROVE Phases' /\ Flowing' /\ OneAtATime'
<1>1. /\ Garble /\ LineTypeOK /\ Len(tags) = Len(toR)
      /\ Phases /\ Flowing /\ OneAtATime
      /\ UNCHANGED <<rpc, rres, rfile, tags, sfile, sphase,
                     spc, sres, swin, spos, fpos, slast, sjunk>>
  BY DEF Line, sessvars, sendvars, recvvars, svars, negotiated, progress, rvars,
         SInv, IInv, TypeOK
<1>2. /\ toR \in Seq(Frame) /\ toR' \in Seq(Frame) /\ Thinned(toR, toR', 0)
      /\ toS \in Seq(Frame) /\ toS' \in Seq(Frame) /\ Thinned(toS, toS', 0)
  BY <1>1, GarbleSpoils, SpoiltType, DamageThins DEF LineTypeOK
<1>3. /\ Len(toR) \in Nat /\ Len(toR') = Len(toR)
      /\ Len(toS) \in Nat /\ Len(toS') = Len(toS)
  BY <1>2 DEF Thinned
<1>4. \A i \in 1 .. Len(toR) : toR'[i].k \in {"hdr", "data"} => toR'[i] = toR[i]
  <2>1. \A i \in 1 .. Len(toR) : i + 0 = i
    BY <1>3
  <2> QED BY <1>2, <1>3, <2>1 DEF Thinned
<1>5. \A i \in 1 .. Len(toS) : toS'[i].k \in {"hdr", "data"} => toS'[i] = toS[i]
  <2>1. \A i \in 1 .. Len(toS) : i + 0 = i
    BY <1>3
  <2> QED BY <1>2, <1>3, <2>1 DEF Thinned
<1>6. Phases' /\ Flowing'
  BY <1>1, <1>3, <1>4 DEF Phases, Flowing, Streaming, AsksNothing
<1>7. \A i \in 1 .. Len(toR) :
        /\ IsZFILE(toR'[i]) => IsZFILE(toR[i])
        /\ IsZEOF(toR'[i]) => IsZEOF(toR[i])
  BY <1>4 DEF IsZFILE, IsZEOF
<1>8. \A i \in 1 .. Len(toS) :
        /\ Asks(toS'[i]) => Asks(toS[i])
        /\ Answers(toS'[i]) => Answers(toS[i])
        /\ IsZSKIP(toS'[i]) => IsZSKIP(toS[i])
  BY <1>5 DEF Asks, Answers, IsZSKIP
<1>9. (NoZFILE => NoZFILE') /\ (NoRequest => NoRequest')
  BY <1>3, <1>7, <1>8 DEF NoZFILE, NoRequest
<1>10. \A i \in 1 .. Len(toS) : InFile(i)' => InFile(i)
  BY <1>1, <1>3, <1>8 DEF InFile
<1>11. InFile(Len(toS))' => InFile(Len(toS))
  BY <1>1, <1>3, <1>8 DEF InFile
<1>12. SUFFICES ASSUME Live
       PROVE  /\ Rested' /\ Accounted' /\ Fresh' /\ Parted'
              /\ Begun' /\ Acknowledged' /\ Unskipped'
  BY <1>1, <1>6 DEF OneAtATime, Live
<1>13. /\ Rested /\ Accounted /\ Fresh /\ Parted
       /\ Begun /\ Acknowledged /\ Unskipped
  BY <1>1, <1>12 DEF OneAtATime
<1>14. Rested'
  BY <1>1, <1>9, <1>13 DEF Rested, AtRest
<1>15. Accounted'
  BY <1>1, <1>3, <1>7, <1>13 DEF Accounted, IsZFILE
<1>16. Fresh'
  BY <1>1, <1>3, <1>7, <1>9, <1>13 DEF Fresh, IsZEOF
<1>17. Parted'
  BY <1>1, <1>3, <1>7, <1>13 DEF Parted, IsZEOF, IsZFILE
<1>18. Begun'
  BY <1>1, <1>9, <1>11, <1>13 DEF Begun
<1>19. Acknowledged'
  <2> SUFFICES ASSUME NEW i \in 1 .. Len(toS), Answers(toS'[i]), InFile(i)'
               PROVE  /\ rpc \notin Taking /\ NoZFILE'
                      /\ \A j \in i .. Len(toS) : ~Asks(toS'[j])
    BY <1>1, <1>3 DEF Acknowledged, Answers, Asks
  <2>1. /\ rpc \notin Taking /\ NoZFILE
        /\ \A j \in i .. Len(toS) : ~Asks(toS[j])
    BY <1>8, <1>10, <1>13 DEF Acknowledged
  <2>2. \A j \in i .. Len(toS) : j \in 1 .. Len(toS)
    BY <1>3
  <2> QED BY <1>8, <1>9, <2>1, <2>2
<1>20. Unskipped'
  BY <1>1, <1>3, <1>8, <1>13 DEF Unskipped, IsZSKIP
<1> QED BY <1>14, <1>15, <1>16, <1>17, <1>18, <1>19, <1>20

LEMMA ApartByHangUp ==
  ASSUME SInv, HangUp PROVE Phases' /\ Flowing' /\ OneAtATime'
<1>1. /\ toR = <<>> /\ toR' = <<Eof>> /\ toS' = <<Eof>> /\ tags' = <<sfile>>
      /\ Phases /\ Flowing /\ OneAtATime
      /\ UNCHANGED <<rpc, rres, rfile, sfile, sphase,
                     spc, sres, swin, spos, fpos, slast, sjunk>>
  BY DEF HangUp, Stalled, sendvars, recvvars, svars, negotiated, progress, rvars, SInv
<1>2. /\ Len(toR') = 1 /\ \A i \in 1 .. Len(toR') : toR'[i].k = "eof"
      /\ Len(toS') = 1 /\ \A i \in 1 .. Len(toS') : toS'[i].k = "eof"
      /\ Len(tags') = 1 /\ \A i \in 1 .. Len(tags') : tags'[i] = sfile
  BY <1>1 DEF Eof
<1>3. Phases' /\ Flowing'
  BY <1>1, <1>2 DEF Phases, Flowing, Streaming, AsksNothing
<1>4. NoZFILE' /\ NoRequest' /\ NoZFILE
  BY <1>1, <1>2 DEF NoZFILE, NoRequest, IsZFILE, Asks
<1>5. SUFFICES ASSUME Live
      PROVE  /\ Rested' /\ Accounted' /\ Fresh' /\ Parted'
             /\ Begun' /\ Acknowledged' /\ Unskipped'
  BY <1>1, <1>3 DEF OneAtATime, Live
<1>6. /\ Rested /\ Accounted /\ Begun /\ Unskipped
  BY <1>1, <1>5 DEF OneAtATime
<1>7. InFile(Len(toS))' => InFile(Len(toS))
  BY <1>1, <1>2 DEF InFile, Asks
<1>8. Rested' /\ Begun'
  BY <1>1, <1>4, <1>6, <1>7 DEF Rested, AtRest, Begun
<1>9. Accounted'
  BY <1>1, <1>2, <1>6 DEF Accounted, IsZFILE
<1>10. Fresh' /\ Parted' /\ Acknowledged' /\ Unskipped'
  BY <1>1, <1>2, <1>4, <1>6
  DEF Fresh, Parted, Acknowledged, Answers, Unskipped, IsZEOF, IsZSKIP
<1> QED BY <1>8, <1>9, <1>10

-----------------------------------------------------------------------------
\* So they do from the beginning on, unless one is sent a second time.
LEMMA StaysApart == ASSUME Streams PROVE Spec /\ []SentOnce => []SInv
<1>1. Init => Phases /\ Flowing /\ OneAtATime
  <2> SUFFICES ASSUME Init PROVE Phases /\ Flowing /\ OneAtATime
    OBVIOUS
  <2>1. /\ toR = <<>> /\ toS = <<>> /\ tags = <<>> /\ sphase = "loop"
        /\ spc = "init" /\ sres = "none" /\ swin = 0 /\ rpc = "try"
    BY DEF Init, LineInit, SenderInit, ReceiverInit
  <2>2. Phases /\ Flowing
    BY <2>1 DEF Phases, Flowing, Streaming, AsksNothing, SInits, InData
  <2>3. Rested /\ Accounted /\ Fresh /\ Parted
    BY <2>1 DEF Rested, Accounted, Fresh, Parted, Taking, Inside, NoZFILE, NoRequest
  <2>4. Begun /\ Acknowledged /\ Unskipped
    BY <2>1 DEF Begun, NoZFILE, Acknowledged, Unskipped
  <2> QED BY <2>2, <2>3, <2>4 DEF OneAtATime
<1>2. SInv /\ [Next]_vars /\ SentOnce' => (Phases /\ Flowing /\ OneAtATime)'
  <2>1. ASSUME SInv, UNCHANGED vars PROVE (Phases /\ Flowing /\ OneAtATime)'
    <3>1. UNCHANGED <<toR, toS, rpc, rres, rfile, tags, sfile, sphase,
                      spc, sres, swin, spos, fpos, slast, sjunk>>
      BY <2>1 DEF vars, line, sessvars, sendvars, recvvars, svars, rvars,
                  negotiated, progress
    <3>2. Phases' /\ Flowing'
      BY <2>1, <3>1 DEF SInv, Phases, Flowing, Streaming, AsksNothing
    <3>3. OneAtATime'
      BY <2>1, <3>1
      DEF SInv, OneAtATime, Live, Rested, AtRest, Accounted, Fresh, Parted, Begun,
          Acknowledged, Unskipped, NoZFILE, NoRequest, InFile, IsZFILE, IsZEOF,
          IsZSKIP, Asks, Answers
    <3> QED BY <3>2, <3>3
  <2> QED BY <2>1, ApartBySender, ApartByReceiver, ApartByLine, ApartByHangUp
          DEF Next, Done
<1>3. SInv <=> IInv /\ (Phases /\ Flowing /\ OneAtATime)
  BY DEF SInv
<1> QED BY <1>1, <1>2, <1>3, StaysCounted, PTL DEF Spec

\* A byte is written, and an end of file believed, inside a file only, on a
\* frame of the stream.
LEMMA ReceiverGains ==
  ASSUME TypeOK, ReceiveSide,
         Len(disk') > Len(disk) \/ (rres = "none" /\ rres' = "ok")
  PROVE  rpc \in Inside /\ toR # <<>>
<1>1. Len(disk) \in Nat
  BY DEF TypeOK, ReceiverTypeOK
<1>2. CASE RCalls
  <2>1. RCall
    BY <1>2 DEF RCalls
  <2>2. CASE RBlock
    BY <2>2 DEF RBlock, Inside
  <2>3. CASE ~RBlock
    <3>1. UNCHANGED disk
      BY <2>1, <2>3
      DEF RCall, RSkipGarbage, RTry, RTryReply, RInfo, RInfoFails, RFinWait, RPrompt,
          RZrpos, RDataReply, RDiscard, RBlockFails, RWriteFails
    <3>2. rres = "none" /\ rres' = "ok"
      BY <1>1, <3>1
    <3> QED BY <2>1, <3>2, ReceiverGoes DEF Over
  <2> QED BY <2>2, <2>3
<1>3. CASE RNextFile
  <2>1. Len(disk') = 0 /\ rres' = "none"
    BY <1>3 DEF RNextFile
  <2> QED BY <1>1, <2>1
<1>4. CASE ROver \/ RCloses
  BY <1>1, <1>4 DEF ROver, RCloses, RClose, rvars
<1> QED BY <1>2, <1>3, <1>4 DEF ReceiveSide

\* Whatever an earlier file left on the line, what the receiver writes to a
\* file and the end of file it believes were sent for that file: in any number
\* of files, with any damage, as long as none is sent a second time
\* (session.go:297-347, 356-373 over receiver.go:391-543).
THEOREM FilesStayApart ==
  ASSUME Streams PROVE Spec /\ []SentOnce => OwnFrames
<1>1. SInv /\ [Next]_vars =>
        [Len(disk') > Len(disk) \/ (rres = "none" /\ rres' = "ok")
           => Head(tags) = rfile]_vars
  <2> SUFFICES ASSUME SInv, Next,
                      Len(disk') > Len(disk) \/ (rres = "none" /\ rres' = "ok")
               PROVE  Head(tags) = rfile
    OBVIOUS
  <2>1. TypeOK /\ Len(disk) \in Nat
    BY DEF SInv, IInv, TypeOK, ReceiverTypeOK
  <2>2. Receiver
    <3>1. ASSUME UNCHANGED <<disk, rres>> PROVE FALSE
      BY <2>1, <3>1
    <3> QED BY <3>1 DEF Next, Sender, Line, HangUp, Done, vars, rvars
  <2>3. rpc \in Inside /\ toR # <<>>
    BY <2>1, <2>2, ReceiverGains DEF Receiver
  <2>4. 1 \in 1 .. Len(tags) /\ Head(tags) = tags[1]
    BY <2>1, <2>3 DEF TypeOK, LineTypeOK
  <2>5. Live
    BY <2>3 DEF SInv, IInv, Counted, Live, Over, Inside
  <2>6. tags[1] = sfile /\ rfile = sfile
    BY <2>3, <2>4, <2>5 DEF SInv, OneAtATime, Accounted, Taking
  <2> QED BY <2>4, <2>6
<1> QED BY <1>1, StaysApart, PTL DEF Spec, OwnFrames
================================================================================
