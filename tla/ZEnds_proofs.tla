---------------------------- MODULE ZEnds_proofs ----------------------------
(***************************************************************************)
(* What the proofs about every composition of ZSender and ZReceiver need:  *)
(* the operators of ZLine keep streams of frames, and every step of either *)
(* end keeps the types of its variables and of both streams.  A stream is  *)
(* only ever read from its front, damaged in place, and appended to.       *)
(***************************************************************************)
EXTENDS ZSender, ZReceiver, SequenceTheorems, TLAPS

\* Every frame the operators build is a Frame.
LEMMA FramesAreTyped ==
  /\ \A t \in FrameTypes, p \in Nat : Hdr(t, p) \in Frame
  /\ \A lo, n \in Nat, end \in FrameEnds : Data(lo, n, end) \in Frame
  /\ \A lo, n \in Nat : Part(lo, n) \in Frame
  /\ {Info, Nul, BadHdr, Eof} \subseteq Frame
  /\ \A n \in Nat : Zeros(n) \in Frame
<1>1. \A p \in Nat : p % PosMod \in Nat
  BY LineAssumption
<1> QED
  BY <1>1 DEF Hdr, Data, Part, Zeros, Frame

\* The bytes of a class in a block lie inside it.
LEMMA BlockRange ==
  ASSUME NEW e \in Frame, IsBlock(e)
  PROVE  e.lo \in Nat /\ e.n \in Nat
BY DEF Frame, IsBlock, Info, Nul, BadHdr, Eof

\* What a read leaves of the stream ch.
Consumed(ch, rest) ==
  \/ rest = ch
  \/ ch # <<>> /\ Head(ch).k # "eof" /\ rest = Tail(ch)
  \/ /\ ch # <<>> /\ Head(ch).k # "eof"
     /\ \E e \in Frame : e.k \in {"part", "zeros"} /\ rest = [ch EXCEPT ![1] = e]

\* What is left of a block is in the stream in its place.
LEMMA PartConsumes ==
  ASSUME NEW ch \in Seq(Frame), ch # <<>>, Head(ch).k # "eof",
         NEW lo \in Nat, NEW n \in Nat
  PROVE  Consumed(ch, [ch EXCEPT ![1] = Part(lo, n)])
<1>1. Part(lo, n) \in Frame /\ Part(lo, n).k = "part"
  BY FramesAreTyped DEF Part
<1> QED BY <1>1 DEF Consumed

\* A read that stops inside a block leaves the rest of it in the stream.
LEMMA StopsAtConsumes ==
  ASSUME NEW ch \in Seq(Frame), NEW rest, NEW c \in ByteClass,
         ch # <<>>, IsBlock(Head(ch)), StopsAt(c, ch, rest)
  PROVE  Consumed(ch, rest)
<1>1. Head(ch) \in Frame
  OBVIOUS
<1>2. Head(ch).lo \in Nat /\ Head(ch).n \in Nat
  BY <1>1, BlockRange
<1>3. PICK i \in Offsets(c, Head(ch).lo, Head(ch).n) :
        rest = [ch EXCEPT ![1] = Part(i + 1, Head(ch).lo + Head(ch).n - (i + 1))]
  BY DEF StopsAt
<1>4. i + 1 \in Nat /\ Head(ch).lo + Head(ch).n - (i + 1) \in Nat
  BY <1>2, <1>3 DEF Offsets
<1>5. Head(ch).k # "eof"
  BY DEF IsBlock
<1> QED
  BY <1>3, <1>4, <1>5, PartConsumes

\* A read that gives a frame up leaves a part of it in the stream.
LEMMA GivingUpConsumes ==
  ASSUME NEW ch \in Seq(Frame), NEW rest,
         ch # <<>>, Head(ch).k # "eof", GivesUp(ch, rest)
  PROVE  Consumed(ch, rest)
<1>1. \A n \in Nat : Zeros(n) \in Frame /\ Zeros(n).k = "zeros"
  BY FramesAreTyped DEF Zeros
<1>2. \A n \in 1 .. MaxZeros : n \in Nat
  BY LineAssumption
<1> QED
  BY <1>1, <1>2 DEF GivesUp, Consumed

\* Every read of getHeader and zrdata leaves the stream or a later part of it.
LEMMA ReadsConsume ==
  ASSUME NEW ch \in Seq(Frame), NEW rest
  PROVE  /\ \A types : Arrives(ch, types, rest) => Consumed(ch, rest)
         /\ \A g, g2 : Skips(ch, g, rest, g2) => Consumed(ch, rest)
         /\ \A g \in Nat : TimesOut(ch, g, rest) => Consumed(ch, rest)
         /\ \A g \in Nat : Fails(ch, g, rest) => Consumed(ch, rest)
         /\ \A kind \in {"data", "info"} : \A e :
              Reads(ch, kind, e, rest) => Consumed(ch, rest)
         /\ \A kind \in {"data", "info"} :
              ReadFails(ch, kind, rest) => Consumed(ch, rest)
<1>1. \A types : Arrives(ch, types, rest) => Consumed(ch, rest)
  BY DEF Arrives, Consumed
<1>2. \A g, g2 : Skips(ch, g, rest, g2) => Consumed(ch, rest)
  BY DEF Skips, Consumed, IsBlock
<1>3. \A g \in Nat : TimesOut(ch, g, rest) => Consumed(ch, rest)
  <2> SUFFICES ASSUME NEW g \in Nat, TimesOut(ch, g, rest) PROVE Consumed(ch, rest)
    OBVIOUS
  <2>1. CASE IsBlock(Head(ch)) /\ StopsAt("nul", ch, rest)
    BY <2>1, StopsAtConsumes DEF TimesOut, ByteClass
  <2>2. CASE Head(ch).k = "info" /\ GivesUp(ch, rest)
    BY <2>2, GivingUpConsumes DEF TimesOut
  <2>3. CASE Head(ch).k = "zeros" /\ Head(ch).n > 1 /\ rest = [ch EXCEPT ![1] = Zeros(Head(ch).n - 1)]
    <3>1. ch # <<>> /\ Head(ch) \in Frame
      BY DEF TimesOut
    <3>2. Head(ch).n \in Nat
      BY <2>3, <3>1 DEF Frame, Info, Nul, BadHdr, Eof
    <3>3. Head(ch).n - 1 \in Nat
      BY <2>3, <3>2
    <3>4. Zeros(Head(ch).n - 1) \in Frame /\ Zeros(Head(ch).n - 1).k = "zeros"
      BY <3>3, FramesAreTyped DEF Zeros
    <3> QED BY <2>3, <3>1, <3>4 DEF Consumed
  <2>4. CASE rest = ch \/ (Head(ch).k # "eof" /\ rest = Tail(ch))
    BY <2>4 DEF TimesOut, Consumed
  <2> QED BY <2>1, <2>2, <2>3, <2>4 DEF TimesOut
<1>4. \A g \in Nat : Fails(ch, g, rest) => Consumed(ch, rest)
  <2> SUFFICES ASSUME NEW g \in Nat, Fails(ch, g, rest) PROVE Consumed(ch, rest)
    OBVIOUS
  <2>1. CASE ch # <<>> /\ (Head(ch).k = "badhdr" \/ Unreadable(Head(ch))) /\ GivesUp(ch, rest)
    <3>1. Head(ch).k # "eof"
      BY <2>1 DEF Unreadable
    <3> QED BY <2>1, <3>1, GivingUpConsumes
  <2>2. CASE /\ ch # <<>> /\ IsBlock(Head(ch)) /\ Overflows(Head(ch), g)
             /\ rest = [ch EXCEPT ![1] = Part(Head(ch).lo + (MaxGarbage - g),
                                             Head(ch).n - (MaxGarbage - g))]
    <3>1. Head(ch) \in Frame /\ MaxGarbage \in Nat
      BY <2>2, LineAssumption
    <3>2. Head(ch).lo \in Nat /\ Head(ch).n \in Nat
      BY <2>2, <3>1, BlockRange
    <3>3. Head(ch).lo + (MaxGarbage - g) \in Nat /\ Head(ch).n - (MaxGarbage - g) \in Nat
      BY <2>2, <3>1, <3>2 DEF Overflows
    <3> QED BY <2>2, <3>3, PartConsumes DEF IsBlock
  <2>3. CASE rest = ch
    BY <2>3 DEF Consumed
  <2> QED BY <2>1, <2>2, <2>3 DEF Fails
<1>5. \A kind \in {"data", "info"} : \A e :
              Reads(ch, kind, e, rest) => Consumed(ch, rest)
  BY DEF Reads, Consumed
<1>6. \A kind \in {"data", "info"} :
              ReadFails(ch, kind, rest) => Consumed(ch, rest)
  <2> SUFFICES ASSUME NEW kind \in {"data", "info"}, ReadFails(ch, kind, rest)
               PROVE  Consumed(ch, rest)
    OBVIOUS
  <2>1. CASE ch # <<>> /\ Head(ch).k = "data" /\ StopsAt("esc", ch, rest)
    BY <2>1, StopsAtConsumes DEF ByteClass, IsBlock
  <2>2. CASE ch # <<>> /\ Head(ch).k # "eof" /\ GivesUp(ch, rest)
    BY <2>2, GivingUpConsumes
  <2>3. CASE rest = ch
    BY <2>3 DEF Consumed
  <2> QED BY <2>1, <2>2, <2>3 DEF ReadFails
<1> QED BY <1>1, <1>2, <1>3, <1>4, <1>5, <1>6

\* Reading leaves a stream of frames.
LEMMA ConsumedType ==
  ASSUME NEW ch \in Seq(Frame), NEW rest, Consumed(ch, rest)
  PROVE  rest \in Seq(Frame)
<1>1. CASE rest = ch
  BY <1>1
<1>3. CASE ch # <<>> /\ rest = Tail(ch)
  BY <1>3
<1>2. CASE ch # <<>> /\ \E e \in Frame : rest = [ch EXCEPT ![1] = e]
  <2>1. PICK e \in Frame : rest = [ch EXCEPT ![1] = e]
    BY <1>2
  <2> QED BY <1>2, <2>1, ExceptSeq
<1> QED BY <1>1, <1>2, <1>3 DEF Consumed

\* What a write does to the stream ch.
LEMMA WrittenType ==
  ASSUME NEW ch \in Seq(Frame), NEW back, NEW es \in Seq(Frame), NEW ch2,
         Written(ch, back, es, ch2)
  PROVE  /\ ch2 \in Seq(Frame)
         /\ \/ Closed(back) /\ ch2 = ch
            \/ /\ ~Closed(back)
               /\ Len(ch2) = Len(ch) + Len(es)
               /\ \A i \in 1 .. Len(ch) : ch2[i] = ch[i]
               /\ \A i \in 1 .. Len(es) : ch2[Len(ch) + i] = es[i]
<1>1. CASE Closed(back) /\ ch2 = ch
  BY <1>1
<1>2. CASE ~Closed(back) /\ ch2 = ch \o es
  <2>1. /\ ch2 \in Seq(Frame)
        /\ Len(ch2) = Len(ch) + Len(es)
        /\ \A i \in 1 .. Len(ch) + Len(es) :
              ch2[i] = IF i <= Len(ch) THEN ch[i] ELSE es[i - Len(ch)]
    BY <1>2, ConcatProperties
  <2>2. Len(ch) \in Nat /\ Len(es) \in Nat
    OBVIOUS
  <2>3. \A i \in 1 .. Len(ch) : ch2[i] = ch[i]
    BY <2>1, <2>2
  <2>4. ASSUME NEW i \in 1 .. Len(es) PROVE ch2[Len(ch) + i] = es[i]
    BY <2>1, <2>2
  <2> QED BY <1>2, <2>1, <2>3, <2>4
<1> QED BY <1>1, <1>2 DEF Written

\* One or two frames make a sequence of frames.
LEMMA ShortSeqs ==
  /\ \A e \in Frame : <<e>> \in Seq(Frame)
  /\ \A e, f \in Frame : <<e, f>> \in Seq(Frame)
OBVIOUS

\* The position of a header that arrived is a number.
LEMMA ReceivedPosition ==
  ASSUME NEW ch \in Seq(Frame), NEW types, NEW rest, Arrives(ch, types, rest)
  PROVE  Head(ch).p \in Nat
<1>1. Head(ch) \in Frame
  BY DEF Arrives
<1> QED
  BY <1>1 DEF Arrives, Frame, Info, Nul, BadHdr, Eof

\* The constants the sender computes with are numbers.
LEMMA SenderConstants ==
  /\ BlockSize \in Nat \ {0} /\ MaxBlockSize \in Nat \ {0}
  /\ MinBuflen \in Nat \ {0} /\ WindowSize \in Nat
  /\ InitTries \in Nat /\ MaxZrqinits \in Nat /\ MaxSinitErrors \in Nat
  /\ MaxFileErrors \in Nat /\ ForceW \in Nat /\ MaxWErrors \in Nat
  /\ MaxQErrors \in Nat /\ WinTries \in Nat
BY SenderAssumption DEF SenderAssumption

\* A block has between 0 and sblk bytes, and stays inside the file.
LEMMA ReadLenType ==
  ASSUME SenderTypeOK
  PROVE  /\ ReadLen \in Nat
         /\ fpos <= Len(File) => fpos + ReadLen <= Len(File)
         /\ fpos <= Len(File) => (ReadLen = 0 <=> fpos = Len(File))
<1>1. Len(File) \in Nat
  BY LineAssumption
<1> QED
  BY <1>1 DEF ReadLen, SenderTypeOK

\* The sender's reads and writes keep both streams well-typed.
LEMMA SenderLineType ==
  ASSUME LineTypeOK, SenderTypeOK, SNext
  PROVE  toR' \in Seq(Frame) /\ toS' \in Seq(Frame)
<1> USE DEF LineTypeOK
<1>1. ASSUME NEW es \in Seq(Frame), SWrites(es) PROVE toR' \in Seq(Frame)
  BY <1>1, WrittenType DEF SWrites
<1>2. ASSUME NEW types, SReceives(types) PROVE toS' \in Seq(Frame) /\ rxpos \in Nat
  BY <1>2, ReadsConsume, ConsumedType, ReceivedPosition DEF SReceives, rxpos
<1>3. STimeout \/ SError => toS' \in Seq(Frame)
  BY ReadsConsume, ConsumedType DEF STimeout, SError, SenderTypeOK
<1>4. \A t \in FrameTypes, p \in Nat : <<Hdr(t, p)>> \in Seq(Frame)
  BY FramesAreTyped, ShortSeqs
<1>5. CASE SSkipGarbage
  BY <1>5, ReadsConsume, ConsumedType DEF SSkipGarbage, SQuiet
<1>6. CASE SInitTop
  BY <1>6, <1>1, <1>4 DEF SInitTop, SQuiet, FrameTypes
<1>7. CASE SInitZRINIT
  BY <1>7, <1>2 DEF SInitZRINIT, SQuiet
<1>8. CASE SInitOther
  BY <1>8, <1>1, <1>2, <1>4 DEF SInitOther, SQuiet, FrameTypes
<1>9. CASE SInitNoHeader
  BY <1>9, <1>3 DEF SInitNoHeader, SQuiet
<1>10. CASE SZsinitTop
  <2>1. <<Hdr("ZSINIT", 0), IF EscapesCtrl THEN Part(0, 0) ELSE Info>> \in Seq(Frame)
    BY FramesAreTyped, ShortSeqs DEF FrameTypes
  <2> QED BY <1>10, <1>1, <2>1 DEF SZsinitTop
<1>11. CASE SZsinitReply
  BY <1>11, <1>2, <1>3 DEF SZsinitReply, SQuiet
<1>12. CASE SFileTop
  <2>1. <<Hdr("ZFILE", 0), Info>> \in Seq(Frame)
    BY FramesAreTyped, ShortSeqs DEF FrameTypes
  <2> QED BY <1>12, <1>1, <2>1 DEF SFileTop
<1>13. CASE SFileReply
  BY <1>13, <1>2, <1>3 DEF SFileReply, SQuiet
<1>14. CASE SDiscard
  <2>1. toR' = toR /\ (toS' = toS \/ (toS # <<>> /\ toS' = Tail(toS)))
    BY <1>14 DEF SDiscard, SQuiet
  <2> QED BY <2>1
<1>15. CASE SFileCRC
  BY <1>15, <1>1, <1>2, <1>4 DEF SFileCRC, FrameTypes
<1>16. CASE SFileZRPOS
  BY <1>16, <1>1, <1>2, <1>4 DEF SFileZRPOS, StartData, FrameTypes
<1>17. CASE SBlock
  <2>1. <<Data(fpos, ReadLen, FrameEnd(ReadLen))>> \in Seq(Frame)
    <3>1. FrameEnd(ReadLen) \in FrameEnds
      BY DEF FrameEnd, FrameEnds
    <3> QED BY <3>1, ReadLenType, FramesAreTyped, ShortSeqs DEF SenderTypeOK
  <2> QED BY <1>17, <1>1, <2>1 DEF SBlock
<1>18. CASE SCancelled \/ SWriteFails \/ SClose
  BY <1>18, FramesAreTyped DEF SCancelled, SWriteFails, SClose, SQuiet
<1>19. CASE SAckW
  BY <1>19, <1>2, <1>3 DEF SAckW, SQuiet
<1>20. CASE SAckWSeek
  BY <1>20, <1>1, <1>2, <1>4 DEF SAckWSeek, FrameTypes
<1>21. CASE SAckQ
  BY <1>21, <1>2, <1>3 DEF SAckQ, SQuiet
<1>22. CASE SWinWait
  BY <1>22, <1>2, <1>3 DEF SWinWait, SQuiet
<1>23. CASE SEofTop
  BY <1>23, <1>1, <1>4 DEF SEofTop, FrameTypes, SenderTypeOK
<1>24. CASE SEofReply
  BY <1>24, <1>2, <1>3 DEF SEofReply, SQuiet
<1>25. CASE SEofZRPOS
  BY <1>25, <1>1, <1>2, <1>4 DEF SEofZRPOS, StartData, FrameTypes
<1> QED
  BY <1>5, <1>6, <1>7, <1>8, <1>9, <1>10, <1>11, <1>12, <1>13, <1>14, <1>15,
     <1>16, <1>17, <1>18, <1>19, <1>20, <1>21, <1>22, <1>23, <1>24, <1>25
  DEF SNext, SCall

\* The sender's own variables stay well-typed.
LEMMA SenderVarsType ==
  ASSUME LineTypeOK, SenderTypeOK, SNext
  PROVE  SenderTypeOK'
<1> USE DEF LineTypeOK, SenderTypeOK
<1> USE SenderConstants, LineAssumption DEF LineAssumption
<1>1. ASSUME NEW types, SReceives(types) PROVE rxpos \in Nat /\ sgarb' \in Nat
  BY <1>1, ReceivedPosition DEF SReceives, rxpos
<1>2. STimeout \/ SError => sgarb' \in Nat
  BY DEF STimeout, SError
<1>3. ASSUME NEW pc \in SPcs, SGo(pc) PROVE spc' \in SPcs /\ sres' \in Results
  BY <1>3 DEF SGo
<1>4. ASSUME NEW r \in Results, SReturn(r) PROVE spc' \in SPcs /\ sres' \in Results
  BY <1>4 DEF SReturn, SPcs
<1>5. ASSUME NEW max, NEW pc \in SPcs, SRetry(max, pc)
      PROVE  spc' \in SPcs /\ sres' \in Results /\ stry' \in Nat
  BY <1>5, <1>3, <1>4 DEF SRetry, Results
<1>6. ASSUME NEW pos, NEW last, NEW n, SWindow(pos, last, n)
      PROVE  spc' \in SPcs /\ sres' \in Results /\ stry' \in Nat
  BY <1>6 DEF SWindow, SGo, SPcs, SWaits
<1>7. ASSUME NEW p \in Nat, NEW b, StartData(p, b)
      PROVE  /\ spc' \in SPcs /\ sres' \in Results
             /\ fpos' \in Nat /\ spos' \in Nat /\ slast' \in Nat
             /\ sjunk' \in Nat /\ scnt' \in Nat /\ slen' \in Nat
  <2>1. spc' \in SPcs /\ sres' \in Results
    BY <1>7 DEF StartData, SGo, SPcs
  <2>2. slast' \in Nat
    BY <1>7 DEF StartData
  <2> QED BY <1>7, <2>1, <2>2 DEF StartData
<1>8. CASE SSkipGarbage
  <2>1. sgarb' \in Nat
    <3>1. Head(toS) \in Frame
      BY <1>8 DEF SSkipGarbage, Skips
    <3>2. Head(toS).n \in Nat
      BY <1>8, <3>1, BlockRange DEF SSkipGarbage, Skips
    <3>3. sgarb' = sgarb + Head(toS).n
      BY <1>8 DEF SSkipGarbage, Skips
    <3> QED BY <3>2, <3>3
  <2> QED BY <1>8, <2>1 DEF SSkipGarbage, negotiated, progress
<1>9. CASE SInitTop
  <2>1. spc' \in SPcs /\ sres' \in Results
    BY <1>9 DEF SInitTop, SReturn, SGo, SPcs, SWaits, Results
  <2>2. szrq' \in Nat
    BY <1>9 DEF SInitTop
  <2> QED BY <1>9, <2>1, <2>2 DEF SInitTop, progress
<1>10. CASE SInitZRINIT
  <2>1. rxpos \in Nat /\ sgarb' \in Nat
    BY <1>10, <1>1 DEF SInitZRINIT
  <2>2. sblk' \in Nat \ {0} /\ swin' \in Nat
    <3>1. Buflen(rxpos) \in Nat \ {0}
      BY <2>1 DEF Buflen
    <3> QED BY <1>10, <3>1 DEF SInitZRINIT
  <2> QED BY <1>10, <2>1, <2>2 DEF SInitZRINIT, SGo, SPcs, progress
<1>11. CASE SInitOther
  <2>1. sgarb' \in Nat
    BY <1>11, <1>1 DEF SInitOther
  <2>2. spc' \in SPcs /\ sres' \in Results /\ stry' \in Nat
    BY <1>11, <1>4 DEF SInitOther, SInitAgain, SGo, SPcs, Results
  <2> QED BY <1>11, <2>1, <2>2 DEF SInitOther, negotiated, progress
<1>12. CASE SInitNoHeader
  BY <1>12, <1>2, <1>4 DEF SInitNoHeader, SInitAgain, SGo, SPcs, Results, negotiated, progress
<1>13. CASE SZsinitTop \/ SFileTop \/ SEofTop
  BY <1>13 DEF SZsinitTop, SFileTop, SEofTop, SGo, SPcs, SWaits, negotiated, progress
<1>14. CASE SZsinitReply
  BY <1>14, <1>1, <1>2, <1>3, <1>4, <1>5
     DEF SZsinitReply, SPcs, Results, negotiated, progress
<1>15. CASE SFileReply
  BY <1>15, <1>1, <1>2, <1>3, <1>4, <1>5
     DEF SFileReply, SPcs, Results, negotiated, progress
<1>16. CASE SDiscard
  BY <1>16 DEF SDiscard, SPcs, negotiated, progress
<1>17. CASE SFileCRC
  BY <1>17, <1>1 DEF SFileCRC, SGo, SPcs, negotiated
<1>18. CASE SFileZRPOS
  BY <1>18, <1>1, <1>7 DEF SFileZRPOS, negotiated
<1>19. CASE SEofZRPOS
  BY <1>19, <1>1, <1>7 DEF SEofZRPOS, negotiated
<1>20. CASE SBlock
  <2>1. ReadLen \in Nat
    BY ReadLenType
  <2>2. spc' \in SPcs /\ sres' \in Results /\ stry' \in Nat
    BY <1>20, <1>6 DEF SBlock, SGo, SPcs, SWaits
  <2>3. /\ fpos' = fpos + ReadLen /\ spos' = spos + ReadLen /\ slen' = ReadLen
        /\ scnt' = (IF FrameEnd(ReadLen) = "ZCRCQ" THEN 0 ELSE scnt) + ReadLen
        /\ UNCHANGED <<sgarb, negotiated, slast, sjunk>>
    BY <1>20 DEF SBlock
  <2>4. scnt' \in Nat
    BY <2>1, <2>3
  <2>5. fpos' \in Nat /\ spos' \in Nat /\ slen' \in Nat
    BY <2>1, <2>3
  <2> QED BY <2>2, <2>3, <2>4, <2>5 DEF negotiated
<1>21. CASE SCancelled \/ SWriteFails \/ SClose
  BY <1>21 DEF SCancelled, SWriteFails, SClose, SReturn, SPcs, Results, negotiated, progress
<1>22. CASE SAckW
  <2>1. sgarb' \in Nat
    BY <1>22, <1>1, <1>2 DEF SAckW
  <2>2. (spos - slen) % PosMod \in Nat
    OBVIOUS
  <2>3. slast' \in Nat /\ sjunk' \in Nat
    <3>1. CASE SReceives({"ZACK"}) /\ slast' = rxpos /\ sjunk' = 0
      BY <3>1, <1>1
    <3>2. CASE UNCHANGED <<slast, sjunk>>
      BY <3>2
    <3>3. CASE Junk(MaxWErrors, SWindow(spos, slast, slen) /\ UNCHANGED slast)
      BY <3>3 DEF Junk
    <3>4. CASE Junk(MaxWErrors, SGo("data") /\ UNCHANGED stry
                                  /\ slast' = (spos - slen) % PosMod)
      BY <3>4, <2>2 DEF Junk
    <3> QED BY <1>22, <3>1, <3>2, <3>3, <3>4 DEF SAckW
  <2>4. spc' \in SPcs /\ sres' \in Results /\ stry' \in Nat
    BY <1>22, <1>4, <1>6 DEF SAckW, Junk, SGo, SPcs, Results
  <2> QED BY <1>22, <2>1, <2>3, <2>4 DEF SAckW, negotiated
<1>23. CASE SAckWSeek
  BY <1>23, <1>1 DEF SAckWSeek, SGo, SPcs, negotiated
<1>24. CASE SAckQ
  <2>1. sgarb' \in Nat
    BY <1>24, <1>1, <1>2 DEF SAckQ
  <2>3. slast' \in Nat /\ sjunk' \in Nat
    <3>1. CASE SReceives({"ZACK"}) /\ slast' = rxpos /\ sjunk' = 0
      BY <3>1, <1>1
    <3>2. CASE UNCHANGED <<slast, sjunk>>
      BY <3>2
    <3>3. CASE Junk(MaxQErrors, SWindow(spos, slast, slen) /\ UNCHANGED slast)
      BY <3>3 DEF Junk
    <3> QED BY <1>24, <3>1, <3>2, <3>3 DEF SAckQ
  <2>4. spc' \in SPcs /\ sres' \in Results /\ stry' \in Nat
    BY <1>24, <1>4, <1>6 DEF SAckQ, Junk, Results
  <2> QED BY <1>24, <2>1, <2>3, <2>4 DEF SAckQ, negotiated
<1>25. CASE SWinWait
  BY <1>25, <1>1, <1>2, <1>3, <1>4, <1>5
     DEF SWinWait, SPcs, SWaits, Results, negotiated
<1>26. CASE SEofReply
  BY <1>26, <1>1, <1>2, <1>4 DEF SEofReply, Results, negotiated, progress
<1> QED
  BY <1>8, <1>9, <1>10, <1>11, <1>12, <1>13, <1>14, <1>15, <1>16, <1>17, <1>18,
     <1>19, <1>20, <1>21, <1>22, <1>23, <1>24, <1>25, <1>26
  DEF SNext, SCall

\* The constants the receiver computes with are numbers.
LEMMA ReceiverConstants ==
  /\ BufferSize \in Nat \ {0} /\ RAttn \in BOOLEAN
  /\ MaxTries \in Nat /\ MaxZrqinitsSeen \in Nat /\ MaxInfoErrors \in Nat
  /\ FinTries \in Nat /\ MaxRxErrors \in Nat
BY ReceiverAssumption DEF ReceiverAssumption

\* A block that is too long for the buffer leaves what is behind it.
LEMMA StopsBehindConsumes ==
  ASSUME toR \in Seq(Frame), toR # <<>>, TooLong(Head(toR)), StopsBehindBuffer
  PROVE  Consumed(toR, toR')
<1>1. Head(toR) \in Frame /\ IsBlock(Head(toR)) /\ Head(toR).k # "eof"
  BY DEF TooLong, IsBlock
<1>2. Head(toR).lo \in Nat /\ Head(toR).n \in Nat
  BY <1>1, BlockRange
<1>3. /\ Head(toR).lo + (BufferSize + 1) \in Nat
      /\ Head(toR).n - (BufferSize + 1) \in Nat
  BY <1>2, ReceiverConstants DEF TooLong
<1> QED BY <1>1, <1>3, PartConsumes DEF StopsBehindBuffer

\* The receiver's reads and writes keep both streams well-typed.
LEMMA ReceiverLineType ==
  ASSUME LineTypeOK, ReceiverTypeOK, RNext
  PROVE  toR' \in Seq(Frame) /\ toS' \in Seq(Frame)
<1> USE DEF LineTypeOK
<1>1. ASSUME NEW es \in Seq(Frame), RWrites(es) PROVE toS' \in Seq(Frame)
  BY <1>1, WrittenType DEF RWrites
<1>2. ASSUME NEW types, RReceives(types) PROVE toR' \in Seq(Frame)
  BY <1>2, ReadsConsume, ConsumedType DEF RReceives
<1>3. RTimeout \/ RError => toR' \in Seq(Frame)
  BY ReadsConsume, ConsumedType DEF RTimeout, RError, ReceiverTypeOK
<1>4. \A t \in FrameTypes, p \in Nat : <<Hdr(t, p)>> \in Seq(Frame)
  BY FramesAreTyped, ShortSeqs
<1>5. \A kind \in {"data", "info"} : \A e :
        Reads(toR, kind, e, toR') \/ ReadFails(toR, kind, toR')
          => toR' \in Seq(Frame)
  BY ReadsConsume, ConsumedType
<1>6. RAttention => toS' \in Seq(Frame)
  BY <1>1, FramesAreTyped, ShortSeqs DEF RAttention, RQuiet
<1>7. CASE RSkipGarbage
  BY <1>7, ReadsConsume, ConsumedType DEF RSkipGarbage, RQuiet
<1>8. CASE RTry
  BY <1>8, <1>1, <1>4 DEF RTry, RQuiet, FrameTypes
<1>9. CASE RTryReply
  <2>1. PosMod - 1 \in Nat
    BY LineAssumption
  <2>2. toR' \in Seq(Frame)
    BY <1>9, <1>2, <1>3 DEF RTryReply
  <2>3. toS' \in Seq(Frame)
    BY <1>9, <2>1, <1>1, <1>4 DEF RTryReply, RQuiet, FrameTypes
  <2> QED BY <2>2, <2>3
<1>10. CASE RInfo
  <2>1. toR' \in Seq(Frame)
    BY <1>10, <1>5 DEF RInfo
  <2>2. toS' \in Seq(Frame)
    BY <1>10, <1>1, <1>4 DEF RInfo, RQuiet, FrameTypes
  <2> QED BY <2>1, <2>2
<1>11. CASE RInfoFails
  BY <1>11, <1>1, <1>4, <1>5 DEF RInfoFails, FrameTypes
<1>12. CASE RFinWait
  BY <1>12, <1>2, <1>3 DEF RFinWait, RQuiet
<1>13. CASE RPrompt
  BY <1>13, <1>1, <1>4 DEF RPrompt, RQuiet, FrameTypes
<1>14. CASE RZrpos
  BY <1>14, <1>1, <1>4 DEF RZrpos, FrameTypes, ReceiverTypeOK
<1>15. CASE RDataReply
  <2>1. toR' \in Seq(Frame)
    BY <1>15, <1>2, <1>3 DEF RDataReply, InPlace
  <2>2. toS' \in Seq(Frame)
    BY <1>15, <1>1, <1>4, <1>6 DEF RDataReply, InPlace, RQuiet, FrameTypes, ReceiverTypeOK
  <2> QED BY <2>1, <2>2
<1>16. CASE RDiscard
  BY <1>16, <1>5 DEF RDiscard, RQuiet
<1>17. CASE RBlock
  <2>1. toR' \in Seq(Frame)
    BY <1>17, <1>5 DEF RBlock
  <2>2. rpos + Head(toR).n \in Nat
    <3>1. Head(toR) \in Frame /\ IsBlock(Head(toR))
      BY <1>17 DEF RBlock, Reads, IsBlock
    <3> QED BY <3>1, BlockRange DEF ReceiverTypeOK
  <2>3. toS' \in Seq(Frame)
    BY <1>17, <2>2, <1>1, <1>4 DEF RBlock, RQuiet, FrameTypes
  <2> QED BY <2>1, <2>3
<1>18. CASE RBlockFails
  <2>1. ASSUME toR # <<>>, TooLong(Head(toR)), StopsBehindBuffer
        PROVE  toR' \in Seq(Frame)
    BY <2>1, StopsBehindConsumes, ConsumedType
  <2> QED BY <1>18, <1>5, <1>6, <2>1 DEF RBlockFails
<1>19. CASE RWriteFails \/ RClose
  BY <1>19, FramesAreTyped DEF RWriteFails, RClose, RQuiet
<1> QED
  BY <1>7, <1>8, <1>9, <1>10, <1>11, <1>12, <1>13, <1>14, <1>15, <1>16, <1>17,
     <1>18, <1>19
  DEF RNext, RCall

\* What a data subpacket adds to the file on disk, as a sequence.
LEMMA WrittenBytes ==
  ASSUME NEW lo \in Nat, NEW n \in Nat
  PROVE  /\ [i \in 1 .. n |-> lo + i - 1] \in Seq(Nat)
         /\ Len([i \in 1 .. n |-> lo + i - 1]) = n
OBVIOUS

\* The receiver's own variables stay well-typed.
LEMMA ReceiverVarsType ==
  ASSUME LineTypeOK, ReceiverTypeOK, RNext
  PROVE  ReceiverTypeOK'
<1> USE DEF LineTypeOK, ReceiverTypeOK
<1> USE ReceiverConstants
<1>1. \A types : RReceives(types) => rgarb' \in Nat
  BY DEF RReceives
<1>2. RTimeout \/ RError => rgarb' \in Nat
  BY DEF RTimeout, RError
<1>3. ASSUME NEW pc \in RPcs, RGo(pc) PROVE rpc' \in RPcs /\ rres' \in RResults
  BY <1>3 DEF RGo
<1>4. ASSUME NEW r \in RResults, RReturn(r) PROVE rpc' \in RPcs /\ rres' \in RResults
  BY <1>4 DEF RReturn, RPcs
<1>5. RRetry => rpc' \in RPcs /\ rres' \in RResults /\ rerr' \in Nat
  BY <1>3, <1>4 DEF RRetry, RPcs, RResults
<1>6. RAgain => rpc' \in RPcs /\ rres' \in RResults /\ rtry' \in Nat
  BY <1>3 DEF RAgain, RPcs
<1>7. \A pc \in RPcs : RPass(pc) => rpc' \in RPcs /\ rres' \in RResults /\ rtry' \in Nat
  BY <1>3 DEF RPass
<1>8. CASE RSkipGarbage
  <2>1. Head(toR) \in Frame /\ IsBlock(Head(toR)) /\ rgarb' = rgarb + Head(toR).n
    BY <1>8 DEF RSkipGarbage, Skips
  <2>2. rgarb' \in Nat
    BY <2>1, BlockRange
  <2> QED BY <1>8, <2>2 DEF RSkipGarbage
<1>9. CASE RTry
  BY <1>9, <1>3, <1>4 DEF RTry, RPcs, RWaits, RResults
<1>10. CASE RTryReply
  <2>1. rgarb' \in Nat /\ rzrq' \in Nat
    BY <1>10, <1>1, <1>2 DEF RTryReply
  <2>2. rpc' \in RPcs /\ rres' \in RResults /\ rtry' \in Nat
    BY <1>10, <1>4, <1>6, <1>7 DEF RTryReply, RPcs, RResults
  <2> QED BY <1>10, <2>1, <2>2 DEF RTryReply
<1>11. CASE RInfo
  <2>1. rpc' \in RPcs /\ rres' \in RResults /\ rtry' \in Nat
    BY <1>11, <1>6, <1>7 DEF RInfo, RPcs, RWaits
  <2>2. rerr' \in Nat
    BY <1>11 DEF RInfo
  <2>3. rattn' = TRUE \/ rattn' = rattn
    BY <1>11 DEF RInfo
  <2>4. rattn' \in BOOLEAN
    BY <2>3, Zenon
  <2> QED BY <1>11, <2>1, <2>2, <2>4 DEF RInfo
<1>12. CASE RInfoFails
  <2>1. rpc' \in RPcs /\ rres' \in RResults /\ rtry' \in Nat /\ rerr' \in Nat
    BY <1>12, <1>4, <1>6 DEF RInfoFails, RResults
  <2> QED BY <1>12, <2>1 DEF RInfoFails
<1>13. CASE RFinWait
  BY <1>13, <1>1, <1>2, <1>3, <1>4 DEF RFinWait, RPcs, RWaits, RResults
<1>14. CASE RPrompt
  BY <1>14, <1>4, <1>7 DEF RPrompt, RPcs, RResults
<1>15. CASE RZrpos
  BY <1>15, <1>3 DEF RZrpos, RPcs, RWaits
<1>16. CASE RDataReply
  <2>1. rgarb' \in Nat
    BY <1>16, <1>1, <1>2 DEF RDataReply, InPlace
  <2>2. rpc' \in RPcs /\ rres' \in RResults /\ rerr' \in Nat
    BY <1>16, <1>3, <1>4, <1>5 DEF RDataReply, InPlace, RPcs, RResults
  <2> QED BY <1>16, <2>1, <2>2 DEF RDataReply, InPlace
<1>17. CASE RDiscard
  BY <1>17, <1>3 DEF RDiscard, RPcs
<1>18. CASE RBlock
  <2>1. Head(toR).lo \in Nat /\ Head(toR).n \in Nat
    <3>1. Head(toR) \in Frame /\ IsBlock(Head(toR))
      BY <1>18 DEF RBlock, Reads, IsBlock
    <3> QED BY <3>1, BlockRange
  <2>2. rpos' \in Nat /\ rerr' \in Nat
    BY <1>18, <2>1 DEF RBlock
  <2>3. rpc' \in RPcs /\ rres' \in RResults
    BY <1>18, <1>3, <1>4 DEF RBlock, RPcs, RResults
  <2>4. disk' \in Seq(Nat)
    <3>1. CASE disk' = disk
      BY <3>1
    <3>2. CASE disk' = disk \o [i \in 1 .. Head(toR).n |-> Head(toR).lo + i - 1]
      BY <3>2, <2>1, WrittenBytes, ConcatProperties
    <3> QED BY <1>18, <3>1, <3>2 DEF RBlock
  <2> QED BY <1>18, <2>2, <2>3, <2>4 DEF RBlock
<1>19. CASE RBlockFails
  BY <1>19, <1>5 DEF RBlockFails
<1>20. CASE RWriteFails \/ RClose
  BY <1>20, <1>4 DEF RWriteFails, RClose, RPcs, RResults
<1> QED
  BY <1>8, <1>9, <1>10, <1>11, <1>12, <1>13, <1>14, <1>15, <1>16, <1>17, <1>18,
     <1>19, <1>20
  DEF RNext, RCall

\* What Garble does to a stream: nothing, or one frame becomes a damaged one,
\* which is neither a header nor an intact subpacket.
Spoilt(ch, ch2) ==
  \/ ch2 = ch
  \/ \E i \in 1 .. Len(ch) : \E d \in Frame :
        /\ ch[i].k # "eof" /\ d.k \notin {"hdr", "data", "eof"}
        /\ ch2 = [ch EXCEPT ![i] = d]

\* A damaged stream is a stream of frames.
LEMMA SpoiltType ==
  ASSUME NEW ch \in Seq(Frame), NEW ch2, Spoilt(ch, ch2)
  PROVE  ch2 \in Seq(Frame)
<1>1. CASE ch2 = ch
  BY <1>1
<1>2. ASSUME NEW i \in 1 .. Len(ch), NEW d \in Frame, ch2 = [ch EXCEPT ![i] = d]
      PROVE  ch2 \in Seq(Frame)
  BY <1>2, ExceptSeq
<1> QED BY <1>1, <1>2 DEF Spoilt

\* Damage leaves a frame that is neither a header nor a subpacket.
LEMMA GarbleSpoils ==
  ASSUME LineTypeOK, Garble
  PROVE  Spoilt(toR, toR') /\ Spoilt(toS, toS') /\ faults' \in 0 .. MaxFaults
<1>1. ASSUME NEW e \in Frame, NEW d \in Damaged(e)
      PROVE  e.k # "eof" /\ d \in Frame /\ d.k \notin {"hdr", "data", "eof"}
  <2>1. CASE e.k = "hdr" \/ e.k = "info"
    <3>1. \A n \in 1 .. MaxZeros : Zeros(n) \in Frame
      BY LineAssumption, FramesAreTyped
    <3> QED BY <1>1, <2>1, <3>1, FramesAreTyped DEF Damaged, BadHdr, Zeros, Part
  <2>2. CASE e.k = "data"
    <3>1. e.lo \in Nat /\ e.n \in Nat
      BY <2>2, BlockRange DEF IsBlock
    <3>2. d = Part(e.lo, e.n)
      BY <1>1, <2>2 DEF Damaged
    <3> QED BY <3>1, <3>2, <2>2, FramesAreTyped DEF Part
  <2> QED BY <1>1, <2>1, <2>2 DEF Damaged
<1>2. \A i \in 1 .. Len(toR) : toR[i] \in Frame
  BY DEF LineTypeOK
<1>3. \A i \in 1 .. Len(toS) : toS[i] \in Frame
  BY DEF LineTypeOK
<1>4. Spoilt(toR, toR')
  BY <1>1, <1>2 DEF Garble, Spoilt
<1>5. Spoilt(toS, toS')
  BY <1>1, <1>3 DEF Garble, Spoilt
<1>6. faults' \in 0 .. MaxFaults
  BY LineAssumption DEF Garble, LineTypeOK
<1> QED BY <1>4, <1>5, <1>6

-----------------------------------------------------------------------------
\* Reading and damage: what is left of a stream.

\* ch2 is ch without its first d frames, where some others may have become
\* frames that are neither a header nor a subpacket nor the end.
Thinned(ch, ch2, d) ==
  /\ Len(ch2) = Len(ch) - d
  /\ d = 1 => ch[1].k # "eof"
  /\ \A i \in 1 .. Len(ch2) :
       \/ ch2[i] = ch[i + d]
       \/ ch[i + d].k # "eof" /\ ch2[i].k \notin {"hdr", "data", "eof"}

\* Every read thins the stream by at most one frame.
LEMMA ReadingThins ==
  ASSUME NEW ch \in Seq(Frame), NEW rest, Consumed(ch, rest)
  PROVE  \E d \in {0, 1} : Thinned(ch, rest, d)
<1>1. CASE rest = ch
  <2>1. Thinned(ch, rest, 0)
    BY <1>1 DEF Thinned
  <2> QED BY <2>1
<1>2. CASE ch # <<>> /\ Head(ch).k # "eof" /\ rest = Tail(ch)
  <2>1. Len(rest) = Len(ch) - 1 /\ Head(ch) = ch[1]
    BY <1>2
  <2>2. \A i \in 1 .. Len(rest) : rest[i] = ch[i + 1]
    BY <1>2, <2>1
  <2>3. Thinned(ch, rest, 1)
    BY <1>2, <2>1, <2>2 DEF Thinned
  <2> QED BY <2>3
<1>3. CASE /\ ch # <<>> /\ Head(ch).k # "eof"
           /\ \E e \in Frame : e.k \in {"part", "zeros"} /\ rest = [ch EXCEPT ![1] = e]
  <2>1. PICK e \in Frame : e.k \in {"part", "zeros"} /\ rest = [ch EXCEPT ![1] = e]
    BY <1>3
  <2>2. 1 \in 1 .. Len(ch) /\ Head(ch) = ch[1]
    BY <1>3
  <2>4. Len(rest) = Len(ch) /\ rest[1] = e
        /\ \A i \in 1 .. Len(ch) : i # 1 => rest[i] = ch[i]
    BY <2>1, <2>2, ExceptSeq
  <2>5. ch[1].k # "eof" /\ rest[1].k \notin {"hdr", "data", "eof"}
    BY <1>3, <2>1, <2>2, <2>4
  <2>6. Thinned(ch, rest, 0)
    BY <2>4, <2>5 DEF Thinned
  <2> QED BY <2>6
<1> QED BY <1>1, <1>2, <1>3 DEF Consumed

\* Damage thins the stream by none.
LEMMA DamageThins ==
  ASSUME NEW ch \in Seq(Frame), NEW ch2, Spoilt(ch, ch2)
  PROVE  Thinned(ch, ch2, 0)
<1>1. CASE ch2 = ch
  BY <1>1 DEF Thinned
<1>2. ASSUME NEW i \in 1 .. Len(ch), NEW d \in Frame,
             ch[i].k # "eof", d.k \notin {"hdr", "data", "eof"},
             ch2 = [ch EXCEPT ![i] = d]
      PROVE  Thinned(ch, ch2, 0)
  <2>1. Len(ch2) = Len(ch) /\ ch2[i] = d
        /\ \A j \in 1 .. Len(ch) : j # i => ch2[j] = ch[j]
    BY <1>2, ExceptSeq
  <2> QED BY <1>2, <2>1 DEF Thinned
<1> QED BY <1>1, <1>2 DEF Spoilt

\* A thinned stream keeps its end.
LEMMA ThinnedStaysClosed ==
  ASSUME NEW ch \in Seq(Frame), NEW ch2 \in Seq(Frame), NEW d \in {0, 1},
         Thinned(ch, ch2, d), Closed(ch)
  PROVE  Closed(ch2)
<1>1. Len(ch) \in 1 .. Len(ch) /\ ch[Len(ch)].k = "eof"
  BY DEF Closed
<1>2. Len(ch2) >= 1
  BY <1>1 DEF Thinned
<1>3. Len(ch2) \in 1 .. Len(ch2) /\ Len(ch2) + d = Len(ch)
  BY <1>2 DEF Thinned
<1>4. ch2[Len(ch2)] = ch[Len(ch)]
  BY <1>1, <1>3 DEF Thinned
<1> QED BY <1>1, <1>2, <1>4 DEF Closed

\* What a read leaves of a stream of frames: all behind the first as it was.
LEMMA ConsumedRest ==
  ASSUME NEW ch \in Seq(Frame), NEW rest, Consumed(ch, rest)
  PROVE  \E d \in {0, 1} :
           /\ Len(rest) = Len(ch) - d /\ Len(ch) \in Nat
           /\ d = 1 => ch # <<>> /\ rest = Tail(ch)
           /\ \A i \in 1 .. Len(rest) :
                /\ i + d \in 1 .. Len(ch)
                /\ \/ rest[i] = ch[i + d]
                   \/ i = 1 /\ d = 0 /\ rest[i].k \in {"part", "zeros"}
<1>1. CASE rest = ch
  BY <1>1
<1>2. CASE ch # <<>> /\ Head(ch).k # "eof" /\ rest = Tail(ch)
  <2>1. Len(rest) = Len(ch) - 1 /\ Len(ch) \in Nat
    BY <1>2
  <2>2. \A i \in 1 .. Len(rest) : i + 1 \in 1 .. Len(ch) /\ rest[i] = ch[i + 1]
    BY <1>2, <2>1
  <2> QED BY <1>2, <2>1, <2>2
<1>3. CASE /\ ch # <<>> /\ Head(ch).k # "eof"
           /\ \E e \in Frame : e.k \in {"part", "zeros"} /\ rest = [ch EXCEPT ![1] = e]
  <2>1. PICK e \in Frame : e.k \in {"part", "zeros"} /\ rest = [ch EXCEPT ![1] = e]
    BY <1>3
  <2>2. 1 \in 1 .. Len(ch) /\ Len(ch) \in Nat
    BY <1>3
  <2>3. Len(rest) = Len(ch) /\ rest[1] = e
        /\ \A i \in 1 .. Len(ch) : i # 1 => rest[i] = ch[i]
    BY <2>1, <2>2, ExceptSeq
  <2>4. Len(rest) = Len(ch) - 0 /\ \A i \in 1 .. Len(rest) : i + 0 = i /\ i + 0 \in 1 .. Len(ch)
    BY <2>2, <2>3
  <2>5. \A i \in 1 .. Len(rest) :
          \/ rest[i] = ch[i + 0]
          \/ i = 1 /\ 0 = 0 /\ rest[i].k \in {"part", "zeros"}
    BY <2>1, <2>3, <2>4
  <2> QED BY <2>2, <2>4, <2>5
<1> QED BY <1>1, <1>2, <1>3 DEF Consumed

\* A header in a thinned stream was there before.
LEMMA ThinnedHeaders ==
  ASSUME NEW ch \in Seq(Frame), NEW ch2 \in Seq(Frame), NEW d \in {0, 1},
         Thinned(ch, ch2, d), NEW i \in 1 .. Len(ch2), ch2[i].k = "hdr"
  PROVE  i + d \in 1 .. Len(ch) /\ ch2[i] = ch[i + d]
<1>1. Len(ch) \in Nat /\ Len(ch2) \in Nat /\ Len(ch2) = Len(ch) - d
  BY DEF Thinned
<1>2. i + d \in 1 .. Len(ch)
  BY <1>1
<1> QED BY <1>2 DEF Thinned

\* What a step of the sender does to the stream it reads.
LEMMA SenderConsumes ==
  ASSUME LineTypeOK, SenderTypeOK, SNext
  PROVE  Consumed(toS, toS')
<1>1. toS \in Seq(Frame)
  BY DEF LineTypeOK
<1>2. \A types : SReceives(types) => Consumed(toS, toS')
  BY <1>1, ReadsConsume DEF SReceives
<1>3. STimeout \/ SError => Consumed(toS, toS')
  BY <1>1, ReadsConsume DEF STimeout, SError, SenderTypeOK
<1>4. toS' = toS => Consumed(toS, toS')
  BY DEF Consumed
<1>5. CASE SSkipGarbage
  BY <1>1, <1>5, ReadsConsume DEF SSkipGarbage
<1>6. CASE \/ SInitTop \/ SZsinitTop \/ SFileTop \/ SBlock \/ SCancelled
           \/ SEofTop \/ SWriteFails \/ SClose
  BY <1>4, <1>6 DEF SInitTop, SZsinitTop, SFileTop, SBlock, SCancelled, SEofTop,
                    SWriteFails, SClose
<1>7. CASE SInitZRINIT \/ SInitOther \/ SInitNoHeader \/ SZsinitReply
  BY <1>2, <1>3, <1>7 DEF SInitZRINIT, SInitOther, SInitNoHeader, SZsinitReply
<1>8. CASE SFileReply \/ SFileCRC \/ SFileZRPOS \/ SEofReply \/ SEofZRPOS
  BY <1>2, <1>3, <1>8 DEF SFileReply, SFileCRC, SFileZRPOS, SEofReply, SEofZRPOS
<1>9. CASE SAckW \/ SAckWSeek \/ SAckQ \/ SWinWait
  BY <1>2, <1>3, <1>9 DEF SAckW, SAckWSeek, SAckQ, SWinWait
<1>10. CASE SDiscard
  BY <1>4, <1>10 DEF SDiscard, Consumed
<1> QED BY <1>5, <1>6, <1>7, <1>8, <1>9, <1>10 DEF SNext, SCall

\* The sender stays in step with its file.
LEMMA SenderInStep ==
  ASSUME LineTypeOK, SenderTypeOK, ReaderInStep, SNext, Seekable = TRUE,
         SReceives({"ZRPOS"}) => rxpos <= Len(File),
         ~SReceives({"ZCRC"})
  PROVE  ReaderInStep'
<1> USE DEF SenderTypeOK, ReaderInStep, BeforeData, InData, SGo, SReturn
<1>0. ASSUME SReceives({"ZRPOS"}) PROVE rxpos \in Nat /\ rxpos <= Len(File)
  BY <1>0, ReceivedPosition DEF LineTypeOK, SReceives, rxpos
<1>1. CASE \/ SSkipGarbage \/ SDiscard \/ SCancelled \/ SWriteFails \/ SClose
           \/ SZsinitTop \/ SFileTop \/ SEofTop
  BY <1>1 DEF SSkipGarbage, SDiscard, SCancelled, SWriteFails, SClose,
              SZsinitTop, SFileTop, SEofTop, progress
<1>2. CASE SInitTop \/ SInitZRINIT \/ SInitOther \/ SInitNoHeader
  BY <1>2 DEF SInitTop, SInitZRINIT, SInitOther, SInitNoHeader, SInitAgain, progress
<1>3. CASE SZsinitReply \/ SFileReply
  BY <1>3 DEF SZsinitReply, SFileReply, SRetry, progress
<1>4. CASE SFileCRC
  BY <1>4 DEF SFileCRC
<1>5. CASE SFileZRPOS
  <2>1. rxpos \in Nat /\ rxpos <= Len(File)
    BY <1>5, <1>0 DEF SFileZRPOS
  <2> QED BY <1>5, <2>1 DEF SFileZRPOS, StartData
<1>6. CASE SEofZRPOS
  <2>1. rxpos \in Nat /\ rxpos <= Len(File)
    BY <1>6, <1>0 DEF SEofZRPOS
  <2> QED BY <1>6, <2>1 DEF SEofZRPOS, StartData
<1>7. CASE SAckWSeek
  <2>1. rxpos \in Nat /\ rxpos <= Len(File)
    BY <1>7, <1>0 DEF SAckWSeek
  <2> QED BY <1>7, <2>1 DEF SAckWSeek
<1>8. CASE SBlock
  <2>1. /\ spc = "data" /\ fpos = spos /\ spos <= Len(File)
        /\ fpos' = fpos + ReadLen /\ spos' = spos + ReadLen /\ slen' = ReadLen
    BY <1>8 DEF SBlock
  <2>2. /\ ReadLen \in Nat /\ fpos + ReadLen <= Len(File)
        /\ ReadLen = 0 <=> fpos = Len(File)
    BY <2>1, ReadLenType
  <2>3. CASE FrameEnd(ReadLen) \in {"ZCRCW", "ZCRCQ"}
    <3>1. spc' \in {"ackW", "ackQ"}
      BY <1>8, <2>3 DEF SBlock
    <3>2. ReadLen > 0
      BY <2>2, <2>3 DEF FrameEnd
    <3> QED BY <2>1, <2>2, <3>1, <3>2
  <2>4. CASE FrameEnd(ReadLen) \notin {"ZCRCW", "ZCRCQ"}
    <3>1. spc' \in IF ReadLen = 0 THEN {"winEnd", "eof"} ELSE {"win", "data"}
      BY <1>8, <2>2, <2>4 DEF SBlock, SWindow
    <3> QED BY <2>1, <2>2, <3>1
  <2> QED BY <2>3, <2>4
<1>9. CASE SAckW \/ SAckQ
  <2>1. spc \in {"ackW", "ackQ"} /\ slen > 0 /\ UNCHANGED <<fpos, spos, slen>>
    BY <1>9 DEF SAckW, SAckQ
  <2>2. \A pos, last : SWindow(pos, last, slen) => spc' \in {"win", "data"}
    BY <2>1 DEF SWindow
  <2>3. spc' \in {"win", "data", "ret"}
    BY <1>9, <2>2 DEF SAckW, SAckQ, Junk
  <2> QED BY <2>1, <2>3
<1>10. CASE SWinWait
  BY <1>10 DEF SWinWait, SRetry
<1>11. CASE SEofReply
  BY <1>11 DEF SEofReply, progress
<1> QED
  BY <1>1, <1>2, <1>3, <1>4, <1>5, <1>6, <1>7, <1>8, <1>9, <1>10, <1>11 DEF SNext, SCall

\* What a step of the receiver does to the stream it reads.
LEMMA ReceiverConsumes ==
  ASSUME LineTypeOK, ReceiverTypeOK, RNext
  PROVE  Consumed(toR, toR')
<1>1. toR \in Seq(Frame)
  BY DEF LineTypeOK
<1>2. \A types : RReceives(types) => Consumed(toR, toR')
  BY <1>1, ReadsConsume DEF RReceives
<1>3. RTimeout \/ RError => Consumed(toR, toR')
  BY <1>1, ReadsConsume DEF RTimeout, RError, ReceiverTypeOK
<1>4. \A kind \in {"data", "info"} : \A e :
        Reads(toR, kind, e, toR') \/ ReadFails(toR, kind, toR')
          => Consumed(toR, toR')
  BY <1>1, ReadsConsume
<1>5. toR' = toR => Consumed(toR, toR')
  BY DEF Consumed
<1>6. CASE RSkipGarbage
  BY <1>1, <1>6, ReadsConsume DEF RSkipGarbage
<1>7. CASE RTry \/ RPrompt \/ RZrpos \/ RWriteFails \/ RClose
  BY <1>5, <1>7 DEF RTry, RPrompt, RZrpos, RWriteFails, RClose
<1>8. CASE RTryReply \/ RFinWait \/ RDataReply
  BY <1>2, <1>3, <1>8 DEF RTryReply, RFinWait, RDataReply, InPlace
<1>9. CASE RInfo \/ RInfoFails \/ RDiscard
  BY <1>4, <1>9 DEF RInfo, RInfoFails, RDiscard
<1>10. CASE RBlock \/ RBlockFails
  BY <1>1, <1>4, <1>10, StopsBehindConsumes DEF RBlock, RBlockFails
<1> QED BY <1>6, <1>7, <1>8, <1>9, <1>10 DEF RNext, RCall

\* The file of the first k bytes, extended by the n bytes that follow, is the
\* file of the first k + n bytes.
LEMMA PrefixExtended ==
  ASSUME NEW k \in Nat, NEW n \in Nat
  PROVE  [i \in 1 .. k |-> i - 1] \o [i \in 1 .. n |-> k + i - 1]
           = [i \in 1 .. k + n |-> i - 1]
<1> DEFINE a == [i \in 1 .. k |-> i - 1]
           b == [i \in 1 .. n |-> k + i - 1]
           c == [i \in 1 .. k + n |-> i - 1]
<1>1. /\ a \in Seq(Int) /\ Len(a) = k
      /\ b \in Seq(Int) /\ Len(b) = n
      /\ c \in Seq(Int) /\ Len(c) = k + n
  OBVIOUS
<1>2. /\ a \o b \in Seq(Int) /\ Len(a \o b) = k + n
      /\ \A i \in 1 .. k + n : (a \o b)[i] = IF i <= k THEN a[i] ELSE b[i - k]
  BY <1>1, ConcatProperties
<1>3. ASSUME NEW i \in 1 .. k + n PROVE (a \o b)[i] = c[i]
  <2>1. CASE i <= k
    BY <1>2, <2>1
  <2>2. CASE i > k
    <3>1. i - k \in 1 .. n
      BY <2>2
    <3> QED BY <1>2, <2>2, <3>1
  <2> QED BY <2>1, <2>2
<1> HIDE DEF a, b, c
<1>4. a \o b \in Seq(Int) /\ c \in Seq(Int) /\ Len(a \o b) = Len(c)
  BY <1>1, <1>2
<1>5. \A i \in 1 .. Len(a \o b) : (a \o b)[i] = c[i]
  BY <1>2, <1>3
<1>6. a \o b = c
  BY <1>4, <1>5, SeqEqual
<1> QED BY <1>6 DEF a, b, c

-----------------------------------------------------------------------------
\* What becomes of an answer.

\* The sender starts a file's data when it reads a request for a position;
\* a ZRINIT sets its window once.
LEMMA SenderEnters ==
  ASSUME SNext
  PROVE  /\ spc' \in InData /\ spc \notin InData =>
              spc = "zfileWait" /\ toS # <<>> /\ Asks(Head(toS)) /\ toS' = Tail(toS)
         /\ spc' \in {"init", "initWait"} =>
              spc \in {"init", "initWait"} /\ swin' = swin
         /\ swin' # swin => spc = "initWait"
<1> USE DEF SGo, SReturn
<1>1. CASE \/ SSkipGarbage \/ SDiscard \/ SCancelled \/ SWriteFails \/ SClose
           \/ SZsinitTop \/ SFileTop \/ SEofTop
  BY <1>1 DEF SSkipGarbage, SDiscard, SCancelled, SWriteFails, SClose,
              SZsinitTop, SFileTop, SEofTop, negotiated, InData, SWaits
<1>2. CASE SInitTop \/ SInitZRINIT \/ SInitOther \/ SInitNoHeader
  BY <1>2 DEF SInitTop, SInitZRINIT, SInitOther, SInitNoHeader, SInitAgain,
              negotiated, InData
<1>3. CASE SZsinitReply \/ SFileReply
  BY <1>3 DEF SZsinitReply, SFileReply, SRetry, negotiated, InData
<1>4. CASE SFileCRC
  BY <1>4 DEF SFileCRC, negotiated, InData
<1>5. CASE SFileZRPOS
  BY <1>5 DEF SFileZRPOS, StartData, SReceives, Arrives, Asks, negotiated, InData
<1>6. CASE SEofZRPOS \/ SAckWSeek \/ SEofReply
  BY <1>6 DEF SEofZRPOS, StartData, SAckWSeek, SEofReply, negotiated, InData
<1>7. CASE SBlock
  BY <1>7 DEF SBlock, SWindow, negotiated, InData
<1>8. CASE SAckW \/ SAckQ
  BY <1>8 DEF SAckW, SAckQ, Junk, SWindow, negotiated, InData
<1>9. CASE SWinWait
  BY <1>9 DEF SWinWait, SRetry, negotiated, InData
<1> QED
  BY <1>1, <1>2, <1>3, <1>4, <1>5, <1>6, <1>7, <1>8, <1>9 DEF SNext, SCall

\* The sender reads the answer toS[i] with data under way: it does so already,
\* or starts when it reads a request before it.
InFile(i) == spc \in InData \/ \E j \in 1 .. i : Asks(toS[j])

\* No request appears in a stream that is read or damaged.
LEMMA ThinnedAsksNot ==
  ASSUME NEW ch \in Seq(Frame), NEW ch2 \in Seq(Frame), NEW d \in {0, 1},
         Thinned(ch, ch2, d), \A i \in 1 .. Len(ch) : ~Asks(ch[i])
  PROVE  \A i \in 1 .. Len(ch2) : ~Asks(ch2[i])
BY ThinnedHeaders DEF Asks

\* What is read with data under way was so before, unless data starts now.
LEMMA ThinnedInFile ==
  ASSUME toS \in Seq(Frame), toS' \in Seq(Frame), NEW d \in {0, 1},
         Thinned(toS, toS', d), NEW i \in 1 .. Len(toS'), InFile(i)',
         spc' \in InData => spc \in InData \/ (d = 1 /\ Asks(toS[1]))
  PROVE  InFile(i + d)
<1>1. CASE spc' \in InData
  BY <1>1 DEF InFile
<1>2. CASE spc' \notin InData
  <2>1. PICK j \in 1 .. i : Asks(toS'[j])
    BY <1>2 DEF InFile
  <2>2. j \in 1 .. Len(toS')
    OBVIOUS
  <2>3. toS'[j] = toS[j + d]
    BY <2>1, <2>2, ThinnedHeaders DEF Asks
  <2>4. j + d \in 1 .. i + d
    OBVIOUS
  <2> QED BY <2>1, <2>3, <2>4 DEF InFile
<1> QED BY <1>1, <1>2

\* The sender reads its answers one by one, and a request when it starts.
LEMMA SenderReads ==
  ASSUME LineTypeOK, SenderTypeOK, SNext
  PROVE  \E d \in {0, 1} :
           /\ Thinned(toS, toS', d)
           /\ spc' \in InData => spc \in InData \/ (d = 1 /\ Asks(toS[1]))
<1>1. toS \in Seq(Frame) /\ toS' \in Seq(Frame)
  BY SenderLineType DEF LineTypeOK
<1>2. PICK d \in {0, 1} : Thinned(toS, toS', d)
  BY <1>1, SenderConsumes, ReadingThins
<1>3. CASE spc' \in InData /\ spc \notin InData
  <2>1. toS # <<>> /\ Asks(Head(toS)) /\ toS' = Tail(toS)
    BY <1>3, SenderEnters
  <2>2. Len(toS') = Len(toS) - 1 /\ Len(toS') \in Nat /\ Head(toS) = toS[1]
    BY <1>1, <2>1
  <2>3. d = 1
    BY <1>2, <2>2 DEF Thinned
  <2> QED BY <1>2, <2>1, <2>2, <2>3
<1> QED BY <1>2, <1>3

\* A ZACK or a ZRINIT.
Answers(e) == e.k = "hdr" /\ e.t \in {"ZACK", "ZRINIT"}

\* The sender succeeds when it reads one after ZEOF.
LEMMA SenderSucceeds ==
  ASSUME SNext, sres' = "ok"
  PROVE  \/ sres = "ok"
         \/ spc = "eofWait" /\ toS # <<>> /\ Answers(Head(toS))
<1> USE DEF SGo, SReturn
<1>1. CASE \/ SSkipGarbage \/ SDiscard \/ SCancelled \/ SWriteFails \/ SClose
           \/ SZsinitTop \/ SFileTop \/ SEofTop
  BY <1>1 DEF SSkipGarbage, SDiscard, SCancelled, SWriteFails, SClose,
              SZsinitTop, SFileTop, SEofTop
<1>2. CASE SInitTop \/ SInitZRINIT \/ SInitOther \/ SInitNoHeader
  BY <1>2 DEF SInitTop, SInitZRINIT, SInitOther, SInitNoHeader, SInitAgain
<1>3. CASE SZsinitReply \/ SFileReply
  BY <1>3 DEF SZsinitReply, SFileReply, SRetry
<1>4. CASE SFileCRC \/ SFileZRPOS \/ SEofZRPOS \/ SAckWSeek
  BY <1>4 DEF SFileCRC, SFileZRPOS, SEofZRPOS, StartData, SAckWSeek
<1>5. CASE SEofReply
  BY <1>5 DEF SEofReply, SReceives, Arrives, Answers
<1>6. CASE SBlock
  BY <1>6 DEF SBlock, SWindow
<1>7. CASE SAckW \/ SAckQ
  BY <1>7 DEF SAckW, SAckQ, Junk, SWindow
<1>8. CASE SWinWait
  BY <1>8 DEF SWinWait, SRetry
<1> QED
  BY <1>1, <1>2, <1>3, <1>4, <1>5, <1>6, <1>7, <1>8 DEF SNext, SCall

\* Without a window, or with a peer that has no full duplex, there is none.
LEMMA NoWindow ==
  ASSUME SNext, swin = 0, WindowSize = 0 \/ CanFDX = FALSE
  PROVE  swin' = 0
<1>1. CASE SInitZRINIT
  BY <1>1 DEF SInitZRINIT
<1>2. CASE SInitTop
  BY <1>2 DEF SInitTop
<1>3. CASE \/ SSkipGarbage \/ SInitOther \/ SInitNoHeader \/ SZsinitTop
           \/ SZsinitReply \/ SFileTop \/ SFileReply \/ SDiscard \/ SFileCRC
           \/ SFileZRPOS
  BY <1>3 DEF SSkipGarbage, SInitOther, SInitNoHeader, SZsinitTop,
     SZsinitReply, SFileTop, SFileReply, SDiscard, SFileCRC, SFileZRPOS, negotiated
<1>4. CASE \/ SBlock \/ SCancelled \/ SAckW \/ SAckWSeek \/ SAckQ \/ SWinWait
           \/ SEofTop \/ SEofReply \/ SEofZRPOS \/ SWriteFails \/ SClose
  BY <1>4 DEF SBlock, SCancelled, SAckW, SAckWSeek, SAckQ, SWinWait, SEofTop,
     SEofReply, SEofZRPOS, SWriteFails, SClose, negotiated
<1> QED BY <1>1, <1>2, <1>3, <1>4 DEF SNext, SCall

\* A sender that streams waits for no answer before the end of the file: the
\* position last received, PosMod - 1 or one before the start, is never the
\* position reached (sender.go:713, 754).
Streaming ==
  /\ spc \notin {"ackW", "ackQ", "win", "winEnd"}
  /\ spc = "data" => sjunk = 0 /\ (slast = PosMod - 1 \/ slast < spos)

\* Nor does any block in a stream ask for one.
AsksNothing(ch) ==
  \A i \in 1 .. Len(ch) : ch[i].k = "data" => ch[i].end \in {"ZCRCG", "ZCRCE"}

\* Without a window a sender that streams goes on to stream.
LEMMA StaysStreaming ==
  ASSUME LineTypeOK, SenderTypeOK, SNext, swin = 0, Streaming,
         Len(File) < PosMod, spc = "data" /\ fpos < Len(File) => spos <= fpos
  PROVE  /\ Streaming'
         /\ AsksNothing(toR) => AsksNothing(toR')
<1> USE DEF SGo, SReturn
<1>1. ASSUME NEW es \in Seq(Frame), SWrites(es), AsksNothing(es), AsksNothing(toR)
      PROVE  AsksNothing(toR')
  <2>1. toR \in Seq(Frame) /\ Len(toR) \in Nat /\ Len(es) \in Nat
    BY DEF LineTypeOK
  <2>2. CASE toR' = toR
    BY <1>1, <2>2
  <2>3. CASE toR' = toR \o es
    <3>1. /\ Len(toR') = Len(toR) + Len(es)
          /\ \A i \in 1 .. Len(toR) + Len(es) :
                toR'[i] = IF i <= Len(toR) THEN toR[i] ELSE es[i - Len(toR)]
      BY <2>1, <2>3, ConcatProperties
    <3>2. ASSUME NEW i \in 1 .. Len(toR'), toR'[i].k = "data"
          PROVE  toR'[i].end \in {"ZCRCG", "ZCRCE"}
      <4>1. CASE i <= Len(toR)
        <5>1. i \in 1 .. Len(toR) /\ toR'[i] = toR[i]
          BY <2>1, <3>1, <4>1
        <5> QED BY <1>1, <3>2, <5>1 DEF AsksNothing
      <4>2. CASE i > Len(toR)
        <5>1. i - Len(toR) \in 1 .. Len(es) /\ toR'[i] = es[i - Len(toR)]
          BY <2>1, <3>1, <4>2
        <5> QED BY <1>1, <3>2, <5>1 DEF AsksNothing
      <4> QED BY <2>1, <3>1, <4>1, <4>2
    <3> QED BY <3>2 DEF AsksNothing
  <2> QED BY <1>1, <2>2, <2>3 DEF SWrites, Written
<1>2. \A t \in FrameTypes, p \in Nat :
         <<Hdr(t, p)>> \in Seq(Frame) /\ AsksNothing(<<Hdr(t, p)>>)
  BY FramesAreTyped, ShortSeqs DEF AsksNothing, Hdr
<1>3. \A t \in FrameTypes, p \in Nat : 
         SWrites(<<Hdr(t, p)>>) /\ AsksNothing(toR) => AsksNothing(toR')
  BY <1>1, <1>2
<1>4. ASSUME NEW types, SReceives(types) PROVE rxpos \in Nat
  BY <1>4, ReceivedPosition DEF SReceives, rxpos, LineTypeOK
<1>5. ASSUME NEW p \in Nat, NEW b, StartData(p, b)
      PROVE  Streaming' /\ (AsksNothing(toR) => AsksNothing(toR'))
  <2>1. /\ SWrites(<<Hdr("ZDATA", p)>>) /\ spc' = "data" /\ sjunk' = 0
        /\ spos' = p /\ slast' = IF p > 0 THEN p - 1 ELSE PosMod - 1
    BY <1>5 DEF StartData
  <2>2. slast' = PosMod - 1 \/ slast' < spos'
    BY <2>1
  <2> QED BY <1>3, <2>1, <2>2 DEF Streaming, FrameTypes
<1>6. CASE SSkipGarbage \/ SDiscard \/ SCancelled \/ SWriteFails
  BY <1>6 DEF SSkipGarbage, SDiscard, SCancelled, SWriteFails, SQuiet,
              Streaming, progress
<1>7. CASE SClose
  <2>1. Streaming'
    BY <1>7 DEF SClose, Streaming
  <2>2. toR \in Seq(Frame) /\ Eof \in Frame
    BY FramesAreTyped DEF LineTypeOK
  <2>3. ASSUME AsksNothing(toR) PROVE AsksNothing(toR')
    BY <1>7, <2>2, <2>3 DEF SClose, AsksNothing, Eof
  <2> QED BY <2>1, <2>3
<1>8. CASE SZsinitTop
  <2> DEFINE es == <<Hdr("ZSINIT", 0), IF EscapesCtrl THEN Part(0, 0) ELSE Info>>
  <2>1. es \in Seq(Frame)
    BY FramesAreTyped, ShortSeqs DEF FrameTypes
  <2>2. AsksNothing(es)
    BY DEF AsksNothing, Hdr, Part, Info
  <2> QED BY <1>1, <1>8, <2>1, <2>2 DEF SZsinitTop, Streaming
<1>9. CASE SFileTop
  <2> DEFINE es == <<Hdr("ZFILE", 0), Info>>
  <2>1. es \in Seq(Frame)
    BY FramesAreTyped, ShortSeqs DEF FrameTypes
  <2>2. AsksNothing(es)
    BY DEF AsksNothing, Hdr, Info
  <2> QED BY <1>1, <1>9, <2>1, <2>2 DEF SFileTop, Streaming
<1>10. CASE SInitTop \/ SInitZRINIT \/ SInitNoHeader
  BY <1>3, <1>10 DEF SInitTop, SInitZRINIT, SInitNoHeader, SInitAgain, SQuiet,
     Streaming, FrameTypes
<1>11. CASE SInitOther
  <2>1. Streaming'
    BY <1>11 DEF SInitOther, SInitAgain, Streaming
  <2>2. AsksNothing(toR) => AsksNothing(toR')
    BY <1>3, <1>4, <1>11 DEF SInitOther, SQuiet, FrameTypes
  <2> QED BY <2>1, <2>2
<1>12. CASE SZsinitReply \/ SFileReply \/ SEofReply
  BY <1>12 DEF SZsinitReply, SFileReply, SEofReply, SRetry, SQuiet, Streaming
<1>13. CASE SFileCRC
  BY <1>3, <1>13 DEF SFileCRC, Streaming, FrameTypes
<1>14. CASE SFileZRPOS
  BY <1>4, <1>5, <1>14 DEF SFileZRPOS
<1>15. CASE SEofZRPOS
  BY <1>4, <1>5, <1>15 DEF SEofZRPOS
<1>16. CASE SEofTop
  BY <1>3, <1>16 DEF SEofTop, Streaming, FrameTypes, SenderTypeOK
<1>17. CASE SBlock
  <2> DEFINE n == ReadLen  end == FrameEnd(ReadLen)
  <2>1. /\ spc = "data" /\ spos \in Nat /\ fpos \in Nat /\ slast \in Nat
        /\ sjunk = 0 /\ (slast = PosMod - 1 \/ slast < spos)
    BY <1>17 DEF SBlock, Streaming, SenderTypeOK
  <2>2. n \in Nat /\ Len(File) \in Nat /\ PosMod \in Nat /\ ForceW \in Nat
    BY ReadLenType, LineAssumption, SenderConstants
  <2>3. n # 0 => spos # slast
    <3>1. n # 0 => fpos < Len(File)
      BY <2>1, <2>2 DEF ReadLen
    <3>2. n # 0 => spos < PosMod - 1
      BY <2>1, <2>2, <3>1
    <3> QED BY <2>1, <2>2, <3>2
  <2>4. end \in {"ZCRCG", "ZCRCE"} /\ end \in FrameEnds
    BY <2>1, <2>2, <2>3 DEF FrameEnd, FrameEnds
  <2>5. /\ SWrites(<<Data(fpos, n, end)>>) /\ spos' = spos + n
        /\ SWindow(spos + n, slast, n) /\ UNCHANGED <<slast, sjunk>>
    BY <1>17, <2>4 DEF SBlock
  <2>6. spc' \in {"eof", "data"}
    BY <2>5 DEF SWindow, WindowFull
  <2>7. slast' = PosMod - 1 \/ slast' < spos'
    BY <2>1, <2>2, <2>5
  <2>8. Streaming'
    BY <2>1, <2>5, <2>6, <2>7 DEF Streaming
  <2>9. <<Data(fpos, n, end)>> \in Seq(Frame)
    BY <2>1, <2>2, <2>4, FramesAreTyped, ShortSeqs
  <2>10. AsksNothing(<<Data(fpos, n, end)>>)
    BY <2>4 DEF AsksNothing, Data
  <2> QED BY <1>1, <2>5, <2>8, <2>9, <2>10
<1>18. CASE SAckW \/ SAckWSeek \/ SAckQ \/ SWinWait
  BY <1>18 DEF SAckW, SAckWSeek, SAckQ, SWinWait, Streaming
<1> QED
  BY <1>6, <1>7, <1>8, <1>9, <1>10, <1>11, <1>12, <1>13, <1>14, <1>15, <1>16,
     <1>17, <1>18
  DEF SNext, SCall

-----------------------------------------------------------------------------
\* What the receiver writes, to the line and to its file.

\* The positions of the file fit a header.
Fits == Len(File) < PosMod

\* In-range positions go through a header unchanged.
LEMMA PositionFits ==
  ASSUME Fits, NEW p \in Nat, p <= Len(File)
  PROVE  p % PosMod = p
BY LineAssumption DEF Fits, LineAssumption

Receiving == LineTypeOK /\ ReceiverTypeOK /\ Copied

\* Thinning the stream to the sender keeps its answers in range.
LEMMA ThinnedToS ==
  ASSUME toS \in Seq(Frame), toS' \in Seq(Frame),
         NEW d \in {0, 1}, Thinned(toS, toS', d), UNCHANGED rpc, FramesToS
  PROVE  FramesToS'
<1>1. Len(toS) \in Nat /\ Len(toS') \in Nat /\ Len(toS') = Len(toS) - d
  BY DEF Thinned
<1>2. rpc' = "end" => Closed(toS')
  BY ThinnedStaysClosed DEF FramesToS
<1>3. ASSUME NEW i \in 1 .. Len(toS'), NEW e, e = toS'[i]
      PROVE  /\ e.k = "eof" => rpc' = "end"
             /\ e.k = "hdr" =>
                  /\ e.t \in {"ZRINIT", "ZNAK", "ZACK", "ZRPOS", "ZSKIP", "ZCOMPL"}
                  /\ e.t = "ZRPOS" => e.p <= Len(File)
  <2>1. i + d \in 1 .. Len(toS)
    BY <1>1
  <2>2. e = toS[i + d] \/ e.k \notin {"hdr", "eof"}
    BY <1>3 DEF Thinned
  <2> QED BY <2>1, <2>2 DEF FramesToS
<1> QED BY <1>2, <1>3 DEF FramesToS, Closed

\* The frames the receiver writes: an attention, an answer, or a request for
\* a position inside the file.
Answer(e) ==
  \/ e.k = "nul"
  \/ /\ e.k = "hdr"
     /\ e.t \in {"ZRINIT", "ZNAK", "ZACK", "ZRPOS", "ZSKIP", "ZCOMPL"}
     /\ e.t = "ZRPOS" => e.p <= Len(File)

\* A step of the receiver writes nothing or one answer, and does not end it,
\* or it closes its stream.
LEMMA ReceiverAnswers ==
  ASSUME Receiving, Fits, RNext
  PROVE  /\ rpc # "end"
         /\ \/ rpc' # "end" /\ toS' = toS
            \/ rpc' # "end" /\ \E e \in Frame : Answer(e) /\ toS' = toS \o <<e>>
            \/ rpc' = "end" /\ toS' = toS \o <<Eof>>
<1> DEFINE Sends == toS' = toS \/ \E e \in Frame : Answer(e) /\ toS' = toS \o <<e>>
<1> USE DEF RGo, RReturn, RAgain, RPass, RQuiet
<1>1. ASSUME NEW e \in Frame, Answer(e), RWrites(<<e>>) PROVE Sends
  BY <1>1 DEF RWrites, Written
<1>2. \A t \in {"ZRINIT", "ZNAK", "ZACK", "ZSKIP", "ZCOMPL"}, p \in Nat :
         Hdr(t, p) \in Frame /\ Answer(Hdr(t, p))
  BY FramesAreTyped DEF FrameTypes, Hdr, Answer
<1>3. Hdr("ZRPOS", rpos) \in Frame /\ Answer(Hdr("ZRPOS", rpos))
  <2>1. rpos \in Nat /\ rpos <= Len(File)
    BY DEF Receiving, ReceiverTypeOK, Copied
  <2> QED BY <2>1, PositionFits, FramesAreTyped DEF FrameTypes, Hdr, Answer
<1>4. Nul \in Frame /\ Answer(Nul)
  BY FramesAreTyped DEF Nul, Answer
<1>5. RAttention => Sends
  BY <1>1, <1>4 DEF RAttention
<1>6. ASSUME NEW t \in {"ZRINIT", "ZNAK", "ZACK", "ZSKIP", "ZCOMPL"},
             NEW p \in Nat, RWrites(<<Hdr(t, p)>>)
      PROVE  Sends
  BY <1>1, <1>2, <1>6
<1>7. CASE RSkipGarbage \/ RFinWait \/ RDiscard \/ RWriteFails
  BY <1>7 DEF RSkipGarbage, RFinWait, RDiscard, RWriteFails, RWriting, RWaits
<1>8. CASE RTry
  <2>1. Sends
    BY <1>8, <1>6 DEF RTry
  <2> QED BY <1>8, <2>1 DEF RTry
<1>9. CASE RTryReply
  <2>1. PosMod - 1 \in Nat
    BY LineAssumption
  <2>2. Sends
    BY <1>9, <2>1, <1>6 DEF RTryReply
  <2> QED BY <1>9, <2>2 DEF RTryReply
<1>10. CASE RInfo
  <2>1. Sends
    BY <1>10, <1>6 DEF RInfo
  <2> QED BY <1>10, <2>1 DEF RInfo
<1>11. CASE RInfoFails
  <2>1. Sends
    BY <1>11, <1>6 DEF RInfoFails
  <2> QED BY <1>11, <2>1 DEF RInfoFails
<1>12. CASE RPrompt
  <2>1. Sends
    BY <1>12, <1>6 DEF RPrompt
  <2> QED BY <1>12, <2>1 DEF RPrompt
<1>13. CASE RZrpos
  <2>1. Sends
    BY <1>13, <1>1, <1>3 DEF RZrpos
  <2> QED BY <1>13, <2>1 DEF RZrpos
<1>14. CASE RDataReply
  <2>1. rpos \in Nat
    BY DEF Receiving, ReceiverTypeOK
  <2>2. Sends
    BY <1>14, <2>1, <1>5, <1>6 DEF RDataReply, InPlace
  <2> QED BY <1>14, <2>2 DEF RDataReply, InPlace, RRetry
<1>15. CASE RBlock
  <2>1. rpos + Head(toR).n \in Nat
    <3>1. Head(toR) \in Frame /\ IsBlock(Head(toR))
      BY <1>15 DEF RBlock, Reads, IsBlock, Receiving, LineTypeOK
    <3> QED BY <3>1, BlockRange DEF Receiving, ReceiverTypeOK
  <2>2. Sends
    BY <1>15, <2>1, <1>6 DEF RBlock
  <2> QED BY <1>15, <2>2 DEF RBlock
<1>16. CASE RBlockFails
  <2>1. Sends
    BY <1>16, <1>5 DEF RBlockFails
  <2> QED BY <1>16, <2>1 DEF RBlockFails, RRetry
<1>17. CASE RClose
  BY <1>17 DEF RClose, Receiving, LineTypeOK
<1> QED
  BY <1>7, <1>8, <1>9, <1>10, <1>11, <1>12, <1>13, <1>14, <1>15, <1>16, <1>17
  DEF RNext, RCall

\* Answers keep the stream to the sender in range.
LEMMA AnswersToS ==
  ASSUME Receiving, FramesToS, Fits, RNext, toS' \in Seq(Frame)
  PROVE  FramesToS'
<1>1. toS \in Seq(Frame) /\ Len(toS) \in Nat /\ rpc # "end"
  BY ReceiverAnswers DEF Receiving, LineTypeOK
<1>2. ASSUME NEW e \in Frame, toS' = toS \o <<e>>
      PROVE  /\ Len(toS') = Len(toS) + 1 /\ toS'[Len(toS) + 1] = e
             /\ \A i \in 1 .. Len(toS) : toS'[i] = toS[i]
  <2>1. <<e>> \in Seq(Frame) /\ Len(<<e>>) = 1 /\ <<e>>[1] = e
    OBVIOUS
  <2> QED BY <1>1, <1>2, <2>1, ConcatProperties
<1>3. CASE rpc' # "end" /\ toS' = toS
  BY <1>1, <1>3 DEF FramesToS
<1>4. ASSUME NEW e \in Frame, Answer(e), rpc' # "end", toS' = toS \o <<e>>
      PROVE  FramesToS'
  <2>1. ASSUME NEW i \in 1 .. Len(toS'), NEW f, f = toS'[i]
        PROVE  /\ f.k # "eof"
               /\ f.k = "hdr" =>
                    /\ f.t \in {"ZRINIT", "ZNAK", "ZACK", "ZRPOS", "ZSKIP", "ZCOMPL"}
                    /\ f.t = "ZRPOS" => f.p <= Len(File)
    <3>1. CASE i = Len(toS) + 1
      BY <1>2, <1>4, <2>1, <3>1 DEF Answer
    <3>2. CASE i \in 1 .. Len(toS)
      BY <1>1, <1>2, <1>4, <2>1, <3>2 DEF FramesToS
    <3> QED BY <1>1, <1>2, <1>4, <3>1, <3>2
  <2> QED BY <1>4, <2>1 DEF FramesToS
<1>5. CASE rpc' = "end" /\ toS' = toS \o <<Eof>>
  <2>1. Eof \in Frame /\ Eof.k = "eof"
    BY FramesAreTyped DEF Eof
  <2>2. Closed(toS')
    BY <1>1, <1>2, <1>5, <2>1 DEF Closed
  <2>3. ASSUME NEW i \in 1 .. Len(toS'), NEW f, f = toS'[i]
        PROVE  f.k = "hdr" =>
                    /\ f.t \in {"ZRINIT", "ZNAK", "ZACK", "ZRPOS", "ZSKIP", "ZCOMPL"}
                    /\ f.t = "ZRPOS" => f.p <= Len(File)
    <3>1. CASE i = Len(toS) + 1
      BY <1>2, <1>5, <2>1, <2>3, <3>1
    <3>2. CASE i \in 1 .. Len(toS)
      BY <1>1, <1>2, <1>5, <2>1, <2>3, <3>2 DEF FramesToS
    <3> QED BY <1>1, <1>2, <1>5, <2>1, <3>1, <3>2
  <2> QED BY <1>5, <2>2, <2>3 DEF FramesToS, Closed
<1> QED BY <1>3, <1>4, <1>5, ReceiverAnswers

\* The block the receiver is about to read is the next one, and a ZEOF lies
\* where the file ends.
HeadIsNext ==
  toR # <<>> =>
    /\ rpc = "block" /\ Head(toR).k = "data" =>
         Head(toR).lo = rpos /\ rpos + Head(toR).n <= Len(File)
    /\ Head(toR).k = "hdr" /\ Head(toR).t = "ZEOF" => Head(toR).p = Len(File)

\* Then a block that is written is the one at the receiver's position.
LEMMA BlockIsNext ==
  ASSUME Receiving, HeadIsNext, RBlock
  PROVE  /\ Head(toR).lo = rpos /\ Head(toR).n \in Nat
         /\ rpos + Head(toR).n <= Len(File)
<1>1. toR \in Seq(Frame) /\ toR # <<>> /\ Head(toR).k = "data" /\ rpc = "block"
  BY DEF Receiving, LineTypeOK, RBlock, Reads
<1>2. Head(toR) \in Frame
  BY <1>1
<1>3. Head(toR).n \in Nat
  BY <1>1, <1>2, BlockRange DEF IsBlock
<1> QED BY <1>1, <1>3 DEF HeadIsNext

\* The receiver writes the bytes that follow, and reports success only at the
\* end of the file.
LEMMA ReceiverCopies ==
  ASSUME Receiving, Fits, HeadIsNext, RNext
  PROVE  Copied'
<1> USE DEF RGo, RReturn, RAgain, RPass
<1>1. /\ rpos \in Nat /\ disk = [i \in 1 .. rpos |-> i - 1] /\ rpos <= Len(File)
      /\ rres = "ok" => rpos = Len(File)
      /\ rres = "none" <=> rpc \notin {"ret", "end"}
  BY DEF Receiving, ReceiverTypeOK, Copied
<1>2. ASSUME UNCHANGED <<rpos, disk>>,
             rres' = rres \/ rres' # "ok" \/ rpos = Len(File),
             rres' = "none" <=> rpc' \notin {"ret", "end"}
      PROVE  Copied'
  BY <1>1, <1>2 DEF Copied
<1>3. CASE RSkipGarbage \/ RTry \/ RZrpos \/ RDiscard
  BY <1>1, <1>2, <1>3 DEF RSkipGarbage, RTry, RZrpos, RDiscard, RWaits
<1>4. CASE RTryReply
  BY <1>1, <1>2, <1>4 DEF RTryReply
<1>5. CASE RInfo
  BY <1>1, <1>2, <1>5 DEF RInfo
<1>6. CASE RInfoFails
  BY <1>1, <1>2, <1>6 DEF RInfoFails
<1>7. CASE RFinWait \/ RPrompt
  BY <1>1, <1>2, <1>7 DEF RFinWait, RPrompt
<1>8. CASE RDataReply
  <2>1. UNCHANGED <<rpos, disk>> /\ rpc = "dataWait"
    BY <1>8 DEF RDataReply, InPlace
  <2>2. rres' = "none" <=> rpc' \notin {"ret", "end"}
    BY <1>1, <1>8, <2>1 DEF RDataReply, InPlace, RRetry
  <2>3. rres' = "ok" => rpos = Len(File)
    <3>1. ASSUME rres' = "ok"
          PROVE  RReceives({"ZEOF"}) /\ rxhdr = rpos % PosMod
      BY <1>1, <1>8, <2>1, <3>1 DEF RDataReply, InPlace, RRetry
    <3>2. rpos % PosMod = rpos
      BY <1>1, PositionFits
    <3>3. RReceives({"ZEOF"}) => rxhdr = Len(File)
      BY DEF RReceives, Arrives, rxhdr, HeadIsNext
    <3> QED BY <3>1, <3>2, <3>3
  <2> QED BY <1>2, <2>1, <2>2, <2>3
<1>9. CASE RBlock
  <2>1. CASE UNCHANGED <<disk, rpos>> /\ rres' = "failed" /\ rpc' = "ret"
    BY <1>2, <2>1
  <2>2. CASE /\ disk' = disk \o [i \in 1 .. Head(toR).n |-> Head(toR).lo + i - 1]
             /\ rpos' = rpos + Head(toR).n
             /\ \/ rpc' = "zrpos" /\ rres' = rres
                \/ rpc' = "ret" /\ rres' = "failed"
    <3>1. /\ Head(toR).lo = rpos /\ Head(toR).n \in Nat
          /\ rpos + Head(toR).n <= Len(File)
      BY <1>9, BlockIsNext
    <3>2. disk' = [i \in 1 .. rpos' |-> i - 1]
      BY <1>1, <2>2, <3>1, PrefixExtended
    <3>3. \/ rres' = "none" /\ rpc' = "zrpos"
          \/ rres' = "failed" /\ rpc' = "ret"
      BY <1>1, <1>9, <2>2 DEF RBlock
    <3>4. disk' = [i \in 1 .. rpos' |-> i - 1] /\ rpos' <= Len(File)
      BY <2>2, <3>1, <3>2
    <3>5. /\ rres' # "ok"
          /\ rres' = "none" <=> rpc' \notin {"ret", "end"}
      BY <3>3
    <3> QED BY <3>4, <3>5 DEF Copied
  <2> QED BY <1>9, <2>1, <2>2 DEF RBlock
<1>10. CASE RBlockFails
  BY <1>1, <1>2, <1>10 DEF RBlockFails, RRetry
<1>11. CASE RWriteFails \/ RClose
  BY <1>1, <1>2, <1>11 DEF RWriteFails, RClose
<1> QED
  BY <1>3, <1>4, <1>5, <1>6, <1>7, <1>8, <1>9, <1>10, <1>11 DEF RNext, RCall

\* A step with which the receiver starts to read a block.
StartsBlock ==
  /\ RReceives({"ZDATA"}) /\ rxhdr = rpos % PosMod
  /\ rpc' = "block" /\ rpos' = rpos

\* It starts to read one after the ZDATA of its position only.
LEMMA ReceiverStartsBlock ==
  ASSUME RNext
  PROVE  rpc' # "block" \/ StartsBlock
<1> USE DEF RGo, RReturn, RAgain, RPass
<1>1. CASE RSkipGarbage \/ RTry \/ RTryReply \/ RZrpos \/ RDiscard
  BY <1>1 DEF RSkipGarbage, RTry, RTryReply, RZrpos, RDiscard, RWaits
<1>2. CASE RInfo
  BY <1>2 DEF RInfo
<1>3. CASE RInfoFails \/ RFinWait \/ RPrompt
  BY <1>3 DEF RInfoFails, RFinWait, RPrompt
<1>4. CASE RDataReply
  BY <1>4 DEF RDataReply, InPlace, RRetry, StartsBlock
<1>5. CASE RBlock \/ RBlockFails
  BY <1>5 DEF RBlock, RBlockFails, RRetry
<1>6. CASE RWriteFails \/ RClose
  BY <1>6 DEF RWriteFails, RClose
<1> QED BY <1>1, <1>2, <1>3, <1>4, <1>5, <1>6 DEF RNext, RCall

=============================================================================
