------------------------------ MODULE ZSender ------------------------------
(***************************************************************************)
(* The sending side, zmodem/sender.go: GetReceiverInit, SendZSINIT,        *)
(* SendFile and sendFileData for one file.  Each action is one pass        *)
(* through a loop body between two blocking reads or writes.               *)
(***************************************************************************)
EXTENDS ZLine

CONSTANTS
  BlockSize, MaxBlockSize, MinBuflen,  \* config; 32 in ParseZRINIT
  WindowSize,                          \* config, 0 = streaming
  Seekable,                            \* the file is an io.Seeker
  SAttn, SEscapeCtrl,                  \* config: attention string, escaping
  CanFDX, PeerEscCtl,                  \* CANFDX, TESCCTL of the peer's ZRINIT
  Cancellable,                         \* the context may be cancelled
  SourceFaults,                        \* reads and seeks for data may fail
  InitTries, MaxZrqinits, MaxSinitErrors, MaxFileErrors,  \* 10, 4, 19, 10
  ForceW, MaxWErrors, MaxQErrors, WinTries                \* 3, 10, 5, 3

ASSUME SenderAssumption ==
  /\ {BlockSize, MaxBlockSize, MinBuflen} \subseteq Nat \ {0}
  /\ WindowSize \in Nat
  /\ {Seekable, SAttn, SEscapeCtrl, CanFDX, PeerEscCtl, Cancellable,
      SourceFaults} \subseteq BOOLEAN
  /\ {InitTries, MaxZrqinits, MaxSinitErrors, MaxFileErrors,
      ForceW, MaxWErrors, MaxQErrors, WinTries} \subseteq Nat

VARIABLES
  spc,    \* where the sender is
  sres,   \* what its call returned: "none" while it runs
  stry,   \* errors, or rounds, of the current loop
  szrq,   \* zrqinitsSent
  sgarb,  \* garbage skipped by the current getHeader
  sblk,   \* blockSize
  swin,   \* txwindow
  fpos,   \* read offset of the file
  spos,   \* bytesSent
  slast,  \* lastRxPos
  sjunk,  \* junkCount
  scnt,   \* txwcnt
  slen    \* bytes in the last block

negotiated == <<szrq, sblk, swin>>
progress == <<fpos, spos, slast, sjunk, scnt, slen>>
svars == <<spc, sres, stry, sgarb, negotiated, progress>>

SWaits == {"initWait", "zsinitWait", "zfileWait", "ackW", "ackQ",
           "win", "winEnd", "eofWait"}
SPcs == SWaits \cup {"init", "zsinit", "zfile", "discard", "data", "eof",
                     "ret", "end"}
Results == {"none", "ok", "skipped", "cancelled", "failed"}

\* Before sendFileData is called, and inside it.
BeforeData == {"init", "initWait", "zsinit", "zsinitWait", "zfile",
               "zfileWait", "discard"}
InData == {"data", "ackW", "ackQ", "win", "winEnd", "eof", "eofWait"}

SenderTypeOK ==
  /\ spc \in SPcs /\ sres \in Results
  /\ stry \in Nat /\ szrq \in Nat /\ sgarb \in Nat
  /\ sblk \in Nat \ {0} /\ swin \in Nat
  /\ fpos \in Nat /\ spos \in Nat /\ slast \in Nat
  /\ sjunk \in Nat /\ scnt \in Nat /\ slen \in Nat

SenderInit ==
  /\ spc = "init" /\ sres = "none" /\ stry = 0 /\ szrq = 0 /\ sgarb = 0
  /\ sblk = BlockSize /\ swin = 0
  /\ fpos = 0 /\ spos = 0 /\ slast = PosMod - 1 /\ sjunk = 0 /\ scnt = 0
  /\ slen = 0

-----------------------------------------------------------------------------
\* Steps shared by the handlers.
SGo(pc) == spc' = pc /\ UNCHANGED sres
SReturn(r) == spc' = "ret" /\ sres' = r
SWrites(es) == Written(toR, toS, es, toR')
SQuiet == UNCHANGED toR
SReceives(types) == Arrives(toS, types, toS') /\ sgarb' = 0
STimeout == TimesOut(toS, sgarb, toS') /\ sgarb' = 0
SError == Fails(toS, sgarb, toS') /\ sgarb' = 0
rxpos == Head(toS).p
\* A seek of the file fails.
SeekFails == SourceFaults /\ Seekable

\* if errors++; errors > max { return } else go round again.
\* Fault: errors are not counted.
SRetryForever(max, pc) == SGo(pc) /\ UNCHANGED stry
SRetry(max, pc) ==
  IF stry + 1 > max THEN SReturn("failed") /\ UNCHANGED stry
                    ELSE SGo(pc) /\ stry' = stry + 1

SSkipGarbage ==
  /\ spc \in SWaits
  /\ Skips(toS, sgarb, toS', sgarb')
  /\ SQuiet
  /\ UNCHANGED <<spc, sres, stry, negotiated, progress>>

-----------------------------------------------------------------------------
\* GetReceiverInit.  The first round sends nothing, the first timeout is free.
SInitTop ==
  /\ spc = "init"
  /\ UNCHANGED <<toS, stry, sgarb, sblk, swin, progress>>
  /\ IF stry >= InitTries
     THEN SReturn("failed") /\ SQuiet /\ UNCHANGED szrq
     ELSE /\ SGo("initWait")
          /\ IF stry > 0 /\ szrq < MaxZrqinits
             THEN SWrites(<<Hdr("ZRQINIT", 0)>>) /\ szrq' = szrq + 1
             ELSE SQuiet /\ UNCHANGED szrq

SInitAgain == SGo("init") /\ stry' = stry + 1

\* ParseZRINIT: a buffer length out of range counts as MaxBlockSize.
Buflen(p) == IF p < MinBuflen \/ p > MaxBlockSize THEN MaxBlockSize ELSE p
EscapesCtrl == SEscapeCtrl \/ PeerEscCtl
CanSkipZSINIT == ~SAttn /\ (EscapesCtrl => PeerEscCtl)

SInitZRINIT ==
  /\ spc = "initWait"
  /\ SReceives({"ZRINIT"})
  /\ sblk' = IF sblk > Buflen(rxpos) THEN Buflen(rxpos) ELSE sblk
  /\ swin' = IF CanFDX THEN WindowSize ELSE 0
  /\ stry' = 0
  /\ SGo(IF CanSkipZSINIT THEN "zfile" ELSE "zsinit")
  /\ SQuiet /\ UNCHANGED <<szrq, progress>>

SInitOther ==
  /\ spc = "initWait"
  /\ UNCHANGED <<negotiated, progress>>
  /\ \/ /\ SReceives({"ZCHALLENGE"})
        /\ SWrites(<<Hdr("ZACK", rxpos)>>) /\ SInitAgain
     \/ /\ SReceives({"ZCOMMAND", "ZRQINIT"})  \* or a ZRQINIT for a command
        /\ SQuiet /\ SInitAgain
     \/ /\ SReceives({"ZCAN"})
        /\ SQuiet /\ SReturn("cancelled") /\ UNCHANGED stry
     \/ /\ SReceives(FrameTypes \ {"ZRINIT", "ZCHALLENGE", "ZCOMMAND", "ZCAN"})
        /\ SWrites(<<Hdr("ZNAK", 0)>>) /\ SInitAgain

SInitNoHeader ==
  /\ spc = "initWait"
  /\ \/ STimeout /\ stry = 0 /\ SInitAgain
     \/ STimeout /\ stry > 0 /\ SReturn("failed") /\ UNCHANGED stry
     \/ SError /\ SReturn("failed") /\ UNCHANGED stry
  /\ SQuiet /\ UNCHANGED <<negotiated, progress>>

-----------------------------------------------------------------------------
\* SendZSINIT.  With control escaping the header is a hex one, and the byte
\* zshhdr puts after it (frame.go:261) spoils the subpacket that follows.
\* zsdata escapes no control characters as such, whatever was negotiated.
SZsinitTop ==
  /\ spc = "zsinit"
  /\ SWrites(<<Hdr("ZSINIT", 0), IF EscapesCtrl THEN Part(0, 0) ELSE Info>>)
  /\ SGo("zsinitWait")
  /\ UNCHANGED <<toS, stry, sgarb, negotiated, progress>>

SZsinitReply ==
  /\ spc = "zsinitWait"
  /\ \/ SReceives({"ZACK"}) /\ SGo("zfile") /\ stry' = 0
     \/ SReceives({"ZCAN"}) /\ SReturn("cancelled") /\ UNCHANGED stry
     \/ /\ \/ SReceives(FrameTypes \ {"ZACK", "ZCAN"}) \/ STimeout \/ SError
        /\ SRetry(MaxSinitErrors, "zsinit")
  /\ SQuiet /\ UNCHANGED <<negotiated, progress>>

-----------------------------------------------------------------------------
\* SendFile.
SFileTop ==
  /\ spc = "zfile"
  /\ SWrites(<<Hdr("ZFILE", 0), Info>>)
  /\ SGo("zfileWait")
  /\ UNCHANGED <<toS, stry, sgarb, negotiated, progress>>

SFileReply ==
  /\ spc = "zfileWait"
  /\ \/ /\ SReceives({"ZRINIT"})
        /\ SGo("discard") /\ UNCHANGED stry
     \/ /\ SReceives({"ZRQINIT"})
        /\ SReturn("failed") /\ UNCHANGED stry
     \/ /\ SReceives({"ZCAN", "ZABORT", "ZFIN"})
        /\ SReturn("cancelled") /\ UNCHANGED stry
     \/ /\ SReceives({"ZSKIP"})
        /\ SReturn("skipped") /\ UNCHANGED stry
     \/ /\ \/ STimeout \/ SError
           \/ SReceives(FrameTypes \ {"ZRINIT", "ZRQINIT", "ZCAN", "ZABORT",
                                      "ZFIN", "ZSKIP", "ZCRC", "ZRPOS"})
        /\ SRetry(MaxFileErrors, "zfile")
     \/ /\ SReceives({"ZRPOS"}) /\ rxpos > 0 /\ SeekFails
        /\ SReturn("failed") /\ UNCHANGED stry
  /\ SQuiet /\ UNCHANGED <<negotiated, progress>>

\* The loop after a ZRINIT drops bytes up to the next ZPAD or read error.  It
\* eats one of the two ZPADs of a hex header: getHeader still finds the rest.
SDiscard ==
  /\ spc = "discard"
  /\ \/ /\ toS # <<>> /\ Head(toS).k \notin {"hdr", "badhdr", "eof"}
        /\ toS' = Tail(toS) /\ UNCHANGED spc
     \/ /\ \/ toS # <<>> /\ Head(toS).k \in {"hdr", "badhdr", "eof"}
           \/ toS = <<>> /\ Deadlines
        /\ spc' = "zfile" /\ UNCHANGED toS
  /\ SQuiet /\ UNCHANGED <<sres, stry, sgarb, negotiated, progress>>

\* The ZCRC request: calculateFileCRC reads the file to its end.
SFileCRC ==
  /\ spc = "zfileWait"
  /\ SReceives({"ZCRC"})
  /\ fpos' = IF fpos < Len(File) THEN Len(File) ELSE fpos
  /\ SWrites(<<Hdr("ZCRC", 0)>>)
  /\ SGo("zfile")
  /\ UNCHANGED <<stry, negotiated, spos, slast, sjunk, scnt, slen>>

\* The start of sendFileData at position p: a ZDATA header and a seek.
\* Faults: the file is not sought, or sought to the position last received,
\* or the position before 0 does not wrap.
StartDataUnsought(p, seeks) ==
  /\ SWrites(<<Hdr("ZDATA", p)>>) /\ SGo("data")
  /\ spos' = p /\ slast' = IF p > 0 THEN p - 1 ELSE PosMod - 1
  /\ sjunk' = 0 /\ scnt' = 0 /\ UNCHANGED <<fpos, slen>>
StartDataBehind(p, seeks) ==
  /\ SWrites(<<Hdr("ZDATA", p)>>) /\ SGo("data")
  /\ fpos' = (IF p > 0 THEN p - 1 ELSE 0)
  /\ spos' = p /\ slast' = IF p > 0 THEN p - 1 ELSE PosMod - 1
  /\ sjunk' = 0 /\ scnt' = 0 /\ UNCHANGED slen
StartDataUnwrapped(p, seeks) ==
  /\ SWrites(<<Hdr("ZDATA", p)>>) /\ SGo("data")
  /\ fpos' = p /\ spos' = p /\ slast' = p - 1
  /\ sjunk' = 0 /\ scnt' = 0 /\ UNCHANGED slen
StartData(p, seeks) ==
  /\ SWrites(<<Hdr("ZDATA", p)>>)
  /\ SGo("data")
  /\ fpos' = IF Seekable /\ (seeks \/ p > 0) THEN p ELSE fpos
  /\ spos' = p
  /\ slast' = IF p > 0 THEN p - 1 ELSE PosMod - 1
  /\ sjunk' = 0 /\ scnt' = 0
  /\ UNCHANGED slen

SFileZRPOS ==
  /\ spc = "zfileWait"
  /\ SReceives({"ZRPOS"})
  /\ StartData(rxpos, FALSE)
  /\ UNCHANGED <<stry, negotiated>>

-----------------------------------------------------------------------------
\* sendFileData.
ReadLen ==
  LET left == IF fpos < Len(File) THEN Len(File) - fpos ELSE 0
  IN  IF left < sblk THEN left ELSE sblk

FrameEnd(n) ==
  IF n = 0 THEN "ZCRCE"
  ELSE IF sjunk > ForceW \/ spos = slast THEN "ZCRCW"
  ELSE IF swin > 0 /\ scnt + n >= swin THEN "ZCRCQ"
  ELSE "ZCRCG"

\* Window check at the end of the loop body: wait if the window is full.
WindowFull(pos, last) == swin > 0 /\ (pos - last) % PosMod >= swin
SWindow(pos, last, n) ==
  /\ SGo(IF WindowFull(pos, last) THEN (IF n = 0 THEN "winEnd" ELSE "win")
         ELSE IF n = 0 THEN "eof" ELSE "data")
  /\ stry' = 0

SBlock ==
  /\ spc = "data"
  /\ LET n == ReadLen  end == FrameEnd(ReadLen) IN
       /\ SWrites(<<Data(fpos, n, end)>>)
       /\ fpos' = fpos + n /\ spos' = spos + n /\ slen' = n
       /\ scnt' = (IF end = "ZCRCQ" THEN 0 ELSE scnt) + n
       /\ CASE end = "ZCRCW" -> SGo("ackW") /\ UNCHANGED stry
            [] end = "ZCRCQ" -> SGo("ackQ") /\ UNCHANGED stry
            [] OTHER         -> SWindow(spos + n, slast, n)
  /\ UNCHANGED <<toS, sgarb, negotiated, slast, sjunk>>

\* The context is done, or the file cannot be read or, after the ZDATA header
\* of a start, be sought again.
SCancelled ==
  /\ Cancellable \/ SourceFaults
  /\ spc = "data"
  /\ SReturn("failed")
  /\ SQuiet /\ UNCHANGED <<toS, stry, sgarb, negotiated, progress>>

\* junkCount++: give up, or go on with step.
Junk(max, step) ==
  IF sjunk + 1 > max
  THEN SReturn("failed") /\ UNCHANGED <<sjunk, stry, slast>>
  ELSE sjunk' = sjunk + 1 /\ step

SAckW ==
  /\ spc = "ackW" /\ SQuiet
  /\ UNCHANGED <<negotiated, fpos, spos, scnt, slen>>
  /\ \/ /\ SReceives({"ZACK"})
        /\ slast' = rxpos /\ sjunk' = 0 /\ SWindow(spos, rxpos, slen)
     \/ /\ SReceives({"ZRPOS"}) /\ rxpos = spos % PosMod
        /\ UNCHANGED <<slast, sjunk>> /\ SWindow(spos, slast, slen)
     \/ /\ SReceives({"ZRPOS"}) /\ rxpos # spos % PosMod /\ SeekFails
        /\ SReturn("failed") /\ UNCHANGED <<slast, sjunk, stry>>
     \/ /\ SReceives({"ZCAN", "ZABORT"})
        /\ SReturn("cancelled") /\ UNCHANGED <<slast, sjunk, stry>>
     \/ /\ SReceives({"ZSKIP"})
        /\ SReturn("skipped") /\ UNCHANGED <<slast, sjunk, stry>>
     \/ /\ SReceives(FrameTypes \ {"ZACK", "ZRPOS", "ZCAN", "ZABORT", "ZSKIP"})
        /\ Junk(MaxWErrors, SWindow(spos, slast, slen) /\ UNCHANGED slast)
     \/ /\ STimeout \/ SError
        /\ Junk(MaxWErrors, SGo("data") /\ UNCHANGED stry
                              /\ slast' = (spos - slen) % PosMod)

\* A ZRPOS elsewhere: seek, and a new ZDATA header inside the same loop.
SAckWSeek ==
  /\ spc = "ackW"
  /\ SReceives({"ZRPOS"}) /\ rxpos # spos % PosMod
  /\ fpos' = IF Seekable THEN rxpos ELSE fpos
  /\ spos' = rxpos /\ slast' = rxpos
  /\ SWrites(<<Hdr("ZDATA", rxpos)>>)
  /\ SGo("data")
  /\ UNCHANGED <<stry, negotiated, sjunk, scnt, slen>>

SAckQ ==
  /\ spc = "ackQ" /\ SQuiet
  /\ UNCHANGED <<negotiated, fpos, spos, scnt, slen>>
  /\ \/ /\ SReceives({"ZACK"})
        /\ slast' = rxpos /\ sjunk' = 0 /\ SWindow(spos, rxpos, slen)
     \/ /\ SReceives({"ZCAN"})
        /\ SReturn("cancelled") /\ UNCHANGED <<slast, sjunk, stry>>
     \/ /\ SReceives(FrameTypes \ {"ZACK", "ZCAN"}) \/ STimeout \/ SError
        /\ Junk(MaxQErrors, SWindow(spos, slast, slen) /\ UNCHANGED slast)

\* The window is full: up to WinTries reads, one ZACK ends the wait.
SWinWait ==
  /\ spc \in {"win", "winEnd"} /\ SQuiet
  /\ UNCHANGED <<negotiated, fpos, spos, sjunk, scnt, slen>>
  /\ \/ /\ SReceives({"ZACK"})
        /\ slast' = rxpos /\ UNCHANGED stry
        /\ SGo(IF spc = "win" THEN "data" ELSE "eof")
     \/ /\ SReceives({"ZCAN"})
        /\ SReturn("cancelled") /\ UNCHANGED <<slast, stry>>
     \/ /\ SReceives(FrameTypes \ {"ZACK", "ZCAN"})
        /\ SReturn("failed") /\ UNCHANGED <<slast, stry>>
     \/ /\ STimeout \/ SError
        /\ SRetry(WinTries - 1, spc) /\ UNCHANGED slast

\* Fault: ZEOF carries the position last acknowledged.
SEofTopAtLast ==
  /\ spc = "eof"
  /\ SWrites(<<Hdr("ZEOF", slast)>>)
  /\ SGo("eofWait")
  /\ UNCHANGED <<toS, stry, sgarb, negotiated, progress>>
SEofTop ==
  /\ spc = "eof"
  /\ SWrites(<<Hdr("ZEOF", spos)>>)
  /\ SGo("eofWait")
  /\ UNCHANGED <<toS, stry, sgarb, negotiated, progress>>

\* Fault: a timeout passes for the answer.
SEofReplyHopeful ==
  /\ spc = "eofWait"
  /\ \/ SReceives({"ZACK", "ZRINIT"}) \/ STimeout
     \/ SReceives({"ZSKIP"})
  /\ SReturn("ok")
  /\ SQuiet /\ UNCHANGED <<stry, negotiated, progress>>
SEofReply ==
  /\ spc = "eofWait"
  /\ \/ SReceives({"ZACK", "ZRINIT"}) /\ SReturn("ok")
     \/ SReceives({"ZSKIP"}) /\ SReturn("skipped")
     \/ /\ \/ SReceives(FrameTypes \ {"ZACK", "ZRINIT", "ZSKIP", "ZRPOS"})
           \/ STimeout \/ SError
           \/ SReceives({"ZRPOS"}) /\ SeekFails
        /\ SReturn("failed")
  /\ SQuiet /\ UNCHANGED <<stry, negotiated, progress>>

\* Fault: a ZRPOS after ZEOF is not answered with data.
SEofZRPOSFails ==
  /\ spc = "eofWait"
  /\ SReceives({"ZRPOS"}) /\ SReturn("failed") /\ SQuiet
  /\ UNCHANGED <<stry, negotiated, progress>>
SEofZRPOS ==
  /\ spc = "eofWait"
  /\ SReceives({"ZRPOS"})
  /\ StartData(rxpos, TRUE)
  /\ UNCHANGED <<stry, negotiated>>

-----------------------------------------------------------------------------
\* A write to a stream whose reader is gone: the error ends the call.
SWriting ==
  \/ spc \in {"init", "zsinit", "zfile", "data", "eof"}
  \/ /\ toS # <<>> /\ Head(toS).k = "hdr"
     /\ \/ spc = "initWait" /\ Head(toS).t \notin {"ZRINIT", "ZCOMMAND", "ZCAN"}
        \/ spc = "zfileWait" /\ Head(toS).t \in {"ZRPOS", "ZCRC"}
        \/ spc \in {"ackW", "eofWait"} /\ Head(toS).t = "ZRPOS"

SWriteFails ==
  /\ SWriting /\ Closed(toS)
  /\ SReturn("failed")
  /\ SQuiet /\ UNCHANGED <<toS, stry, sgarb, negotiated, progress>>

\* The call has returned: the program closes its side (ssh.go, cmd/gsz).
SClose ==
  /\ spc = "ret"
  /\ spc' = "end"
  /\ toR' = Append(toR, Eof)
  /\ UNCHANGED <<toS, sres, stry, sgarb, negotiated, progress>>

\* A step inside GetReceiverInit, SendZSINIT or SendFile.
SCall ==
  \/ SSkipGarbage
  \/ SInitTop \/ SInitZRINIT \/ SInitOther \/ SInitNoHeader
  \/ SZsinitTop \/ SZsinitReply
  \/ SFileTop \/ SFileReply \/ SDiscard \/ SFileCRC \/ SFileZRPOS
  \/ SBlock \/ SCancelled
  \/ SAckW \/ SAckWSeek \/ SAckQ \/ SWinWait
  \/ SEofTop \/ SEofReply \/ SEofZRPOS
  \/ SWriteFails

SNext == SCall \/ SClose

-----------------------------------------------------------------------------
\* The file is read at the position the sender counts, and read to its end
\* before ZEOF, as long as nobody asked for its CRC (sender.go:707-785).
ReaderInStep ==
  /\ spc \in BeforeData => fpos = 0
  /\ spc \in InData => fpos = spos /\ spos <= Len(File)
  /\ spc \in {"winEnd", "eof", "eofWait"} => spos = Len(File)
  /\ spc \in {"ackW", "ackQ"} => slen > 0

\* A ZDATA header never labels the wrong bytes: a block that follows it in
\* the stream starts at its position, through every seek, restart and resend
\* of sendFileData (sender.go:707-720, 812-829, 913-923).
FramesLabelled ==
  \A i \in 1 .. Len(toR) - 1 :
    /\ toR[i].k = "hdr" /\ toR[i].t = "ZDATA"
    /\ toR[i + 1].k = "data" /\ toR[i + 1].n > 0
    => toR[i].p = toR[i + 1].lo
=============================================================================
