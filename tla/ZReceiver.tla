----------------------------- MODULE ZReceiver -----------------------------
(***************************************************************************)
(* The receiving side: WaitForZFILE and ReceiveFile of zmodem/receiver.go  *)
(* and the decisions Session.ReceiveFile (session.go) takes between them,  *)
(* for one file.  Each action is one pass through a loop body between two  *)
(* blocking reads or writes.                                               *)
(***************************************************************************)
EXTENDS ZLine, FiniteSets

CONSTANTS
  BufferSize,                        \* config: the zrdata buffer
  RAttn,                             \* config: an attention string is set
  MayDecline,                        \* OnFilePrompt may answer no
  DiskFaults,                        \* creating or writing the file may fail
  MaxTries, MaxZrqinitsSeen,         \* 15, 10 in WaitForZFILE
  MaxInfoErrors, FinTries,           \* 20, 20 in WaitForZFILE
  MaxRxErrors                        \* 20 in ReceiveFile

ASSUME ReceiverAssumption ==
  /\ BufferSize \in Nat \ {0}
  /\ {RAttn, MayDecline, DiskFaults} \subseteq BOOLEAN
  /\ {MaxTries, MaxZrqinitsSeen, MaxInfoErrors, FinTries, MaxRxErrors}
       \subseteq Nat

VARIABLES
  rpc,    \* where the receiver is
  rres,   \* what its call returned: "none" while it runs
  rtry,   \* rounds of the WaitForZFILE loop
  rzrq,   \* zrqinitsReceived
  rerr,   \* errors
  rgarb,  \* garbage skipped by the current getHeader
  rattn,  \* len(attn) > 0
  rpos,   \* bytesReceived
  disk    \* the file written: the source offsets of its bytes, in order

rvars == <<rpc, rres, rtry, rzrq, rerr, rgarb, rattn, rpos, disk>>

RWaits == {"zfileWait", "finWait", "dataWait"}
RPcs == RWaits \cup {"try", "zfileInfo", "zsinitInfo", "commandInfo",
                     "prompt", "zrpos", "discard", "block", "ret", "end"}
RResults == {"none", "ok", "skipped", "cancelled", "denied", "failed"}

ReceiverTypeOK ==
  /\ rpc \in RPcs /\ rres \in RResults
  /\ rtry \in Nat /\ rzrq \in Nat /\ rerr \in Nat /\ rgarb \in Nat
  /\ rattn \in BOOLEAN /\ rpos \in Nat /\ disk \in Seq(Nat)

ReceiverInit ==
  /\ rpc = "try" /\ rres = "none" /\ rtry = 0 /\ rzrq = 0 /\ rerr = 0
  /\ rgarb = 0 /\ rattn = RAttn /\ rpos = 0 /\ disk = <<>>

-----------------------------------------------------------------------------
RGo(pc) == rpc' = pc /\ UNCHANGED rres
RReturn(r) == rpc' = "ret" /\ rres' = r
RWrites(es) == Written(toS, toR, es, toS')
RQuiet == UNCHANGED toS
RReceives(types) == Arrives(toR, types, toR') /\ rgarb' = 0
RTimeout == TimesOut(toR, rgarb, toR') /\ rgarb' = 0
RError == Fails(toR, rgarb, toR') /\ rgarb' = 0
rxhdr == Head(toR).p

RSkipGarbage ==
  /\ rpc \in RWaits
  /\ Skips(toR, rgarb, toR', rgarb')
  /\ RQuiet
  /\ UNCHANGED <<rpc, rres, rtry, rzrq, rerr, rattn, rpos, disk>>

-----------------------------------------------------------------------------
\* WaitForZFILE: every round sends a ZRINIT and waits for one frame.
RTry ==
  /\ rpc = "try"
  /\ IF rtry < MaxTries /\ rzrq < MaxZrqinitsSeen
     THEN RWrites(<<Hdr("ZRINIT", 0)>>) /\ RGo("zfileWait")
     ELSE RQuiet /\ RReturn("failed")
  /\ UNCHANGED <<toR, rtry, rzrq, rerr, rgarb, rattn, rpos, disk>>

RAgain == RGo("try") /\ rtry' = rtry + 1
RPass(pc) == RGo(pc) /\ UNCHANGED rtry

RTryReply ==
  /\ rpc = "zfileWait"
  /\ \/ /\ RReceives({"ZRQINIT"})
        /\ rzrq' = rzrq + 1 /\ RAgain /\ RQuiet
     \/ /\ UNCHANGED rzrq
        /\ \/ RReceives({"ZFILE"}) /\ RPass("zfileInfo") /\ RQuiet
           \/ RReceives({"ZSINIT"}) /\ RPass("zsinitInfo") /\ RQuiet
           \/ RReceives({"ZCOMMAND"}) /\ RPass("commandInfo") /\ RQuiet
           \/ /\ RReceives({"ZFREECNT"})
              /\ RWrites(<<Hdr("ZACK", PosMod - 1)>>) /\ RAgain
           \/ /\ RReceives({"ZFIN", "ZCAN"})
              /\ RReturn("cancelled") /\ UNCHANGED rtry /\ RQuiet
           \/ /\ RReceives({"ZRINIT"})
              /\ RReturn("failed") /\ UNCHANGED rtry /\ RQuiet
           \/ /\ RReceives(FrameTypes \ {"ZRQINIT", "ZFILE", "ZSINIT", "ZCOMMAND",
                                         "ZFREECNT", "ZFIN", "ZCAN", "ZRINIT"})
              /\ RAgain /\ RQuiet
           \/ RTimeout /\ RAgain /\ RQuiet
           \/ RError /\ RReturn("failed") /\ UNCHANGED rtry /\ RQuiet
  /\ UNCHANGED <<rerr, rattn, rpos, disk>>

\* The subpacket after ZFILE, ZSINIT or ZCOMMAND; all three end in ZCRCW.
RInfo ==
  /\ rpc \in {"zfileInfo", "zsinitInfo", "commandInfo"}
  /\ \E e \in {Info} : Reads(toR, "info", e, toR')
  /\ CASE rpc = "zfileInfo" ->
            RPass("prompt") /\ RQuiet /\ UNCHANGED <<rerr, rattn>>
       [] rpc = "zsinitInfo" ->
            /\ RWrites(<<Hdr("ZACK", 1)>>) /\ RAgain
            /\ rattn' = TRUE /\ UNCHANGED rerr
       [] OTHER ->
            /\ RWrites(<<Hdr("ZCOMPL", 0)>>) /\ RPass("finWait")
            /\ rerr' = 0 /\ UNCHANGED rattn
  /\ UNCHANGED <<rzrq, rgarb, rpos, disk>>

RInfoFails ==
  /\ rpc \in {"zfileInfo", "zsinitInfo", "commandInfo"}
  /\ ReadFails(toR, "info", toR')
  /\ RWrites(<<Hdr("ZNAK", 0)>>)
  /\ IF rpc = "zfileInfo"
     THEN /\ rerr' = rerr + 1
          /\ IF rerr + 1 > MaxInfoErrors THEN RReturn("failed") /\ UNCHANGED rtry
                                         ELSE RAgain
     ELSE UNCHANGED rerr /\ RAgain
  /\ UNCHANGED <<rzrq, rgarb, rattn, rpos, disk>>

\* A denied command: wait for the ZFIN that ends the session.
RFinWait ==
  /\ rpc = "finWait" /\ RQuiet
  /\ \/ RReceives({"ZFIN"}) /\ RReturn("denied") /\ UNCHANGED rerr
     \/ /\ RReceives(FrameTypes \ {"ZFIN"}) \/ RTimeout \/ RError
        /\ rerr' = rerr + 1
        /\ IF rerr + 1 >= FinTries THEN RReturn("denied") ELSE RGo("finWait")
  /\ UNCHANGED <<rtry, rzrq, rattn, rpos, disk>>

-----------------------------------------------------------------------------
\* Session.ReceiveFile: ask the user, create the file.
RPrompt ==
  /\ rpc = "prompt"
  /\ \/ RPass("zrpos") /\ RQuiet /\ rerr' = 0
     \/ /\ MayDecline
        /\ RWrites(<<Hdr("ZSKIP", 0)>>) /\ RReturn("skipped")
        /\ UNCHANGED <<rtry, rerr>>
     \/ /\ DiskFaults
        /\ RQuiet /\ RReturn("failed") /\ UNCHANGED <<rtry, rerr>>
  /\ UNCHANGED <<toR, rzrq, rgarb, rattn, rpos, disk>>

-----------------------------------------------------------------------------
\* ReceiveFile: every round sends a ZRPOS and waits for one frame.
\* Fault: after an error the file is asked for from its beginning.
RZrposAfresh ==
  /\ rpc = "zrpos"
  /\ RWrites(<<Hdr("ZRPOS", IF rerr > 0 THEN 0 ELSE rpos)>>) /\ RGo("dataWait")
  /\ UNCHANGED <<toR, rtry, rzrq, rerr, rgarb, rattn, rpos, disk>>
\* Fault: the first request is not sent.
RZrposSilent ==
  /\ rpc = "zrpos"
  /\ RQuiet /\ RGo("dataWait")
  /\ UNCHANGED <<toR, rtry, rzrq, rerr, rgarb, rattn, rpos, disk>>
RZrpos ==
  /\ rpc = "zrpos"
  /\ RWrites(<<Hdr("ZRPOS", rpos)>>) /\ RGo("dataWait")
  /\ UNCHANGED <<toR, rtry, rzrq, rerr, rgarb, rattn, rpos, disk>>

\* if errors++; errors > maxErrors { return } else go round again.
\* Fault: errors are not counted, or counted down.
RRetryForever == UNCHANGED rerr /\ RGo("zrpos")
RRetryDown == rerr' = rerr - 1 /\ RGo("zrpos")
RRetry ==
  /\ rerr' = rerr + 1
  /\ IF rerr + 1 > MaxRxErrors THEN RReturn("failed") ELSE RGo("zrpos")

\* The attention string goes out as it is, with its zero byte.
RAttention ==
  IF rattn /\ rerr + 1 <= MaxRxErrors THEN RWrites(<<Nul>>) ELSE RQuiet

\* Fault: the position of a ZEOF or ZDATA header is not compared.
InPlaceAlways == TRUE
\* A ZEOF or ZDATA header is for the position reached.
InPlace == rxhdr = rpos % PosMod

RDataReply ==
  /\ rpc = "dataWait"
  /\ \/ RReceives({"ZFILE"}) /\ RGo("discard") /\ RQuiet /\ UNCHANGED rerr
     \/ RReceives({"ZSKIP"}) /\ RReturn("skipped") /\ RQuiet /\ UNCHANGED rerr
     \/ /\ RReceives({"ZEOF"}) /\ ~InPlace
        /\ RGo("zrpos") /\ RQuiet /\ rerr' = 0
     \/ /\ RReceives({"ZEOF"}) /\ InPlace
        /\ RWrites(<<Hdr("ZACK", rpos)>>) /\ RReturn("ok") /\ UNCHANGED rerr
     \/ /\ RReceives({"ZDATA"}) /\ ~InPlace
        /\ RAttention /\ RRetry
     \/ /\ RReceives({"ZDATA"}) /\ InPlace
        /\ RGo("block") /\ RQuiet /\ UNCHANGED rerr
     \/ /\ RReceives(FrameTypes \ {"ZFILE", "ZSKIP", "ZEOF", "ZDATA"})
             \/ RTimeout
        /\ RRetry /\ RQuiet
     \/ RError /\ RReturn("failed") /\ RQuiet /\ UNCHANGED rerr
  /\ UNCHANGED <<rtry, rzrq, rattn, rpos, disk>>

\* A repeated ZFILE: its subpacket is read, whatever it is, and forgotten.
RDiscard ==
  /\ rpc = "discard"
  /\ Reads(toR, "info", Info, toR') \/ ReadFails(toR, "info", toR')
  /\ RGo("zrpos") /\ RQuiet
  /\ UNCHANGED <<rtry, rzrq, rerr, rgarb, rattn, rpos, disk>>

\* One subpacket is read and written, then the loop starts over at ZRPOS.
RBlock ==
  /\ rpc = "block"
  /\ toR # <<>>
  /\ LET e == Head(toR) IN
       /\ Reads(toR, "data", e, toR')
       /\ e.n <= BufferSize
       /\ \/ /\ disk' = disk \o [i \in 1 .. e.n |-> e.lo + i - 1]
             /\ rpos' = rpos + e.n
             /\ rerr' = 0
             /\ \/ /\ RGo("zrpos")
                   /\ IF e.end \in {"ZCRCW", "ZCRCQ"}
                      THEN RWrites(<<Hdr("ZACK", rpos + e.n)>>) ELSE RQuiet
                \/ /\ e.end \in {"ZCRCW", "ZCRCQ"} /\ Closed(toR)
                   /\ RReturn("failed") /\ RQuiet
          \/ /\ DiskFaults
             /\ RReturn("failed") /\ RQuiet /\ UNCHANGED <<disk, rpos, rerr>>
  /\ UNCHANGED <<rtry, rzrq, rgarb, rattn>>

\* zrdata stops one byte behind the end of its buffer; what follows stays on
\* the line.
TooLong(e) ==
  /\ e.k = "data" /\ e.n > BufferSize
  /\ Offsets("esc", e.lo, BufferSize + 1) = {}
StopsBehindBuffer ==
  LET e == Head(toR)
  IN  toR' = [toR EXCEPT ![1] = Part(e.lo + (BufferSize + 1), e.n - (BufferSize + 1))]

RBlockFails ==
  /\ rpc = "block"
  /\ IF toR # <<>> /\ TooLong(Head(toR)) THEN StopsBehindBuffer
                                         ELSE ReadFails(toR, "data", toR')
  /\ RAttention /\ RRetry
  /\ UNCHANGED <<rtry, rzrq, rgarb, rattn, rpos, disk>>

-----------------------------------------------------------------------------
\* A write to a stream whose reader is gone: the error ends the call.
RWriting ==
  \/ rpc \in {"try", "zrpos", "zfileInfo", "zsinitInfo", "commandInfo"}
  \/ rpc = "dataWait" /\ Head(toR).k = "hdr" /\ Head(toR).t = "ZEOF"
  \/ rpc = "zfileWait" /\ Head(toR).k = "hdr" /\ Head(toR).t = "ZFREECNT"
  \/ rpc = "prompt" /\ MayDecline

RWriteFails ==
  /\ Closed(toR) /\ RWriting
  /\ RReturn("failed")
  /\ RQuiet /\ UNCHANGED <<toR, rtry, rzrq, rerr, rgarb, rattn, rpos, disk>>

\* The call has returned: the program closes its side (ssh.go, cmd/grz).
RClose ==
  /\ rpc = "ret"
  /\ rpc' = "end"
  /\ toS' = Append(toS, Eof)
  /\ UNCHANGED <<toR, rres, rtry, rzrq, rerr, rgarb, rattn, rpos, disk>>

\* A step inside WaitForZFILE, Session.ReceiveFile or ReceiveFile.
RCall ==
  \/ RSkipGarbage
  \/ RTry \/ RTryReply \/ RInfo \/ RInfoFails \/ RFinWait
  \/ RPrompt
  \/ RZrpos \/ RDataReply \/ RDiscard \/ RBlock \/ RBlockFails
  \/ RWriteFails

RNext == RCall \/ RClose

-----------------------------------------------------------------------------
\* Integrity: whatever was damaged, repeated or skipped on the way, the file
\* written is a prefix of the file sent: every write of ReceiveFile appends
\* exactly the bytes that follow (receiver.go:484-523).
WrittenIsPrefix ==
  /\ disk = [i \in 1 .. Len(disk) |-> i - 1]
  /\ Len(disk) <= Len(File)

\* A receiver that reports success has the whole file, although it never
\* looks at the size the ZFILE header announced (receiver.go:392, 432-446).
ReceivedIsComplete == rres = "ok" => Len(disk) = Len(File)

\* A request for a position, on its way to the sender.
Asks(e) == e.k = "hdr" /\ e.t = "ZRPOS"

\* ReceiveFile asks for one position again and again, but never goes back:
\* the requests on their way to the sender ascend (receiver.go:391-396).
RequestsAscend ==
  \A i \in 1 .. Len(toS) : Asks(toS[i]) =>
    /\ toS[i].p <= Len(disk)
    /\ \A j \in 1 .. i : Asks(toS[j]) => toS[j].p <= toS[i].p

-----------------------------------------------------------------------------
\* The limits of getHeader and ReceiveFile suffice to pass the file's bytes from
\* the given offset over as garbage: fewer than MaxGarbage of them in a row, and
\* fewer zero bytes among them, each a timeout, than ReceiveFile tolerates.
Passable(from) ==
  /\ \A lo \in from .. Len(File) : \A n \in 0 .. Len(File) - lo :
       Offsets("nul", lo, n) = {} => n < MaxGarbage
  /\ Cardinality(Offsets("nul", from, Len(File) - from)) < MaxRxErrors

-----------------------------------------------------------------------------
\* What the inductive invariants of the compositions say of the receiver: its
\* answers are of few types, ask for positions of the file, and end with it;
FramesToS ==
  /\ rpc = "end" => Closed(toS)
  /\ \A i \in 1 .. Len(toS) :
       /\ toS[i].k = "eof" => rpc = "end"
       /\ toS[i].k = "hdr" =>
            /\ toS[i].t \in {"ZRINIT", "ZNAK", "ZACK", "ZRPOS", "ZSKIP", "ZCOMPL"}
            /\ toS[i].t = "ZRPOS" => toS[i].p <= Len(File)

\* what it wrote is the prefix up to its position, the whole at success.
Copied ==
  /\ disk = [i \in 1 .. rpos |-> i - 1]
  /\ rpos <= Len(File)
  /\ rres = "ok" => rpos = Len(File)
  /\ rres = "none" <=> rpc \notin {"ret", "end"}
=============================================================================
