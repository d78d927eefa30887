----------------------------- MODULE ZSendToRz -----------------------------
(***************************************************************************)
(* The sender of package zmodem against the rz of lrzsz at the far end of  *)
(* an SSH session (ssh.go, cmd/gsz): a program outside the repository,     *)
(* modelled from what sender.go waits for.  It keeps its own position,     *)
(* asks again for what it missed or cannot place, acknowledges ZCRCW and   *)
(* ZCRCQ, answers the right ZEOF with a ZRINIT, and gives up after a       *)
(* number of timeouts.                                                     *)
(***************************************************************************)
EXTENDS ZSender

CONSTANTS
  RzTimeouts,   \* timeouts it takes before it gives up
  RzHasty,      \* its timer may run out while frames are still on their way
  MayAskCRC,    \* it may ask for the CRC of a file it already has
  StrayTypes,   \* other frames it may send at any time,
  MaxStrays     \* and how many of them

ASSUME RzAssumption ==
  /\ RzTimeouts \in Nat /\ MaxStrays \in Nat /\ {MayAskCRC, RzHasty} \subseteq BOOLEAN
  /\ StrayTypes \subseteq FrameTypes

VARIABLES
  zpc,     \* where rz is
  zcopy,   \* its file: the source offsets of the bytes it wrote
  ztimes,  \* timeouts so far
  strays,  \* stray frames so far
  returned \* SendFileWhenRemoteReceives has returned

zvars == <<zpc, zcopy, ztimes, strays>>
vars == <<line, svars, zvars, returned>>

\* No file yet: "idle", or "asked" when it wants the CRC of its old copy.
NoFile == {"idle", "asked"}

RzTypeOK ==
  /\ zpc \in NoFile \cup {"file", "data", "done", "end"}
  /\ zcopy \in Seq(Nat)
  /\ ztimes \in 0 .. RzTimeouts /\ strays \in 0 .. MaxStrays

\* As in ZTransfer: the sender's positions and counters keep their range
\* whatever frame it is sent.
TypeOK == LineTypeOK /\ SenderTypeOK /\ RzTypeOK /\ returned \in BOOLEAN

\* It starts with a ZRINIT of its own, whatever it hears.
Init ==
  /\ toR = <<>> /\ toS = <<Hdr("ZRINIT", 0)>> /\ faults = 0
  /\ SenderInit
  /\ zpc = "idle" /\ zcopy = <<>> /\ ztimes = 0 /\ strays = 0
  /\ returned = FALSE

-----------------------------------------------------------------------------
Heard(t) == toR # <<>> /\ Head(toR).k = "hdr" /\ Head(toR).t = t
HeardInfo(t) == Heard(t) /\ Len(toR) > 1 /\ toR[2] = Info
RzReads(n) == toR' = SubSeq(toR, n + 1, Len(toR))
RzWrites(es) == Written(toS, toR, es, toS')
AsksFor == Hdr("ZRPOS", Len(zcopy))

RzGreets ==
  /\ zpc \in NoFile /\ UNCHANGED <<zcopy, ztimes, strays>>
  /\ \/ /\ Heard("ZRQINIT")
        /\ RzReads(1) /\ RzWrites(<<Hdr("ZRINIT", 0)>>) /\ UNCHANGED zpc
     \/ /\ HeardInfo("ZSINIT")
        /\ RzReads(2) /\ RzWrites(<<Hdr("ZACK", 0)>>) /\ UNCHANGED zpc
     \/ /\ HeardInfo("ZFILE")
        /\ RzReads(2) /\ RzWrites(<<AsksFor>>) /\ zpc' = "file"
     \/ /\ MayAskCRC /\ zpc = "idle" /\ HeardInfo("ZFILE")
        /\ RzReads(2) /\ RzWrites(<<Hdr("ZCRC", 0)>>) /\ zpc' = "asked"

\* A header while a file is open.
RzFrame ==
  /\ zpc = "file" /\ UNCHANGED <<zcopy, ztimes, strays>>
  /\ \/ /\ Heard("ZDATA")
        /\ RzReads(1)
        /\ IF Head(toR).p = Len(zcopy)
           THEN zpc' = "data" /\ UNCHANGED toS
           ELSE RzWrites(<<AsksFor>>) /\ UNCHANGED zpc
     \/ /\ Heard("ZEOF") /\ Head(toR).p = Len(zcopy)
        /\ RzReads(1) /\ RzWrites(<<Hdr("ZRINIT", 0)>>) /\ zpc' = "done"
     \/ /\ HeardInfo("ZFILE")
        /\ RzReads(2) /\ RzWrites(<<AsksFor>>) /\ UNCHANGED zpc

\* A subpacket inside a ZDATA frame; ZCRCW and ZCRCE end the frame.
RzBlock ==
  /\ zpc = "data" /\ toR # <<>> /\ UNCHANGED <<ztimes, strays>>
  /\ RzReads(1)
  /\ LET e == Head(toR) IN
     \/ /\ e.k = "data"
        /\ zcopy' = zcopy \o [i \in 1 .. e.n |-> e.lo + i - 1]
        /\ zpc' = IF e.end \in {"ZCRCG", "ZCRCQ"} THEN "data" ELSE "file"
        /\ IF e.end \in {"ZCRCQ", "ZCRCW"}
           THEN RzWrites(<<Hdr("ZACK", Len(zcopy) + e.n)>>) ELSE UNCHANGED toS
     \/ /\ e.k \notin {"data", "eof"}
        /\ RzWrites(<<AsksFor>>) /\ zpc' = "file" /\ UNCHANGED zcopy

\* Whatever else arrives is passed over.
RzSkips ==
  /\ zpc \notin {"data", "end"}
  /\ toR # <<>> /\ Head(toR).k # "eof"
  /\ zpc \in NoFile => ~(Heard("ZRQINIT") \/ HeardInfo("ZSINIT") \/ HeardInfo("ZFILE"))
  /\ zpc = "file" => ~(\/ Heard("ZDATA") \/ HeardInfo("ZFILE")
                       \/ Heard("ZEOF") /\ Head(toR).p = Len(zcopy))
  /\ RzReads(1) /\ UNCHANGED <<toS, zvars>>

\* A timeout: it repeats its last request, or gives up.
RzTimeout ==
  /\ zpc # "end" /\ toR = <<>>
  /\ RzHasty \/ (toS = <<>> /\ spc \in SWaits \cup {"discard", "end"})
  /\ UNCHANGED <<toR, zcopy, strays>>
  /\ IF ztimes < RzTimeouts
     THEN /\ ztimes' = ztimes + 1
          /\ RzWrites(<<IF zpc \in NoFile \cup {"done"} THEN Hdr("ZRINIT", 0)
                        ELSE AsksFor>>)
          /\ zpc' = IF zpc = "data" THEN "file" ELSE zpc
     ELSE /\ zpc' = "end" /\ toS' = Append(toS, Eof) /\ UNCHANGED ztimes

RzCloses ==
  /\ zpc # "end" /\ toR # <<>> /\ Head(toR).k = "eof"
  /\ zpc' = "end" /\ toS' = Append(toS, Eof)
  /\ UNCHANGED <<toR, zcopy, ztimes, strays>>

Rz == RzGreets \/ RzFrame \/ RzBlock \/ RzSkips \/ RzTimeout \/ RzCloses

\* A frame that belongs to another part of the protocol, or to a session
\* that ended: ZCHALLENGE, ZSKIP, ZCAN, an old ZACK...
Stray ==
  /\ zpc # "end" /\ strays < MaxStrays /\ strays' = strays + 1
  /\ \E t \in StrayTypes, p \in 0 .. Len(File) : RzWrites(<<Hdr(t, p)>>)
  /\ UNCHANGED <<toR, zpc, zcopy, ztimes>>

-----------------------------------------------------------------------------
Sender == SNext /\ UNCHANGED <<faults, zvars, returned>>
Peer == Rz /\ UNCHANGED <<faults, svars, returned>>
Line == \/ Garble /\ UNCHANGED <<svars, zvars, returned>>
        \/ Stray /\ UNCHANGED <<faults, svars, returned>>

\* With stdin closed the call waits for the remote command, but not after an
\* error; a context that is done ends the wait.
Waited == sres = "ok" => zpc = "end"
SshReturn ==
  /\ ~returned /\ spc = "end" /\ Waited
  /\ returned' = TRUE /\ UNCHANGED <<line, svars, zvars>>
SshCancelled ==
  /\ Cancellable /\ ~returned /\ spc = "end" /\ ~Waited
  /\ returned' = TRUE /\ UNCHANGED <<line, svars, zvars>>

Done == returned /\ zpc = "end" /\ UNCHANGED vars

Next == Sender \/ Peer \/ Line \/ SshReturn \/ SshCancelled \/ Done

\* rz is another process that keeps running; SSH gives the sender no
\* deadlines (ssh.go:84-88), so the timeouts of rz are what frees it.
FairSpec ==
  /\ Init /\ [][Next]_vars
  /\ WF_vars(Sender) /\ WF_vars(Peer) /\ WF_vars(SshReturn)

-----------------------------------------------------------------------------
\* rz cannot see which bytes of the file a subpacket holds.  It still writes
\* a prefix of the file, because sendFileData reads the file at the position
\* it announces, after every seek (sender.go:713-720, 806-823, 912-921).
RzWritesPrefix == zcopy = [i \in 1 .. Len(zcopy) |-> i - 1]

\* A sender that reports success was answered for the end of the file: no
\* late ZACK of a block and no repeated ZRINIT passes for the answer to ZEOF
\* (sender.go:898-924).
SuccessIsDelivery == sres = "ok" => Len(zcopy) = Len(File)

\* The call returns, after both streams are closed: neither the transfer nor
\* the wait for the remote command hangs (sender.go:224-931, ssh.go:298-312).
Terminates == <>(returned /\ zpc = "end")

\* When nothing is damaged the sender succeeds, against a patient rz: this is
\* the use the package is written for.
DeliversToRz == [](faults = 0 /\ strays = 0) => <>(sres = "ok")
=============================================================================
