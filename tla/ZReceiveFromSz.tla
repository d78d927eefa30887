--------------------------- MODULE ZReceiveFromSz ---------------------------
(***************************************************************************)
(* The receiver of package zmodem against the sz of lrzsz at the far end   *)
(* of an SSH session (ssh.go, terminal.go, cmd/grz): a program outside the *)
(* repository, modelled from what receiver.go waits for.  It streams the   *)
(* file from the position it was last asked for, in blocks of any size and *)
(* with any frame end, looks at the answers between blocks when it likes,  *)
(* and gives up after a number of timeouts.                                *)
(***************************************************************************)
EXTENDS ZReceiver

CONSTANTS
  MaxBlock,     \* largest block
  SzEnds,       \* how it ends a block that is not the last one
  SzTries,      \* timeouts and restarts before it gives up
  StrayTypes,   \* other frames it may send at any time,
  MaxStrays     \* and how many of them

ASSUME SzAssumption ==
  /\ MaxBlock \in Nat \ {0} /\ {SzTries, MaxStrays} \subseteq Nat
  /\ SzEnds \subseteq {"ZCRCG", "ZCRCQ", "ZCRCW"}
  /\ StrayTypes \subseteq FrameTypes \ {"ZDATA", "ZEOF"}

VARIABLES
  ypc,     \* where sz is
  ypos,    \* source offset of the next block
  ytimes,  \* timeouts and restarts so far
  strays   \* stray frames so far

yvars == <<ypc, ypos, ytimes, strays>>
vars == <<line, rvars, yvars>>

SzWaits == {"hello", "sinit", "file", "ack", "eof", "done"}
SzTypeOK ==
  /\ ypc \in SzWaits \cup {"data", "end"}
  /\ ypos \in 0 .. Len(File)
  /\ ytimes \in 0 .. SzTries /\ strays \in 0 .. MaxStrays

\* As in ZTransfer: the receiver's counters never fall below zero.
TypeOK == LineTypeOK /\ ReceiverTypeOK /\ SzTypeOK

Init ==
  /\ toR = <<Hdr("ZRQINIT", 0)>> /\ toS = <<>> /\ faults = 0
  /\ ReceiverInit
  /\ ypc = "hello" /\ ypos = 0 /\ ytimes = 0 /\ strays = 0

-----------------------------------------------------------------------------
Heard(t) == toS # <<>> /\ Head(toS).k = "hdr" /\ Head(toS).t = t
HeardOneOf(types) == \E t \in types : Heard(t)
SzReads == toS' = Tail(toS)
SzWrites(es) == Written(toR, toS, es, toR')

SzHello ==
  /\ ypc \in {"hello", "sinit"} /\ UNCHANGED <<ypos, ytimes, strays>>
  /\ \/ /\ ypc = "hello" /\ Heard("ZRINIT")
        /\ SzReads /\ SzWrites(<<Hdr("ZSINIT", 0), Info>>) /\ ypc' = "sinit"
     \/ /\ Heard(IF ypc = "hello" THEN "ZRINIT" ELSE "ZACK")
        /\ SzReads /\ SzWrites(<<Hdr("ZFILE", 0), Info>>) /\ ypc' = "file"

SzGivesUp == ypc' = "end" /\ toR' = Append(toR, Eof) /\ UNCHANGED <<ypos, ytimes>>

\* A request for a position: it starts over from there, wherever it is.
SzRewinds ==
  /\ ypc \in {"file", "data", "ack", "eof"} /\ Heard("ZRPOS")
  /\ SzReads /\ UNCHANGED strays
  /\ IF ytimes < SzTries
     THEN /\ SzWrites(<<Hdr("ZDATA", Head(toS).p)>>)
          /\ ypos' = Head(toS).p /\ ypc' = "data" /\ ytimes' = ytimes + 1
     ELSE SzGivesUp

\* The next block, or the last one and the end of the file after it.
SzBlock ==
  /\ ypc = "data" /\ UNCHANGED <<toS, ytimes, strays>>
  /\ \/ \E n \in 1 .. MaxBlock, end \in SzEnds :
          /\ ypos + n <= Len(File)
          /\ SzWrites(<<Data(ypos, n, end)>>)
          /\ ypos' = ypos + n
          /\ ypc' = IF end = "ZCRCW" THEN "ack" ELSE "data"
     \/ \E n \in 0 .. MaxBlock :
          /\ ypos + n = Len(File)
          /\ SzWrites(<<Data(ypos, n, "ZCRCE"), Hdr("ZEOF", Len(File))>>)
          /\ ypos' = Len(File) /\ ypc' = "eof"

\* Other answers.
SzReply ==
  /\ ypc \notin {"done", "end"} /\ UNCHANGED <<ypos, ytimes, strays>>
  /\ \/ /\ ypc = "ack" /\ Heard("ZACK")
        /\ SzReads /\ SzWrites(<<Hdr("ZDATA", ypos)>>) /\ ypc' = "data"
     \/ /\ HeardOneOf({"ZSKIP"} \cup (IF ypc = "eof" THEN {"ZACK", "ZRINIT"} ELSE {}))
        /\ SzReads /\ UNCHANGED toR /\ ypc' = "done"

\* Anything else it does not wait for is passed over.
SzSkips ==
  /\ ypc # "end" /\ toS # <<>> /\ Head(toS).k # "eof"
  /\ ypc # "done" => ~Heard("ZSKIP")
  /\ ypc = "hello" => ~Heard("ZRINIT")
  /\ ypc = "sinit" => ~Heard("ZACK")
  /\ ypc \in {"file", "data", "ack", "eof"} => ~Heard("ZRPOS")
  /\ ypc = "ack" => ~Heard("ZACK")
  /\ ypc = "eof" => ~HeardOneOf({"ZACK", "ZRINIT"})
  /\ SzReads /\ UNCHANGED <<toR, yvars>>

\* A timeout: it repeats what it sent last, or gives up.
SzTimeout ==
  /\ ypc \in SzWaits /\ toS = <<>> /\ toR = <<>> /\ UNCHANGED <<toS, strays>>
  /\ IF ytimes < SzTries
     THEN /\ ytimes' = ytimes + 1 /\ UNCHANGED <<ypc, ypos>>
          /\ SzWrites(CASE ypc = "hello" -> <<Hdr("ZRQINIT", 0)>>
                        [] ypc = "sinit" -> <<Hdr("ZSINIT", 0), Info>>
                        [] ypc = "file"  -> <<Hdr("ZFILE", 0), Info>>
                        [] ypc = "ack"   -> <<Hdr("ZDATA", ypos)>>
                        [] ypc = "eof"   -> <<Hdr("ZEOF", Len(File))>>
                        [] ypc = "done"  -> <<Hdr("ZFIN", 0)>>)
     ELSE SzGivesUp

SzCloses ==
  /\ ypc # "end" /\ toS # <<>> /\ Head(toS).k = "eof"
  /\ SzGivesUp /\ UNCHANGED <<toS, strays>>

Sz == \/ SzHello \/ SzRewinds \/ SzBlock \/ SzReply \/ SzSkips
      \/ SzTimeout \/ SzCloses

\* A frame of another part of the protocol: a ZCOMMAND and its command, a
\* ZFREECNT, a ZFIN, a ZFILE that was sent again...
Stray ==
  /\ ypc # "end" /\ strays < MaxStrays /\ strays' = strays + 1
  /\ \E t \in StrayTypes :
       SzWrites(IF t \in {"ZFILE", "ZSINIT", "ZCOMMAND"}
                THEN <<Hdr(t, 0), Info>> ELSE <<Hdr(t, 0)>>)
  /\ UNCHANGED <<toS, ypc, ypos, ytimes>>

-----------------------------------------------------------------------------
Receiver == RNext /\ UNCHANGED <<faults, yvars>>
Peer == Sz /\ UNCHANGED <<faults, rvars>>
Line == \/ Garble /\ UNCHANGED <<rvars, yvars>>
        \/ Stray /\ UNCHANGED <<faults, rvars>>
Done == rpc = "end" /\ ypc = "end" /\ UNCHANGED vars

Next == Receiver \/ Peer \/ Line \/ Done

\* sz is another process that keeps running.
FairSpec == Init /\ [][Next]_vars /\ WF_vars(Receiver) /\ WF_vars(Peer)

-----------------------------------------------------------------------------
\* The receiver's call returns and both streams are closed.
Terminates == <>(rpc = "end" /\ ypc = "end")
=============================================================================
