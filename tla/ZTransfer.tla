----------------------------- MODULE ZTransfer -----------------------------
(***************************************************************************)
(* A sender and a receiver of package zmodem at the two ends of a line:    *)
(* Session.SendFile for one file, talking to Session.ReceiveFile.          *)
(***************************************************************************)
EXTENDS ZSender, ZReceiver

vars == <<line, svars, rvars>>

Init == LineInit /\ SenderInit /\ ReceiverInit

Sender == SNext /\ UNCHANGED <<faults, rvars>>
Receiver == RNext /\ UNCHANGED <<faults, svars>>
Line == Garble /\ UNCHANGED <<svars, rvars>>

\* Both ends closed: nothing is left to do.
Done == spc = "end" /\ rpc = "end" /\ UNCHANGED vars

Next == Sender \/ Receiver \/ Line \/ Done

\* Each end is a goroutine or a process that the scheduler runs again and
\* again; a damaged frame is never forced.
Fairness == WF_vars(Sender) /\ WF_vars(Receiver)

Spec == Init /\ [][Next]_vars
FairSpec == Spec /\ Fairness

-----------------------------------------------------------------------------
\* Positions stay numbers of 32 bits or counters that never fall below zero,
\* and only frames of the protocol are under way.
TypeOK == LineTypeOK /\ SenderTypeOK /\ ReceiverTypeOK

\* A sender that streams and reports success has delivered the whole file: no
\* stale answer passes for the acknowledgement of ZEOF (sender.go:904-918).
\* With a window it may: a ZACK of a block that comes after the deadline of
\* the wait for it (sender.go:837-848) is still to be read when ZEOF was sent.
SentIsDelivered ==
  swin = 0 /\ sres = "ok" => rres = "ok" /\ Len(disk) = Len(File)

-----------------------------------------------------------------------------
\* The inductive invariant behind WrittenIsPrefix, ReceivedIsComplete and
\* FramesLabelled, for a seekable file shorter than PosMod.

\* The sender sends no more blocks, or the next one starts at p.
NextBlock(p) ==
  \/ spc \in {"ret", "end"} \/ rpc = "end"
  \/ spc = "data" /\ spos = p

\* Nothing but a block that starts at p can be read as one after ZDATA(p).
StartsAt(e, p) == e.k = "data" => e.lo = p
IsZDATA(e) == e.k = "hdr" /\ e.t = "ZDATA"

\* What follows the first i frames of toR is the block at p, or no block.
Follows(i, p) == IF i = Len(toR) THEN NextBlock(p) ELSE StartsAt(toR[i + 1], p)

FramesToR ==
  \A i \in 1 .. Len(toR) :
    /\ toR[i].k = "data" => toR[i].lo + toR[i].n <= Len(File)
    /\ toR[i].k = "hdr" /\ toR[i].t = "ZEOF" => toR[i].p = Len(File)
    /\ IsZDATA(toR[i]) => Follows(i, toR[i].p)

ReaderOfBlock == rpc = "block" => Follows(0, rpos)

\* All of it: sender, stream and receiver agree on what comes next
\* (sender.go:707-785, receiver.go:449-543).
Inductive == ReaderInStep /\ FramesToR /\ FramesToS /\ ReaderOfBlock /\ Copied

-----------------------------------------------------------------------------
\* The receiver's result, as FileCopy reports it.
Report == CASE rres = "none" -> "none" [] rres = "ok" -> "ok" [] OTHER -> "failed"
Copy == INSTANCE FileCopy WITH Size <- Len(File), copy <- disk, report <- Report
\* The transfer implements FileCopy: the file ReceiveFile writes and the result
\* it returns (receiver.go:386-543) are a copy and its report.
CopySpec == Copy!CSpec

\* Neither end hangs: both calls return and both streams are closed, because
\* error counts run out or an end of file unblocks the other side.
Terminates == <>(spc = "end" /\ rpc = "end")

\* On a line that only ever fails by being closed, with no deadlines, the
\* sender's call fails only when the other end has closed its stream: that is
\* what getHeader calls a timeout (sender.go:389-400).
FailureIsLoss == [][sres = "none" /\ sres' = "failed" => Closed(toS)]_vars

\* On an undamaged line a file arrives whole, and the receiver knows it, if what
\* follows its first block can be passed over as garbage: ReceiveFile asks for a
\* position after every block and reads the rest of the stream, which goes on
\* regardless, in search of the header of the restart (receiver.go:519-526, 547,
\* 670).
Delivers == Passable(BlockSize) => <>(rres = "ok")

\* What the comment on a streamed block promises, "continue receiving (no ACK)"
\* (receiver.go:520), for a file of any size.
StreamIsReceived == <>(rres = "ok")
=============================================================================
