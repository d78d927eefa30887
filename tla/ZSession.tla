------------------------------ MODULE ZSession ------------------------------
(***************************************************************************)
(* Several files over one Sender and one Receiver: Session.SendFiles, or   *)
(* the loop of TerminalIO.handleZModemTransfer, at one end of a line and   *)
(* Session.ReceiveFiles at the other.  The objects of both ends live as    *)
(* long as the session; between two calls frames of the last file may      *)
(* still be on their way.  All files have the same bytes: a frame of one   *)
(* passes for a frame of another unless the protocol keeps them apart.     *)
(***************************************************************************)
EXTENDS ZSender, ZReceiver

CONSTANTS
  NumFiles,    \* files to send
  Drivers,     \* which loops may send them: "SendFiles", "terminal"
  MayRetry,    \* OnError may answer that the file is to be sent again
  OpenFaults,  \* opening a file may fail
  Limits       \* arguments ReceiveFiles may have, 0 = no limit

ASSUME SessionAssumption ==
  /\ NumFiles \in Nat /\ Limits \subseteq Nat
  /\ Drivers \subseteq {"SendFiles", "terminal"}
  /\ {MayRetry, OpenFaults} \subseteq BOOLEAN

VARIABLES
  driver,   \* the loop that sends
  sphase,   \* where it is: which call to the Sender is running, if any
  sfile,    \* number of the file it is at
  sent,     \* what became of each file, as the sending program learns it
  again,    \* files sent a second time
  maxFiles, \* argument of ReceiveFiles
  rover,    \* ReceiveFiles has returned
  rfile,    \* file whose ZFILE header the receiver accepted last
  got,      \* files whose reception succeeded
  tags      \* for each frame in toR, the file that was being sent

sendvars == <<driver, sphase, sfile, sent, again>>
recvvars == <<maxFiles, rover, rfile, got>>
sessvars == <<sendvars, recvvars, tags>>
vars == <<line, svars, rvars, sessvars>>

Files == 1 .. NumFiles
Outcomes == {"none", "ok", "skipped", "unopened", "cancelled", "failed"}

\* Files are counted as the program counts them, and every frame to the
\* receiver is accounted to one file.
TypeOK ==
  /\ LineTypeOK /\ SenderTypeOK /\ ReceiverTypeOK
  /\ driver \in Drivers
  /\ sphase \in {"loop", "file", "retry", "fin", "over"}
  /\ sfile \in 0 .. NumFiles /\ sent \in [Files -> Outcomes]
  /\ again \subseteq Files
  /\ maxFiles \in Limits /\ rover \in BOOLEAN /\ rfile \in 0 .. NumFiles
  /\ got \in Seq([file : Files, whole : BOOLEAN])
  /\ tags \in Seq(0 .. NumFiles) /\ Len(tags) = Len(toR)

Whole == disk = [i \in 1 .. Len(File) |-> i - 1]

Init ==
  /\ LineInit /\ SenderInit /\ ReceiverInit
  /\ driver \in Drivers /\ sphase = "loop" /\ sfile = 0
  /\ sent = [f \in Files |-> "none"] /\ again = {}
  /\ maxFiles \in Limits /\ rover = FALSE /\ rfile = 0 /\ got = <<>> /\ tags = <<>>

-----------------------------------------------------------------------------
\* The sending program.  It is between two files where SendFile would start.
BetweenFiles == spc = "zfile" /\ sphase = "loop"
SLoops == UNCHANGED <<toR, toS, sgarb, negotiated>>

\* handleZModemTransfer reads the one header it found on the screen itself.
\* Damage at its beginning would have left it on the screen.
TInit ==
  /\ driver = "terminal" /\ spc = "init"
  /\ \/ /\ SReceives({"ZRINIT"})
        /\ sblk' = (IF sblk > Buflen(rxpos) THEN Buflen(rxpos) ELSE sblk)
        /\ swin' = (IF CanFDX THEN WindowSize ELSE 0)
        /\ SGo(IF CanSkipZSINIT THEN "zfile" ELSE "zsinit")
     \/ /\ toS # <<>> /\ Head(toS).k \in {"badhdr", "eof"}
        /\ STimeout \/ SError
        /\ SReturn("failed") /\ UNCHANGED <<sblk, swin>>
     \/ /\ toS # <<>> /\ Head(toS).k \in {"nul", "zeros", "part"}
        /\ toS' = Tail(toS) /\ UNCHANGED <<spc, sres, sgarb, sblk, swin>>
  /\ SQuiet /\ UNCHANGED <<stry, szrq, progress>>
  /\ UNCHANGED <<sphase, sfile, sent, again>>

\* The call that is running goes on.
SCalls ==
  /\ SCall /\ ~BetweenFiles
  /\ driver = "terminal" => spc # "init"
  /\ UNCHANGED <<sphase, sfile, sent, again>>

\* The next file is opened, afresh, or it is reported and passed over.
\* Fault: the next file is read from where the last one was left.
SNextFileLeft ==
  /\ BetweenFiles /\ sfile < NumFiles
  /\ sfile' = sfile + 1 /\ sphase' = "file" /\ stry' = 0
  /\ UNCHANGED <<spc, sres, fpos, spos, slast, sjunk, scnt, slen, sent, again>>
  /\ SLoops
SNextFile ==
  /\ BetweenFiles /\ sfile < NumFiles
  /\ sfile' = sfile + 1
  /\ \/ /\ sphase' = "file" /\ fpos' = 0 /\ stry' = 0
        /\ UNCHANGED sent
     \/ /\ OpenFaults
        /\ sent' = [sent EXCEPT ![sfile + 1] = "unopened"]
        /\ UNCHANGED <<sphase, fpos, stry>>
  /\ UNCHANGED <<spc, sres, spos, slast, sjunk, scnt, slen, again>> /\ SLoops

\* SendFile returned nil, or the receiver skipped the file.
\* Fault: a file that failed is passed over like one that was skipped.
SFileDoneAnyway ==
  /\ spc = "ret" /\ sphase \in {"file", "retry"}
  /\ sent' = [sent EXCEPT ![sfile] = sres]
  /\ sphase' = "loop" /\ spc' = "zfile" /\ sres' = "none"
  /\ UNCHANGED <<stry, progress, sfile, again>> /\ SLoops
SFileDone ==
  /\ spc = "ret"
  /\ \/ sphase \in {"file", "retry"} /\ sres = "ok"
     \/ sphase = "file" /\ sres = "skipped"
  /\ sent' = [sent EXCEPT ![sfile] = sres]
  /\ sphase' = "loop" /\ spc' = "zfile" /\ sres' = "none"
  /\ UNCHANGED <<stry, progress, sfile, again>> /\ SLoops

\* OnError answers yes: the same reader is sent again, where it stands.
\* Fault: it is sent again as long as it fails.
SRetryFileForever ==
  /\ driver = "SendFiles" /\ MayRetry
  /\ spc = "ret" /\ sphase = "file" /\ sres \in {"cancelled", "failed"}
  /\ spc' = "zfile" /\ sres' = "none" /\ stry' = 0
  /\ again' = again \cup {sfile}
  /\ UNCHANGED <<progress, sphase, sfile, sent>> /\ SLoops
SRetryFile ==
  /\ driver = "SendFiles" /\ MayRetry
  /\ spc = "ret" /\ sphase = "file" /\ sres \in {"cancelled", "failed"}
  /\ sphase' = "retry" /\ spc' = "zfile" /\ sres' = "none" /\ stry' = 0
  /\ again' = again \cup {sfile}
  /\ UNCHANGED <<progress, sfile, sent>> /\ SLoops

\* The loop ends with an error: the first call failed, or a file did.
SAborts ==
  /\ spc = "ret"
  /\ \/ sphase = "loop" /\ UNCHANGED sent
     \/ /\ \/ sphase = "file" /\ sres \in {"cancelled", "failed"}
           \/ sphase = "retry" /\ sres # "ok"
        /\ sent' = [sent EXCEPT ![sfile] = sres]
  /\ sphase' = "over"
  /\ UNCHANGED <<spc, sres, stry, progress, sfile, again>> /\ SLoops

SAllSent ==
  /\ driver = "SendFiles" /\ BetweenFiles /\ sfile = NumFiles
  /\ sphase' = "over" /\ SReturn("ok")
  /\ UNCHANGED <<stry, progress, sfile, sent, again>> /\ SLoops

\* handleZModemTransfer sends a ZFIN after the last file, and after one that
\* failed otherwise than by a timeout or a cancellation.
TFin ==
  /\ driver = "terminal"
  /\ \/ BetweenFiles /\ sfile = NumFiles /\ UNCHANGED sent
     \/ /\ spc = "ret" /\ sphase = "file" /\ sres = "failed"
        /\ sent' = [sent EXCEPT ![sfile] = sres]
  /\ SWrites(<<Hdr("ZFIN", 0)>>) /\ sphase' = "fin" /\ spc' = "ret"
  /\ UNCHANGED <<toS, sgarb, negotiated, sres, stry, progress, sfile, again>>

\* It waits for one header, whatever it is.  A ZFIN, which it would answer
\* with "OO", never comes: ReceiveFiles takes the ZFIN for a cancelled file and
\* sends its next ZRINIT (receiver.go:303, session.go:365).
TFinReply ==
  /\ sphase = "fin"
  /\ \/ Skips(toS, sgarb, toS', sgarb') /\ UNCHANGED sphase
     \/ /\ SReceives(FrameTypes \ {"ZFIN"}) \/ STimeout \/ SError
        /\ sphase' = "over"
  /\ SQuiet
  /\ UNCHANGED <<spc, sres, stry, negotiated, progress, sfile, sent, again>>

\* The program ends and closes its streams, or the terminal's user logs out.
SCloses ==
  /\ sphase = "over" /\ SClose
  /\ UNCHANGED <<sphase, sfile, sent, again>>

SendSide ==
  \/ TInit \/ SCalls \/ SNextFile \/ SFileDone \/ SRetryFile \/ SAborts
  \/ SAllSent \/ TFin \/ TFinReply \/ SCloses

-----------------------------------------------------------------------------
\* The receiving program.
RCalls ==
  /\ RCall
  /\ rfile' = IF rpc = "zfileInfo" /\ rpc' = "prompt" THEN Head(tags) ELSE rfile
  /\ UNCHANGED <<rover, got>>

\* The next round of ReceiveFiles, after a file or a cancellation: a ZFIN
\* counts as one.
RNextFile ==
  /\ rpc = "ret" /\ ~rover
  /\ \/ /\ rres = "ok"
        /\ got' = Append(got, [file |-> rfile, whole |-> Whole])
        /\ maxFiles = 0 \/ Len(got) + 1 < maxFiles
     \/ rres = "cancelled" /\ UNCHANGED got
  /\ rpc' = "try" /\ rres' = "none"
  /\ rtry' = 0 /\ rerr' = 0 /\ rpos' = 0 /\ disk' = <<>>
  /\ UNCHANGED <<toR, toS, rzrq, rgarb, rattn, rover, rfile>>

\* ReceiveFiles returns: it has all it was to receive, or a file failed, or
\* one was declined, since two pointers are compared (session.go:365).
ROver ==
  /\ rpc = "ret" /\ ~rover
  /\ \/ /\ rres = "ok" /\ maxFiles > 0 /\ Len(got) + 1 >= maxFiles
        /\ got' = Append(got, [file |-> rfile, whole |-> Whole])
     \/ rres \in {"skipped", "denied", "failed"} /\ UNCHANGED got
  /\ rover' = TRUE
  /\ UNCHANGED <<toR, toS, rvars, rfile>>

RCloses == rover /\ RClose /\ UNCHANGED <<rover, got, rfile>>

ReceiveSide == RCalls \/ RNextFile \/ ROver \/ RCloses

-----------------------------------------------------------------------------
\* New frames belong to the file the sender is at.
Tagged ==
  tags' = IF Len(toR') < Len(toR) THEN Tail(tags)
          ELSE tags \o [i \in 1 .. Len(toR') - Len(toR) |-> sfile]

Sender ==
  SendSide /\ Tagged /\ UNCHANGED <<faults, rvars, driver, recvvars>>
Receiver ==
  ReceiveSide /\ Tagged /\ UNCHANGED <<faults, svars, sendvars, maxFiles>>
Line == Garble /\ UNCHANGED <<svars, rvars, sessvars>>

\* Nothing is under way and each end waits for the other.
Stalled ==
  /\ toR = <<>> /\ toS = <<>> /\ ~Deadlines
  /\ rpc \in RWaits \cup {"zfileInfo", "zsinitInfo", "discard", "block"}
  /\ \/ spc \in SWaits \cup {"discard"} \/ sphase = "fin"
     \/ driver = "terminal" /\ spc = "init"

\* No deadline ever ends such a wait; the user does, by breaking the line.
HangUp ==
  /\ Stalled
  /\ toR' = <<Eof>> /\ toS' = <<Eof>> /\ tags' = <<sfile>>
  /\ UNCHANGED <<faults, svars, rvars, sendvars, recvvars>>

Done == spc = "end" /\ rpc = "end" /\ UNCHANGED vars

Next == Sender \/ Receiver \/ Line \/ HangUp \/ Done

\* As in ZTransfer; the user of a stalled session hangs up sooner or later.
Spec == Init /\ [][Next]_vars
FairSpec == Spec /\ WF_vars(Sender) /\ WF_vars(Receiver) /\ WF_vars(HangUp)

-----------------------------------------------------------------------------
\* What the receiver writes to a file, and the end of file it believes, were
\* sent for that file: nothing left on the line by one file gets into the
\* next (session.go:297-347, 356-373 over receiver.go:391-543).
OwnFrames ==
  [][Len(disk') > Len(disk) \/ (rres = "none" /\ rres' = "ok")
       => Head(tags) = rfile]_vars

\* As long as nothing was damaged no answer is missing: without deadlines the
\* two loops never come to wait for each other, neither between two files nor
\* after a failed one (sender.go:232-314 to 898-930, receiver.go:103-543).
NeverStalls == faults = 0 => ~Stalled

\* The copy of file f that the far end is left with is whole.
Delivered(f) ==
  \/ rres = "ok" /\ ~rover /\ rfile = f /\ Whole
  \/ \E i \in 1 .. Len(got) : got[i] = [file |-> f, whole |-> TRUE]

\* A file reported complete at the first try is at the other end, whole, and
\* stays so (session.go:181-189).
SentAreDelivered ==
  \A f \in Files \ again : sent[f] = "ok" => Delivered(f)

\* Both programs come to an end.
Terminates == <>(spc = "end" /\ rpc = "end")

\* WaitForZFILE gave up on a sender that is still there: each header of a stream
\* that was left on the line counts as a try (receiver.go:136-141).
TriesSpent == rtry = MaxTries /\ rpc = "try" /\ spc # "end"

\* On an undamaged line every file arrives that could be opened, unless one is
\* declined, up to the number ReceiveFiles is asked for: of what an earlier file
\* leaves behind, in the objects or on the line, only the tries spent on the
\* streams of its restarts can end the loop early (session.go:297-347, 356-373).
\* The limits of one file are those of Delivers, from its beginning on, since the
\* request for it may be repeated; and an attention string must not be sent
\* (finding 1).  The sender learns of each file, except when the receiver stops
\* at its limit: it may be in the middle of a restart then.
AllArrive ==
  maxFiles \in {0, NumFiles} /\ [](faults = 0 /\ rres # "skipped")
    /\ Passable(0) /\ ~RAttn
  =>
  \/ <>(\A f \in Files :
          \/ sent[f] = "unopened"
          \/ Delivered(f) /\ (maxFiles = 0 => sent[f] = "ok"))
  \/ <>TriesSpent
=============================================================================
