# go-lrzsz in TLA+

A model of the ZModem implementation in `zmodem/`: the sender, the receiver, the
stream of frames between them, sessions of several files, the programs of lrzsz
they talk to, the terminal that starts transfers by itself, and the byte codec of
data subpackets. TLC checks small instances. TLAPS proves, for every file and
every limit, that what a receiver writes is what the sender read, between the two
ends of this program and against an `sz` or an `rz`; that success means the same
at both ends, and failure on a clean line that the other end is gone; for any data, that the codec reads what was written; and, for any
shell output, that a transfer in a terminal is given the bytes that belong to it; and,
for any number of files, that none takes bytes of another, that what is reported sent
has arrived, and that on an undamaged line the two programs never wait for each other.

`PROJECT.json` lists components, runs, mutants, the lines each definition stands
for, findings, hazards and theorems.

## 1. The system

| component | state | operations |
|---|---|---|
| `Sender` (sender.go) | `txwindow`, `blockSize`, `zrqinitsSent`, `initialized`; in `sendFileData` `bytesSent`, `lastRxPos`, `junkCount`, `txwcnt`; the read offset of the file | `GetReceiverInit`, `SendZSINIT`, `SendFile`, `sendFileData`, `getHeader`, `calculateFileCRC` |
| `Receiver` (receiver.go) | `zrqinitsReceived`, `attn`, `escapeCtrl`; in the loops `errors`, `bytesReceived`; the file written | `SendZRINIT`, `WaitForZFILE`, `ReceiveFile`, `getHeader`, `ParseFileHeader` |
| frames (frame.go, zmodem.go) | none | `zsbhdr`, `zshhdr`, `zsdata`, `zrbhdr`, `zrhhdr`, `zrdata` and their 32-bit forms |
| codec (escape.go) | `lastSent`, the escape table | `WriteByte`, `ReadByte`, `readEscapeSequence` |
| byte reader (io.go) | a 256-byte buffer, a deadline | `ReadByte`, `noxrd7` |
| `Session` (session.go) | one `Sender`, one `Receiver`, callbacks | `SendFile`, `ReceiveFile`, `SendFiles`, `ReceiveFiles` |
| `SSHSession` (ssh.go) | the remote command, its pipes | the same calls around a remote `sz` or `rz`, `SendFileWhenRemoteReceives` |
| `TerminalIO` (terminal.go) | `inZModem`, `scanBuffer` | `Read`, `handleZModemTransfer` |
| callbacks, errors, crc, logger | | answers, kinds of error, checksums, output |
| `gsz`, `grz`, example | | command lines around `SendFiles`, `ReceiveFiles`, `TerminalIO` |

How they interact. A sender and a receiver share nothing but two byte streams.
Each is one goroutine that blocks in `getHeader` or `zrdata`, takes one frame,
and answers. All state is local; what is difficult is what is *on its way*:
blocks already sent when a request for another position arrives, answers to
earlier attempts, halves of a frame that was given up. `ReceiveFile` asks for a
position (`ZRPOS`) after **every** subpacket and `sendFileData` starts over for
every `ZRPOS` it reads after `ZEOF`, so even a clean line is full of restarts, and
every limit of the program (15 tries, 20 errors, 3800 bytes of garbage) is spent on
what they leave behind. Between two ends of this program only small files get through
(section 5).

What makes each part correct:

- sender: the bytes after `ZDATA(p)` are the bytes of the file at `p`, through
  every seek, restart and retry; success means delivery; every wait ends.
- receiver: appends only the bytes that follow, reports success only for the
  whole file, never asks for an earlier position, and every loop ends.
- codec: data, frame ends and flow control are never taken for each other.
- sessions: a failed, declined or cancelled file leaves the next one unharmed,
  what is reported sent has arrived, neither end waits for the other for ever.
- terminal: one transfer at a time; it is given the output from a header on, each
  byte once and in order, in the right role; reading goes on after it.

A session needs a logger: `NewSession` leaves `logger` nil (session.go:111) and
`Session.ReceiveFile` calls it at once (session.go:202). The models describe a
session that was given one; without it, as in `cmd/grz`, that call panics.

## 2. The modules

```
ZLine
 ├─ ZSender ───────────── ZSendToRz ─────── ZSendToRz_proofs
 ├─ ZReceiver ─────────── ZReceiveFromSz ── ZReceiveFromSz_proofs
 └─ ZSender, ZReceiver ─┬ ZTransfer ── ZTransfer_proofs
                        │   └ INSTANCE FileCopy
                        └ ZSession ── ZSession_proofs ── ZDelivery_proofs
ZTerminal ── ZTerminal_proofs
ZSubpacket ── ZSubpacket_proofs
```

The five `_proofs` modules of transfers and sessions share `ZEnds_proofs`: the types of one
end's steps, and what streams and positions have in common.

**ZLine** – the stream and its readers. `toR` and `toS` are sequences of frames:
a header with its type and position, a subpacket with the offsets of the file
bytes it carries, an information subpacket (`ZFILE`, `ZSINIT`, `ZCOMMAND`), the
attention string with its zero byte, the remains of something, with a number of zero
bytes among them (`Zeros`) or of a block's file bytes (`Part`), end of stream. `Arrives`,
`Skips`, `TimesOut`, `Fails`, `Reads` and `ReadFails` say what `getHeader` and
`zrdata` make of the head of a stream: each zero byte is a timeout
(sender.go:398), a block of file bytes is garbage up to a limit of 3800 bytes in a row
(sender.go:383, 509), behind which the search stops (`Overflows`), a frame whose
position or CRC needs an escape cannot be read (`EscHeaders`, `EscBlocks`;
escape.go:298), a deadline error is *not* a timeout (io.go:98-101).

**ZSender**, **ZReceiver** – one action per pass through a loop body between two
blocking operations. `spc` and `rpc` name the loop the code is in:

| actions | code |
|---|---|
| `SInitTop`, `SInitZRINIT`, `SInitOther`, `SInitNoHeader` | `GetReceiverInit` |
| `SZsinitTop`, `SZsinitReply` | `SendZSINIT` |
| `SFileTop`, `SFileReply`, `SDiscard`, `SFileCRC`, `SFileZRPOS` | `SendFile` |
| `SBlock`, `SCancelled`, `SAckW`, `SAckWSeek`, `SAckQ`, `SWinWait`, `SEofTop`, `SEofReply`, `SEofZRPOS` | `sendFileData` |
| `RTry`, `RTryReply`, `RInfo`, `RInfoFails`, `RFinWait` | `WaitForZFILE` |
| `RPrompt` | `Session.ReceiveFile` between the two |
| `RZrpos`, `RDataReply`, `RDiscard`, `RBlock`, `RBlockFails` | `Receiver.ReceiveFile` |
| `SSkipGarbage`, `RSkipGarbage` | one block passed over inside `getHeader` |
| `SWriteFails`, `RWriteFails`, `SClose`, `RClose` | a write to a closed stream; the caller closes its side |

With `SourceFaults` any read or seek of the file may fail in `sendFileData`, and any
seek before it (`SeekFails`, and `SCancelled`, which also is the context that is done);
with `DiskFaults` the receiver's file. A block longer than the receiver's buffer is read
up to one byte behind it, and the rest is left on the line (`StopsBehindBuffer`).

Every error counter has the code's own limit as a constant, so runs can shrink
it. Sequences of frames written by one pass are written at once: nothing else
writes to that stream in between.

**ZTransfer** composes the two ends of one file. **FileCopy** is what a transfer
promises: a copy that grows as a prefix and is declared complete only when it is.

**ZSession** puts the loops of the two programs around the same two ends: one
`Sender` and one `Receiver` live through all files, and so do their counters, the
`attn` string and whatever the last file left on the line. `SNextFile`,
`SFileDone`, `SRetryFile`, `SAborts`, `SAllSent` are `SendFiles`
(session.go:297-347); `TInit`, `TFin`, `TFinReply` are what
`handleZModemTransfer` does instead (terminal.go:299-459); `RNextFile`, `ROver`
are `ReceiveFiles` (session.go:356-373). All files have the same bytes, so that a
frame of one would pass for a frame of another; `tags` remembers for each frame
on its way to the receiver which file it was sent for, and is read by no action
except to name the file accepted. `TInit` reads the ZRINIT that started the
transfer, `SCalls` is any pass through a call of the `Sender`. The terminal ends
its loop without a `ZFIN` after a timeout or a cancellation and with one after
another error; the model does not tell a timeout from another error and takes
either way.

**ZTerminal** – `TerminalIO.Read` called by any number of goroutines
(`pc`, `chunk` for each), with the lock given up between looking at `inZModem`
and setting it, as in the code. A byte is its place in the output, so a buffer is
a sequence of places and the properties can say which bytes went where.
`Call`, `Wait`, `Cancelled`, `ReadSome`, `ReadEOF`, `Scan` are the parts of
`Read`; `Start`, `SessionRead`, `SessionEnd` are `handleZModemTransfer` with its
`bufferedReader`; `ReadAfter` is the read that follows a transfer, whose bytes
are not scanned. `forgotten` and `overlapped` are history: up to where the scan
can no longer look, and whether two goroutines have been in the underlying reader
at once, after which the order of their bytes is not defined and only
`TypeOK`, `OneTransfer` and `Resumes` speak.

**ZSendToRz**, **ZReceiveFromSz** put one end against the `rz` or `sz` of lrzsz,
which is not part of the repository. They are written from what `sender.go` and
`receiver.go` wait for and are deliberately more permissive than any one program:
answers in any order between blocks, any frame end, any block size, and a bounded
number of frames that belong elsewhere. In ZSendToRz the call also waits for the
remote command after the transfer, or for its context (ssh.go:292-311, `returned`).

**ZSubpacket** – one subpacket byte by byte through `zsdata`, the escaper, a line
that adds flow control, the unescaper and `zrdata`. It supports what ZLine takes
for granted of `zrdata`: `StopsAtEscape` is the statement that a read stops at
the first escaped item with everything before it read, `PlainIsRead` that a
subpacket without escapes is read.

Definitions whose comment starts with *Fault* are not part of any specification.
They are plausible errors of the code, used to show that the properties notice.

## 3. What the runs check

| run | instance | shows |
|---|---|---|
| `transfer_clean` | 6 bytes in blocks of 2, the fifth zero, no attention string, and `MaxGarbage` 3, `MaxRxErrors` 2: the smallest limits that let the file through | `Delivers`, `Terminates`, and `FailureIsLoss`: on a clean line the call fails only when the peer is gone |
| `transfer_large` | the same with `MaxGarbage` 2 | **violated**: `StreamIsReceived` |
| `transfer_noise` | 3 bytes in blocks of 2; one frame damaged anywhere; deadlines at any time; reads and seeks that fail; a `ZDATA` header that cannot be read | integrity, truthful results on both sides, ascending requests, `Inductive`, the refinement of `FileCopy`, termination |
| `transfer_attention` | 5 bytes, one of them zero, on a clean line with the default attention string | **violated**: `FailureIsLoss` |
| `send_to_rz` | streaming, up to three damaged frames, a patient rz | success is delivery; delivery when nothing is damaged |
| `send_to_rz_strays` | a window of 2, a hasty rz, a CRC request, cancellation, reads and seeks that fail, any one frame out of place | blocks stay labelled, the copy is a prefix, the call returns |
| `send_to_rz_crc` | an rz that asks for the CRC | **violated**: `SuccessIsDelivery` |
| `receive_from_sz` | blocks larger than the buffer, one whose CRC needs an escape, disk errors, a declined file, damage, any one frame out of place | integrity, truthful result, termination |
| `session` | two files of one block of 2 bytes from either loop, one damaged frame, declined and unreadable files, a retry, a limit of two files or none | `OwnFrames`: no file takes bytes of another; `SentAreDelivered`; `NeverStalls` on an undamaged line; both programs end |
| `session_blocks` | two files of two blocks from either loop on a clean line, the second byte zero, `MaxGarbage` and `MaxRxErrors` 2, no attention string, files that cannot be opened | `AllArrive`: both files arrive, over what restarts leave on the line |
| `terminal` | two goroutines, three outputs with proper and bare headers, reads of 1, 4 and 7 bytes | one transfer at a time, given its bytes in order; which headers are overlooked; the role; everybody reads on afterwards |
| `subpacket` | data and CRC from CR, ZDLE, `@` and the letter of `ZCRCW`, 16- and 32-bit CRCs, flow control anywhere, a writer that cancels | transparency, where reading stops, where an `@` may be followed by a bare CR |

*Bounds.* A file of three bytes in blocks of two has a full block, a short one
and the empty one that ends it; every restart position differs from the others.
One damaged frame is enough to enter every recovery path, three let recovery
itself be disturbed. Error limits are 1 or 2 in the large runs, which exercises
below, at and above the limit. In `transfer_clean` and `session_blocks` the limits a
restart spends are the smallest for which `Passable` holds, one above what the stream
behind the first block needs, and one less of either fails the file (`transfer_large`,
finding 3); the others have the code's values (10, 15, 20) where every restart or file
spends some of them. `Passable` was compared with the outcome on a dozen instances on
either side of it. In the runs with damage `MaxGarbage` lies between one and three times
a file's length, so that one pass over the whole file is tolerated and several are not.
`MaxZeros` 2 (9 bytes in a header) lets the remains of one frame time out twice. `PosMod` stands for 2^32.
`Capacity` is the transport's buffer: in the runs with damage a stream does fill
up and its writer waits, in the clean ones and with strays it never does. `SzTries` bounds the restarts of sz: without
it the receiver's request after every block and sz's restart for every request go
on for ever, with `errors` reset each time (receiver.go:434, 525). In `session`
two files are enough for one to inherit from the other, `MaxTries` is the code's
15 because every file spends some of it, and `Capacity` is more than two files
ever put on the line, 60 with one block and 400 with restarts. In `terminal` the scan remembers 7 bytes (16 in the code)
for headers of 6 and 5 bytes, so that a read of 7 already drives the beginning of
a split header out, as a read of 11 or more does in the code; the session's slice of 4 (256)
makes it read the scanned bytes in several pieces.

*Fairness.* `WF` of each end as a whole: each is a goroutine or a process that
runs when it can. No fairness is assumed of damage, strays or cancellation, nor
of any particular branch of an end. A deadline that has run out is one of several
steps of the reader and is never forced. Without deadlines (ssh.go:84-88) it is
the timeouts of lrzsz, or the peer's closing, that free a blocked sender; in
`session`, where both ends are this program, a lost frame can leave both waiting,
and it is the user who breaks the line (`HangUp`, only when nothing can move).
`NeverStalls` says that this takes a damaged frame. A session of a terminal ends
only with the user's logout: `grz` never ends by itself, since `ReceiveFiles`
takes the ZFIN for a cancelled file. In ZTerminal `WF` of each reader is the
application that calls `Read` again and a session that ends (`session` shows it
does); the context is never forced to be cancelled.

*Abstractions.* A CRC catches all damage. A damaged frame never turns into
another intact one, and a stream neither loses, repeats nor reorders. The few
bytes of frame ends and CRCs, and the `OO` of a session's end, do not count as
garbage, nor a zero among them as a timeout where a block is passed over. Names and
attention strings are taken to need no escape (escape.go:298, section 5). `os.File` fills the buffer it is given until the end of the file.
Positions are full numbers in the sender and 32 bits in headers, as in the code.
Of `rxbuflen` the low 16 bits are what ZRINIT carries.

## 4. What is proved

### One transfer

`ZTransfer_proofs`, about `ZTransfer!Spec`:

- `TypeCorrect` – `TypeOK`, from the constants' assumptions alone.
- `StepsPreserve` – `Inductive`.
- `WritesPrefix`, `SuccessIsComplete`, `LabelsMatch` – `WrittenIsPrefix`,
  `ReceivedIsComplete`, `FramesLabelled`.
- `Refines` – every transfer is a `FileCopy`.
- `NeverGoesBack`, `SuccessIsShared` – `RequestsAscend`, `SentIsDelivered`.
- `FailsOnlyAtLoss` – `FailureIsLoss`, from `Clean` as well: no damage, no deadlines,
  no cancellation, no failure of the sender's file, no attention string on either side and
  no need to send one, at least one try, and a sender that streams.

All but the first assume `Assumed`: the source can seek and the file is shorter
than 2^32 bytes. Both are needed: without seeking a restart sends other bytes
under the same label (sender.go:713), and beyond 2^32 two positions have the same
header.

The argument. `WrittenIsPrefix` alone is not inductive: it says nothing of the
block about to be read. `Inductive` adds

1. `ReaderInStep` – in `sendFileData` the file is read at `bytesSent`;
2. `FramesToR` – in the stream a `ZDATA(p)` is followed by the block at `p`, by
   no block, or by nothing while the sender is about to send just that block, or
   none; a `ZEOF` carries the file's length;
3. `FramesToS` – the receiver's frames are of few types and its `ZRPOS` lie
   within the file; the stream ends only with the receiver;
4. `ReaderOfBlock` – a receiver that waits for a subpacket at `bytesReceived` is
   about to read that block or no block;
5. `Copied` – the copy is the prefix up to `bytesReceived`, and success means the
   whole length.

A sender's step appends frames that fit what is promised (`SenderFits`); a read
or damage only removes or spoils frames (`Thinned`), and a thinned stream keeps
2 to 4 (`ThinnedToR`, `ThinnedToS`). What is left of a half-read block is never
taken for a block, which is why a restart may overtake it.

The last two properties are about the other direction, where
answers to several starts are under way at once; `Ordered` accounts for them:

1. the positions asked for ascend along `toS` and lie within what was written;
2. before the receiver asks for its first position no request is under way and the
   sender is not in the file (`NoDataYet`);
3. without a window the sender waits for no answer between blocks, and no block
   asks for one (`Streaming`, `AsksNothing`);
4. hence an answer that the sender will read while it is in the file, or after a
   request that puts it there, can only be the answer to `ZEOF`, of a receiver that
   reported success (`Answered`). A `ZRINIT` or `ZACK` of an earlier phase is on
   the line only ahead of the first request.

`FailureIsLoss` holds for every file, block, buffer and error limit, and whether the
other user declines or the other disk fails: on such a line no counter of the sender
ever counts. `Undisturbed` says why: the receiver sends nothing but ZRINIT, ZRPOS, ZSKIP
and ZACK and the sender nothing but ZFILE, ZDATA, ZEOF and what belongs to them
(`SaysLittle`); the receiver finds the name of the file where it looks for it, so it has
no reason for a ZNAK (`Attentive`); the sender is greeted before it has spoken
(`Greeted`); and no ZACK is on the line before there was something to acknowledge
(`NothingYet`). `Clean` asks for no more than it must: TLC finds the call failing as soon
as there is damage, a deadline, an attention string (finding 1) or control escaping, and
with a window of 3, where a sender that waits for room takes the receiver's ZRPOS for a
failure (sender.go:860-885).

`SentIsDelivered` speaks of a sender without a window because with one it is
false; see section 5.

### One end alone

`ZSendToRz_proofs`, about `ZSendToRz!FairSpec`, where rz answers as it likes:

- `TypeCorrect` – `TypeOK`, with no further assumption;
- `LabelsMatch`, `PrefixAtRz` – `FramesLabelled`, `RzWritesPrefix`, from
  `Seekable = TRUE` alone: with a window, after a CRC request, with frames out of
  place, and for files of any length;
- `SuccessAtRz` – `SuccessIsDelivery`, from `Plain`: the source can seek, the file
  fits a header, the sender streams (no window, or rz cannot receive while it
  writes), rz asks for no CRC (finding 2), and no stray is an answer in itself.

`Labelled` is what `Inductive` says of the sender's side, with rz in the place of
the receiver: what follows a `ZDATA` is the block it names or none, what follows a
block that does not end its frame is the next one or none, and rz inside a frame is
about to read the block it needs. `Delivering` is `Ordered` with rz in the place of
the receiver: `HasAll` takes the place of its success.

`ZReceiveFromSz_proofs`, about `ZReceiveFromSz!FairSpec`, where sz streams from
the position it was last asked for, in blocks of any size with any frame end:

- `TypeCorrect`, `WritesPrefix`, `SuccessIsComplete` – `TypeOK`,
  `WrittenIsPrefix`, `ReceivedIsComplete`, from `Fits` alone, a file shorter than
  2^32 bytes.

The invariant `Integrity` is again 2 to 5 of `Inductive`, with sz's position
`ypos` in the place of the file's reader. `TypeOK` is proved with it and not
before it: that sz is never asked for a position beyond the file is a fact about
the receiver's requests.

### Sessions

`ZSession_proofs`, about `ZSession!Spec`, for any number of files and either loop:

- `TypeCorrect` – `TypeOK`, from the constants' assumptions alone, retries included;
- `FilesStayApart` – `OwnFrames`, from `Streams`: the sources can seek and are
  shorter than 2^32 bytes, and the sender streams (no window, as by default, or a
  receiver that cannot receive while it writes); and as long as no file is sent a
  second time (`[]SentOnce`). With a retry it is false; see section 5.

All files have the same bytes, so no header or position tells two of them apart: the
proof is about what is on the line when a file begins and ends. The account of `tags`
ascends along the stream (`Ascends`), and whoever has heard a ZFILE has one of some
file (`Counted`); that is enough for the types. `OneAtATime` adds, until
`ReceiveFiles` has failed or declined a file,

1. between two files, and from a success on, the receiver is at no file and neither
   a ZFILE nor a request is on the line (`Rested`);
2. a receiver at a file, from its ZFILE header on, has only frames of the sender's
   file before it, and the copy is of that file (`Accounted`): this is `OwnFrames`;
3. before the sender heard a request for its file no ZEOF of it is on the line, nor
   a request of a receiver at no file (`Fresh`); a ZFILE behind a ZEOF is of a later
   file (`Parted`);
4. once a file was asked for, no ZFILE of it is left that could take the receiver
   into it again (`Begun`), so an answer that passes for the one to ZEOF finds the
   receiver out of the file for good (`Acknowledged`). A ZFILE is repeated only
   before the first request is heard; the receiver passes over the repetitions while
   it is in the file, and the ZEOF that takes it out is behind them all.

Damage and reading thin the streams and their accounts alike (`ReadAccount`); the
steps of a `Sender` that streams are those of one transfer (`StaysStreaming`).

`ZDelivery_proofs`, which builds on it, from `Streams`:

- `EachFileIsCopied` – `FramesLabelled`, `WrittenIsPrefix` and `ReceivedIsComplete` of
  every file of a session, as long as no file is sent a second time;
- `SentFilesAreDelivered` – `SentAreDelivered`, under the same condition;
- `StreamsNeverStall` – `NeverStalls`, retries included.

A retry is excluded from the first two because it may start at any place of its source
and may overtake the try it repeats (section 5).

*Integrity.* One transfer begins with an empty line and new objects; a file of a
session does not. `Integrity` is `Inductive` without what only a beginning gives: in
the loop between two files nothing is said of the source (`InStep`), and labels hold
also on a line whose reader has left (`NextIs`, `Closed`), since a program that has
ended leaves the other one writing to nobody. That the ends are in step when a file
begins comes from `OneAtATime`: there is no request on the line then.

*Delivery.* `SentAreDelivered` says nothing of a file before it is reported. `Delivery`
follows the report backwards to where it comes from: what `SendFiles` recorded
(`KnownSent`), the call that has just succeeded (`JustSent`), an answer on its way that
passes for the one to ZEOF (`AnsweredFor`), and the receiver that has left a file it was
asked for without an error (`LeftBehind`). Each holds because of the next; the last
holds by `Integrity`: a receiver leaves a file without an error only at its end. A
delivered copy stays so because a file of that name is never opened again.

*No stall.* A stalled state is one where both streams are empty and both programs wait.
`Answered` says who owes the next frame as long as nothing is damaged and no deadline
interferes:

1. every frame that something must follow is followed by it, or its writer is about to
   write it (`Formed`), and so is what the receiver reads after a header (`Reading`);
2. what the receiver sends is answers and attention strings (`Simple`), before the
   first ZFILE answers only (`Early`): an attention string is no answer, and at the
   start of a session a sender would spend its tries on it;
3. when the receiver waits with no header on its way, a sender that waits has an answer
   on its way (`Owed`);
4. a sender that offers a file is not content with a ZRINIT: its ZFILE is on the line,
   the receiver is busy with it, or an answer that is none is on its way (`OwedFile`).

The steps of a sender are of two kinds for this: they write headers that some program
must answer (`Speaks`), or they write nothing and still do not wait for more than what
is there (`Keeps`). With deadlines nothing is ever stalled, by definition; with a
window the sender also waits between blocks, and the two ends may wait for each other
(section 5).

### The codec

`ZSubpacket_proofs`, about `ZSubpacket!Spec`, for any data, CRC and buffer, with
flow control anywhere and no assumption:

- `TypeCorrect`, `NoBareCRSent` – `TypeOK`, `NoBareCR`;
- `PrefixIsRead`, `EscapeStopsRead` – `ReadsPrefix`, `StopsAtEscape`: the two facts
  that ZLine takes for granted of `zrdata`.

The subpacket and its end are one sequence of places, written by the writer and
reached by the reader. `WriterInv` says that nothing before the first escaped item
is flow control or ZDLE; `ReaderInv` that there are places *r* and *m* such that the
line spells, up to flow control, the places from *r* to *m* (`OnWire`), with the
reader at *r*: in the data, in the CRC, or among the CANs of a writer that gave up;
`Faithful` and `Result` that what was read, and where a read that is over has
stopped, agree with what was written. `BareInv` follows the escaper's `lastSent`: it is
the last byte of the line when that is an `@`, until a byte of a 32-bit CRC goes past the
escaper. From the second such byte on `NoBareCR` allows a bare pair, and there is one
(frame.go:512); in the data, at its end, at the frame end and before the CRC, and with a
16-bit CRC anywhere, there is none.

### The terminal

`ZTerminal_proofs`, about `ZTerminal!Spec`, for any output, any readers and any
sizes of reads and buffers:

- `TypeCorrect`, `OneAtATime` – `TypeOK`, with the bound on the scan's memory,
  and `OneTransfer`, for any overlap of calls;
- `FollowsStream`, `HeadersRecognised`, `RightRole` – `TransfersFollowStream`,
  `Recognised`, `SenderOnZRINIT`, as long as no two goroutines have read at once.

The only assumption is that sizes are positive. The argument. `IInv` ties the
mode to the reader that runs a transfer (`Mode`), from which one transfer at a
time follows: the mode is looked at again, under the lock, before it is set. For
the rest it says where every buffer ends: between transfers `scanBuffer` holds
the last places up to `pos` without a gap, as many as `MaxScan` allows and none
`forgotten` (`Window`, `Resting`); while a chunk waits to be scanned, up to just
before the chunk (`Scanning`); after detection from a header up to `pos`
(`Starting`); in a session, what was given and what is left together still end at
`pos` (`Transferring`, `Origin`). Headers in a buffer and headers in the stream
are then the same up to a shift (`HeaderInStream`, `HeaderInBuffer`), so nothing
within the window is overlooked (`NothingOverlooked`), and what earlier transfers
were given lies behind (`Past`).

### Only model-checked

Every invariant and every action property that a passing run checks is a theorem. Each
inductive invariant was checked by TLC on the instances of the runs before it was
proved. What is left:

- Everything under fairness (`Terminates`, `Delivers`, `DeliversToRz`, `AllArrive`,
  `Resumes`, `PlainIsRead`) is beyond the prover.
- Theorems with a hypothesis say nothing beyond it. What sender and receiver do by
  themselves with a window, and the sessions in which a file is sent a second time,
  is only what the runs `send_to_rz_strays` and `session` show; no run has a window
  between two ends of this program.
- That the codec's abstraction in ZLine is the codec is an argument between two
  modules, made here in words.

## 5. Findings

Each is a run expected to be violated; `PROJECT.json` quotes the lines.

1. **The default attention string is a timeout.** It ends in a zero byte, which
   `getHeader` takes for a lost line (sender.go:398). The receiver writes it when
   a block of an earlier start arrives, and the sender's call fails after ZEOF.
2. **A CRC request empties the file.** `calculateFileCRC` leaves the file at its
   end, and a start at 0 does not seek (sender.go:712): nothing is sent and
   success is reported.
3. **A large file fails on a clean line.** After every block `ReceiveFile` asks for a
   position and searches for the header of a restart (receiver.go:519-526), also when
   the sender streams on; 3800 bytes of that stream without a zero byte among them end
   the call (receiver.go:548, 670), and so do more than 20 zero bytes. With blocks of
   1024 bytes that is any file over about 4.8 KB. `Delivers` states what is left:
   delivery under `Passable`.

Other things the models made plain, without a run of their own:

- No escaped byte can be read: `(c & 0x80) == 0x40` is never true (escape.go:298), so
  a subpacket with a ZDLE in it is written and never read back, on a clean line and at
  every try. `StopsAtEscape` says where such a read stops; ZLine takes it from there.
- `EscapeControl` cannot start between two ends of this program. The byte after a hex
  header is `!`, not XON as the comment says (frame.go:261), and falls into the ZSINIT
  subpacket, which `SZsinitTop` therefore writes as one that cannot be read.
- What one file leaves on the line costs the next one its tries. Every block but the
  last causes a restart, and every restart is answered like the first start, so the
  streams left behind double with every block: eight pairs of ZDATA and ZEOF for four
  blocks. `WaitForZFILE` counts each header as a try (receiver.go:136-141) and has 15;
  TLC found the second file of four blocks refused on a clean line. With two blocks, as
  in `session_blocks`, both files arrive, but `ReceiveFiles`, waiting for a third, may
  spend its tries before the sender has heard that the second one did. `AllArrive`
  excepts just this (`TriesSpent`), and sessions with an attention string, where files
  of several blocks fail by finding 1 before it.
- A 32-bit CRC may hold a bare CR after an `@`: zsda32 writes printable bytes of
  the CRC past the escaper, which does not learn of them (frame.go:512). It is the
  one exception in `NoBareCR`, and TLC found the pair without it.
- An error of `Read` while a CRC is computed is passed over (sender.go:639): the file
  stays where it is, and a start at 0 sends what follows, as in finding 2. It is not
  modelled; `calculateFileCRC` always gets to the end of the file.
- A retry sends the file from where the failed try left the reader
  (session.go:340), and the receiver may replace a good copy by what arrives;
  this is why `SentAreDelivered` leaves out files sent twice.
- A retry may overtake the try it repeats. The receiver completes the file from the
  first try while the second ZFILE is still on the line; the sender takes the ZACK
  for the success of the retry and goes on, and the next file's bytes go into the
  copy that the second ZFILE reopened (session.go:340). It takes deadlines, or more
  damage than the one frame of `session`: TLC found it with either, which is why
  `FilesStayApart` asks that no file is sent twice.
- A declined file ends `ReceiveFiles`, although the comment says that it goes on
  (session.go:366): the test before it compares two pointers. `ROver` and
  `AllArrive` take it as it is.
- With a limit, `ReceiveFiles` stops after its last file, and the sender of that
  file may not learn of its success.
- A bare `**B01` on the screen starts a transfer as a receiver (terminal.go:215-225);
  `SenderOnZRINIT` speaks of proper headers only.
- A ZRINIT split over two reads is not recognised when the second is so long that
  its beginning is out of the scan's memory (terminal.go:165). Bytes of a read
  before a header, and bytes the session read ahead, are not returned to anyone.
- With a window and deadlines, success of a send does not imply that the file was
  written: the wait for a block's ZACK may end by a deadline, the sender goes on to
  ZEOF, and the late ZACK passes for the answer to it (sender.go:837-848, 904-925).
  TLC found this with a window of 2 and two damaged frames, which is why
  `SentIsDelivered` asks for `swin = 0`; without deadlines it found no such run.
- With a window the two ends do not work together even on a clean line without
  deadlines. The receiver answers every block that ends in ZCRCG with a ZRPOS
  (receiver.go:519-526 goes back to the head of the loop), and the sender, full or
  after a ZCRCQ, expects a ZACK (sender.go:837-885). For 5 bytes in blocks of 2 TLC
  found the call failing with a window of 3 or 5; with a window of 4 the ZRPOS is
  spent on the ZCRCQ, the receiver skips the block it belongs to as garbage before a
  header, and both wait for good. No window is the default.
- Two calls of `Read` may both be past the test of `inZModem`; the second then
  reads bytes of the transfer (terminal.go:106-131).

## 6. Not modelled, and the plan

Left out for good: CRC arithmetic, logging, option parsing, progress reports, the
example program.

- The two private 256-byte buffers of a session and `PurgeLine`: both roles over
  one session, which alone would let them lose bytes to each other, occur in no
  caller. What is lost at the end of a transfer is in ZTerminal.
- Four calls of `SSHSession` that start the same side at the far end as at the
  near one (ssh.go:94): neither end ever hears a header it waits for.
- Keys typed during a transfer (terminal.go:98). To ZLine they are damage inside a
  frame; a run that counts keystrokes as damage would say no more than `Garble`.
- The flags of `ZFILE` after a ZCRC answer (sender.go:592): they change what rz
  does with an existing file, not the course of a transfer.

What could follow:

1. The header codec (`zsbhdr`, `zshhdr`, `noxrd7`, the hunt of `getHeader`) byte
   by byte, with cancellation (`GOTCAN`, CAN*5) and the other escape tables; with it
   the part of ZLine that is now an argument in words.
2. What a sender with a window may promise: `SentIsDelivered` without deadlines, where
   TLC found no counterexample.
