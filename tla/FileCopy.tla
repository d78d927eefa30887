------------------------------ MODULE FileCopy ------------------------------
(***************************************************************************)
(* What a transfer promises: the copy grows from nothing, always a prefix  *)
(* of the source, and is declared complete only when it is; either side    *)
(* may give up at any time, right after an extension too.                  *)
(***************************************************************************)
EXTENDS Integers, Sequences

CONSTANT Size     \* length of the source file, a natural number

VARIABLES
  copy,    \* the copy: source offsets of its bytes
  report   \* what the receiving side reported: "none", "ok" or "failed"

cvars == <<copy, report>>

Prefix(m) == [i \in 1 .. m |-> i - 1]

CInit == copy = Prefix(0) /\ report = "none"

\* The copy keeps what it has and may get some of the bytes that follow.
Grow == \E m \in Len(copy) .. Size : copy' = Prefix(m)

Extend ==
  /\ report = "none"
  /\ Grow
  /\ UNCHANGED report

Complete ==
  /\ report = "none" /\ Len(copy) = Size
  /\ report' = "ok" /\ UNCHANGED copy

GiveUp ==
  /\ report = "none"
  /\ report' = "failed" /\ Grow

CNext == Extend \/ Complete \/ GiveUp

CSpec == CInit /\ [][CNext]_cvars
=============================================================================
