-------------------------- MODULE MCReceiveFromSz --------------------------
(* A small file for ZReceiveFromSz and the frames sz may send beside it. *)
EXTENDS ZReceiveFromSz
Plain2 == <<"plain", "plain">>
\* The second byte sent by itself is never read: its CRC needs an escape.
CrcAt1 == {<<1, 1, "ZCRCQ">>}
Asides == FrameTypes \ {"ZDATA", "ZEOF"}
=============================================================================
