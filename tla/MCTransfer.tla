----------------------------- MODULE MCTransfer -----------------------------
(* Small files for ZTransfer, and a binary header with a byte to escape. *)
EXTENDS ZTransfer
Plain3 == <<"plain", "plain", "plain">>
\* Two blocks follow the first one, and a zero byte is in the last.
Boundary == <<"plain", "plain", "plain", "plain", "nul", "plain">>
WithNul == <<"plain", "nul", "plain", "plain", "plain">>
DataAt2 == {<<"ZDATA", 2>>}
=============================================================================
