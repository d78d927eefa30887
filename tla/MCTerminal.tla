----------------------------- MODULE MCTerminal -----------------------------
(* Outputs of a remote shell for ZTerminal. *)
EXTENDS ZTerminal
CONSTANTS r1, r2
Header == <<"ZPAD", "ZPAD", "ZDLE", "ZHEX", "0", "1">>
\* Two transfers.
TwoHeaders == Header \o <<"x">> \o Header
\* A ZFIN, and a ZRINIT after a third ZPAD.
Mixed == <<"ZPAD", "ZPAD", "ZDLE", "ZHEX", "0", "x", "ZPAD">> \o Header
\* What only looks like a header, then one.
Bare == BareZRINIT \o Header
MCReaders == {r1, r2}
MCStreams == {TwoHeaders, Mixed, Bare}
=============================================================================
