----------------------------- MODULE MCSession -----------------------------
(* Small files for ZSession. *)
EXTENDS ZSession
Plain2 == <<"plain", "plain">>
WithNul == <<"plain", "nul">>
Plain1 == <<"plain">>
=============================================================================
