---------------------------- MODULE MCSendToRz ----------------------------
(* A small file for ZSendToRz. *)
EXTENDS ZSendToRz
Plain3 == <<"plain", "plain", "plain">>
=============================================================================
