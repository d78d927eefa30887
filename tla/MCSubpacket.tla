---------------------------- MODULE MCSubpacket ----------------------------
(* ZSubpacket over the bytes its configurations list. *)
EXTENDS ZSubpacket
=============================================================================
