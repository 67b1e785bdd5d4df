------------------------------ MODULE PacketCodec ------------------------------
(***************************************************************************)
(* packet.h: what an encoder and a decoder have in common.                 *)
(***************************************************************************)

ok(codec) == codec.err = "NONE"

set_err(codec, error) == [codec EXCEPT !.err = error]
===============================================================================
