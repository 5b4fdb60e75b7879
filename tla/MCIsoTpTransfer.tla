--------------------------- MODULE MCIsoTpTransfer ---------------------------
(* TLC instance of IsoTpTransfer: frames carry two bytes, sequence numbers *)
(* wrap at two, a block is two frames; the buffers hold as much as the     *)
(* size field can count, whose largest size is announced as none.          *)
EXTENDS IsoTpTransfer

MCSizes == {0, 2, 5, 8, 10}
=============================================================================
