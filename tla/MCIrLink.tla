------------------------------ MODULE MCIrLink ------------------------------
(* One badge: packets of four bytes, two pulls to a half of rx_buffer      *)
(* instead of four.  A tick may be lost to another task. *)
EXTENDS IrLink

MCLengths  == {3}
MCPayloads == {1}
=============================================================================
