---------------------------- MODULE MCUsbScript -----------------------------
(* Small instances of UsbScript for TLC. *)
EXTENDS UsbScript

MCVal == Rests \X Names

(* The zeroed record, and the one a badge that was given a name may hold. *)
MCDefault == <<CHOOSE r \in Rests : TRUE, CHOOSE n \in WholeNames : TRUE>>

MCOldRecords ==
  {[schema |-> 1, gen |-> 1, short |-> FALSE,
    val |-> <<CHOOSE r \in Rests : r # MCDefault[1], MCDefault[2]>>]}
=============================================================================
