---------------------------- MODULE MCNvStorage ----------------------------
(* Small instances of NvStorage for TLC. *)
EXTENDS NvStorage

(* What the badge may hold when this firmware first boots: a record of the *)
(* previous schema whose version is above the generations that follow it,  *)
(* a short record and a full one.                                          *)
MCOldRecords ==
  {[schema |-> 0, gen |-> 3, short |-> FALSE, val |-> DefaultVal],
   [schema |-> 1, gen |-> 1, short |-> TRUE,  val |-> DefaultVal],
   [schema |-> 1, gen |-> 2, short |-> FALSE, val |-> DefaultVal]}
=============================================================================
