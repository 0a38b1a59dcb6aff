------------------------------ MODULE MCImuBus ------------------------------
(* A sensor for TLC: counter and time-outs are small numbers. *)
EXTENDS ImuBus
=============================================================================
