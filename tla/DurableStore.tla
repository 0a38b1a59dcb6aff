---------------------------- MODULE DurableStore ----------------------------
(***************************************************************************)
(* What the badge's storage promises its applications: a value that        *)
(* survives a reset.  The value recovered after a reset is always one that *)
(* was handed over to be saved, it changes in one step from one saved      *)
(* value to the next, and a reset loses at most what was not saved yet.    *)
(***************************************************************************)
CONSTANT Val

VARIABLES
  durable,  (* what a reset would bring back                               *)
  ram,      (* what the applications read and write                        *)
  staged    (* the snapshot handed over to be saved                        *)

Init ==
  /\ durable \in Val
  /\ ram = durable
  /\ staged \in Val

Write ==
  /\ ram' \in Val
  /\ UNCHANGED <<durable, staged>>

Stage ==
  /\ staged' = ram
  /\ UNCHANGED <<durable, ram>>

Commit ==
  /\ durable' = staged
  /\ UNCHANGED <<ram, staged>>

(* The buffer that held the snapshot is cleared like all of RAM. *)
Reset ==
  /\ ram' = durable
  /\ staged' \in Val
  /\ UNCHANGED durable

Next == Write \/ Stage \/ Commit \/ Reset

Spec == Init /\ [][Next]_<<durable, ram, staged>>
=============================================================================
