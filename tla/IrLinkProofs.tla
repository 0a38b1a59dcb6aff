---------------------------- MODULE IrLinkProofs ----------------------------
(***************************************************************************)
(* Why the blockers of the infrared add up.  The difficult part is a       *)
(* collision: PullRxDmaBuffer sets the state to "collision" without asking *)
(* what it was, which is right only if the packet is still on its way.     *)
(* LookedInTime counts what can have been written since the packet was let *)
(* go, against the ticks that are left until the samples come.             *)
(* And why the DMA sends what was queued in order, and no half of the      *)
(* receive buffer is filled again before it has been read.                 *)
(***************************************************************************)
EXTENDS IrLink, TLAPS

InPacket(state) == IF state = Start THEN 0 ELSE 1

States == ({"start", "size", "chksum", "reset"} \X {0}) \cup ({"data"} \X (Nat \ {0}))

(* One run of OnBufferReceived takes and gives back the blockers that the  *)
(* states of the decoder before and after it ask for. *)
LEMMA RunBalance ==
  ASSUME IrAssumption,
         packetState \in States,
         NEW run \in Samples
  PROVE  /\ Balance(run) = InPacket(run.to) - InPacket(packetState)
         /\ run.to \in States
<1> USE DEF Start, Size, Reset, InPacket, Balance, Run, States
<1>1. CASE packetState = <<"start", 0>>
  <2>1. run \in {Run(Start, FALSE, FALSE), Run(Size, TRUE, FALSE), Run(Reset, TRUE, FALSE)}
    BY <1>1 DEF Samples
  <2> QED
    BY <1>1, <2>1
<1>2. CASE packetState = <<"size", 0>>
  <2>1. run \in Lost \cup {Run(<<"data", n>>, FALSE, FALSE) : n \in Payloads}
    BY <1>2 DEF Samples
  <2> QED
    BY <1>2, <2>1 DEF Lost, AfterReset, IrAssumption
<1>3. CASE packetState \in {"data"} \X (Nat \ {0})
  <2>1. run \in Lost \cup {Run(NextData, FALSE, FALSE)}
    BY <1>3 DEF Samples
  <2>2. NextData \in States /\ NextData # Start
    BY <1>3 DEF NextData
  <2> QED
    BY <1>3, <2>1, <2>2 DEF Lost, AfterReset
<1>4. CASE packetState = <<"chksum", 0>>
  <2>1. run \in Lost
    BY <1>4 DEF Samples
  <2> QED
    BY <1>4, <2>1 DEF Lost, AfterReset
<1>5. CASE packetState = <<"reset", 0>>
  <2>1. run \in AfterReset
    BY <1>5 DEF Samples
  <2> QED
    BY <1>5, <2>1 DEF AfterReset
<1> QED
  BY <1>1, <1>2, <1>3, <1>4, <1>5

-----------------------------------------------------------------------------
(* At power-up nothing is sent, received or blocked. *)
LEMMA InitIrInv == IrAssumption /\ Init => IrInv
<1> SUFFICES ASSUME IrAssumption, Init PROVE IrInv
  OBVIOUS
<1>3. Runs \in Nat \ {0} /\ half \in [{0, 1} -> Nat \X Nat]
  BY DEF Init, IrAssumption, Silence, Runs
<1>4. /\ rxBase \in 0 .. Runs - 1 /\ quiet \in 0 .. kQuiet /\ rxDue \in 0 .. 2
      /\ txCtr \in Nat /\ txLen \in Lengths \cup {0} /\ playing \in {0, 1}
      /\ pulls \in Nat /\ held \in Nat /\ lag \in Nat /\ noise \in Nat /\ blockers \in Nat
  BY <1>3 DEF Init, kQuiet
<1>5. /\ fresh \in BOOLEAN /\ released \in BOOLEAN /\ finished \in BOOLEAN
      /\ suspended \in BOOLEAN /\ late \in BOOLEAN /\ cut \in BOOLEAN
  BY DEF Init
<1>6. /\ txState \in {"ready", "quiet", "collision", "header", "body"}
      /\ queued \in {None, <<0>>, <<1>>} /\ runner \in {None, <<0>>, <<1>>}
      /\ rxTask \in {None} \cup ({0, 1} \X (0 .. Runs - 1))
      /\ packetState \in ({"start", "size", "chksum", "reset"} \X {0})
                        \cup ({"data"} \X (Nat \ {0}))
  BY DEF Init
<1>1. IrTypeOK
  BY <1>3, <1>4, <1>5, <1>6 DEF IrTypeOK
<1>2. BlockersBalance /\ LookedInTime /\ HeldInv /\ ErasingInv /\ FreshInv /\ txState = "ready"
  BY DEF Init, BlockersBalance, LookedInTime, HeldInv, ErasingInv, FreshInv, Start
<1> QED
  BY <1>1, <1>2 DEF IrInv

(* A tick queues the populate task once more at most, and takes one from   *)
(* what is left until the next pull. *)
LEMMA TickIrInv == IrInv /\ Tick => IrInv'
<1> SUFFICES ASSUME IrInv, Tick PROVE IrInv'
  OBVIOUS
<1> USE DEF IrInv
<1>1. IrTypeOK'
  <2>1. /\ UNCHANGED <<txState, txCtr, txLen, half, rxVars, logVars, pulls, blockers>>
        /\ UNCHANGED <<suspended, noise, cut>>
        /\ fresh' = FALSE
    BY DEF Tick
  <2>2. playing' \in {0, 1} /\ queued' \in {None, <<0>>, <<1>>} /\ rxDue' \in 0 .. 2
    BY DEF Tick, IrTypeOK, None
  <2>3. lag' \in Nat /\ late' \in BOOLEAN
    BY DEF Tick, IrTypeOK
  <2>4. held' \in Nat
    BY DEF Tick, IrTypeOK
  <2> QED
    BY <2>1, <2>2, <2>3, <2>4 DEF IrTypeOK, rxVars, logVars
<1>2. BlockersBalance'
  BY DEF BlockersBalance, Tick, logVars
<1>3. HeldInv'
  BY DEF HeldInv, Tick, None, IrTypeOK
<1>4. LookedInTime'
  <2> SUFFICES ASSUME released PROVE LookedInTime'
    BY DEF LookedInTime, Tick, rxVars
  <2>1. UNCHANGED <<txState, txCtr, released>> /\ txState \in {"header", "body"}
    BY DEF Tick, rxVars, LookedInTime
  <2>2. pulls' = pulls /\ pulls \in Nat /\ fresh' = FALSE /\ fresh \in BOOLEAN
    BY DEF Tick, IrTypeOK
  <2>3. CASE pulls = 0
    <3>1. rxDue' = rxDue - 1 /\ Populated' <= Populated + 1
      BY <2>1 DEF Tick, Populated, None, IrTypeOK
    <3>2. Populated <= 2 - rxDue /\ rxDue \in 0 .. 2
      BY <2>3 DEF LookedInTime, IrTypeOK
    <3>3. Populated' \in Int /\ Populated \in Int
      BY <2>1 DEF IrTypeOK, Populated
    <3>4. Populated' <= 2 - rxDue'
      BY <3>1, <3>2, <3>3
    <3> QED
      BY <2>1, <2>2, <2>3, <3>4 DEF LookedInTime
  <2>4. CASE pulls > 0 /\ ~Overdue
    <3>1. Overdue' /\ Populated' <= Populated + 1
      BY <2>1, <2>2, <2>4 DEF Tick, Populated, Overdue, None, IrTypeOK
    <3> QED
      BY <2>1, <2>2, <2>4, <3>1 DEF LookedInTime, IrTypeOK, Populated
  <2>5. CASE pulls > 0 /\ Overdue
    <3>1. held # 0
      BY <2>5 DEF Tick, CaughtUp, Free
    <3>2. Overdue' /\ Populated' = Populated
      BY <2>1, <2>2, <2>5, <3>1 DEF Tick, Populated, Overdue, None, IrTypeOK, HeldInv
    <3> QED
      BY <2>1, <2>2, <2>5, <3>2 DEF LookedInTime
  <2> QED
    BY <2>2, <2>3, <2>4, <2>5
<1>5. ErasingInv'
  BY DEF ErasingInv, Tick, rxVars, Populated
<1>6. (txState # "ready" => txLen \in Lengths)' /\ FreshInv'
  BY DEF Tick, FreshInv
<1> QED
  BY <1>1, <1>2, <1>3, <1>4, <1>5, <1>6

(* The end of a half of the receive DMA queues the pull. *)
LEMMA RxTickIrInv == IrInv /\ RxTick => IrInv'
<1> SUFFICES ASSUME IrInv, RxTick PROVE IrInv'
  OBVIOUS
<1> USE DEF IrInv
<1>1. /\ rxDue = 0 /\ rxDue' = 2
      /\ UNCHANGED <<txVars, rxVars, logVars, playing, held, lag, blockers, suspended>>
      /\ UNCHANGED <<noise, late, cut>>
  BY DEF RxTick
<1>8. \/ suspended /\ pulls' = pulls /\ fresh' = fresh
      \/ ~suspended /\ pulls' = pulls + 1 /\ fresh' = TRUE
  BY DEF RxTick, pullVars
<1>9. pulls \in Nat /\ fresh \in BOOLEAN
  BY DEF IrTypeOK
<1>2. IrTypeOK'
  <2>1. pulls' \in Nat
    BY <1>8, <1>9
  <2>2. fresh' \in BOOLEAN
    BY <1>8, <1>9, Zenon
  <2> QED
    BY <1>1, <2>1, <2>2 DEF IrTypeOK, txVars, rxVars, logVars
<1>3. Populated' = Populated
  BY <1>1 DEF Populated, txVars
<1>4. BlockersBalance' /\ HeldInv' /\ ErasingInv'
  BY <1>1, <1>3 DEF BlockersBalance, HeldInv, ErasingInv, txVars, rxVars, logVars
<1>5. FreshInv'
  <2>1. fresh => rxDue = 2
    BY DEF FreshInv
  <2>2. rxDue # 2 /\ rxDue' = 2
    BY <1>1
  <2>3. fresh' => ~suspended /\ pulls' = pulls + 1
    BY <1>8, <2>1, <2>2, Zenon
  <2> QED
    BY <1>9, <2>2, <2>3 DEF FreshInv
<1>6. LookedInTime'
  <2> SUFFICES ASSUME released PROVE LookedInTime'
    BY <1>1 DEF LookedInTime, rxVars
  <2>1. txState' = txState /\ txState \in {"header", "body"}
    BY <1>1 DEF LookedInTime, txVars
  <2>2. CASE suspended
    <3>1. Populated' = 0
      BY <1>3, <2>2 DEF ErasingInv
    <3> QED
      BY <1>1, <2>1, <3>1 DEF LookedInTime
  <2>3. CASE ~suspended /\ pulls = 0
    <3>1. Populated' <= 2
      BY <1>1, <1>3, <2>3 DEF LookedInTime
    <3>2. pulls' = 1 /\ fresh'
      BY <1>8, <2>3
    <3> QED
      BY <2>1, <3>1, <3>2 DEF LookedInTime, Overdue
  <2>4. CASE ~suspended /\ pulls # 0
    <3>1. Overdue' /\ pulls' # 0
      BY <1>8, <1>9, <2>4 DEF Overdue
    <3>2. Populated' <= 3
      BY <1>3, <2>4 DEF LookedInTime, Populated, IrTypeOK
    <3> QED
      BY <2>1, <3>1, <3>2 DEF LookedInTime
  <2> QED
    BY <2>2, <2>3, <2>4
<1>7. (txState # "ready" => txLen \in Lengths)'
  BY <1>1 DEF txVars
<1> QED
  BY <1>2, <1>4, <1>5, <1>6, <1>7

(* A packet begins with the air not yet looked at. *)
LEMMA SendPacketIrInv ==
  ASSUME IrInv, NEW n \in Lengths, SendPacket(n), IrAssumption
  PROVE  IrInv'
<1> USE DEF IrInv, SendPacket, SendBuffer, rxVars, logVars, hwVars, pullVars
<1>1. IrTypeOK'
  BY DEF IrTypeOK
<1>2. BlockersBalance'
  BY DEF BlockersBalance, IrTypeOK
<1>3. ~released
  BY DEF LookedInTime
<1>4. HeldInv' /\ LookedInTime' /\ ErasingInv' /\ FreshInv'
  BY <1>3 DEF HeldInv, LookedInTime, ErasingInv, FreshInv
<1> QED
  BY <1>1, <1>2, <1>4

(* The last byte is not written before the first pull after the release    *)
(* looked for a collision: three bytes are more than fit in between. *)
LEMMA PopulateIrInv == IrAssumption /\ IrInv /\ PopulateTxDmaBuffer => IrInv'
<1> SUFFICES ASSUME IrAssumption, IrInv, PopulateTxDmaBuffer PROVE IrInv'
  OBVIOUS
<1> USE DEF IrInv, PopulateTxDmaBuffer, rxVars, logVars, hwVars, pullVars
<1>1. Written \in Nat \X Nat
  BY DEF Written, Silence, IrTypeOK, IrAssumption
<1>2. queued' = None /\ UNCHANGED <<released, pulls, fresh, rxDue, suspended, held, packetState>>
  OBVIOUS
<1>3. ~suspended /\ released => ~LastByte
  BY DEF LookedInTime, LastByte, Populated, IrTypeOK, IrAssumption
<1>4. ~(suspended /\ released)
  BY DEF ErasingInv, Populated, IrTypeOK
<1>5. released => Populated' <= Populated /\ txState' \in {"header", "body"}
  BY <1>2, <1>3, <1>4 DEF LookedInTime, Populated, IrTypeOK
<1>6. LookedInTime' /\ ErasingInv'
  BY <1>2, <1>4, <1>5 DEF LookedInTime, ErasingInv, Populated, Overdue, IrTypeOK
<1>7. BlockersBalance'
  <2>1. CASE LastByte
    BY <1>2, <2>1 DEF BlockersBalance, LastByte, IrTypeOK
  <2>2. CASE ~LastByte
    BY <1>2, <2>2 DEF BlockersBalance, IrTypeOK
  <2> QED
    BY <2>1, <2>2
<1>8. HeldInv' /\ FreshInv'
  BY <1>2 DEF HeldInv, FreshInv, Free
<1>9. IrTypeOK'
  <2>1. half' \in [{0, 1} -> Nat \X Nat]
    BY <1>1 DEF IrTypeOK
  <2>2. blockers' \in Nat
    BY <1>7 DEF BlockersBalance
  <2>3. txState' \in {"ready", "quiet", "collision", "header", "body"} /\ txCtr' \in Nat
    BY DEF IrTypeOK
  <2>4. late' \in BOOLEAN /\ cut' \in BOOLEAN
    BY DEF IrTypeOK
  <2> QED
    BY <2>1, <2>2, <2>3, <2>4 DEF IrTypeOK
<1>10. (txState # "ready" => txLen \in Lengths)'
  BY DEF LastByte
<1> QED
  BY <1>6, <1>7, <1>8, <1>9, <1>10

LEMMA RoutineIrInv == IrInv /\ Routine => IrInv'
<1> SUFFICES ASSUME IrInv, Routine PROVE IrInv'
  OBVIOUS
<1> USE DEF IrInv, Routine, rxVars, logVars, hwVars, pullVars
<1>1. IrTypeOK' /\ BlockersBalance' /\ HeldInv' /\ FreshInv'
  BY DEF IrTypeOK, BlockersBalance, HeldInv, FreshInv
<1>2. ~released /\ ~released'
  BY DEF LookedInTime
<1> QED
  BY <1>1, <1>2 DEF LookedInTime, ErasingInv

(* A pull looks for a collision only when the packet is on its way, which  *)
(* then stays on its way; a packet is let go when nothing is queued.       *)
LEMMA PullIrInv ==
  ASSUME IrAssumption, IrInv, NEW clear \in BOOLEAN, PullRxDmaBuffer(clear)
  PROVE  IrInv'
<1> DEFINE q == IF ~clear THEN 0 ELSE IF quiet < kQuiet THEN quiet + 1 ELSE quiet
<1> USE DEF IrInv
<1>1. /\ queued = None /\ queued' = None
      /\ pulls > 0 /\ pulls' = pulls - 1 /\ fresh' = (fresh /\ pulls > 1)
      /\ quiet' = q /\ rxBase' = (rxBase + 1) % Runs
      /\ txState' = IF Release(q) THEN "header"
                    ELSE IF Collides(clear) THEN "collision" ELSE txState
      /\ txCtr' = IF Release(q) \/ Collides(clear) THEN 0 ELSE txCtr
      /\ released' = Release(q) /\ held = 0
      /\ UNCHANGED <<txLen, half, queued, logVars, hwVars, blockers, suspended, late>>
  BY DEF PullRxDmaBuffer, PullTurn, Free
<1>2. released' \in BOOLEAN /\ cut' \in BOOLEAN
  BY DEF PullRxDmaBuffer, Release
<1>3. released' => Populated' = 0 /\ txState' = "header"
  BY <1>1 DEF Populated
<1>4. LookedInTime' /\ ErasingInv' /\ HeldInv' /\ FreshInv'
  <2>1. FreshInv'
    <3>1. pulls \in Nat /\ rxDue' = rxDue
      BY <1>1 DEF IrTypeOK, hwVars
    <3>2. pulls' = pulls - 1 /\ fresh' = (fresh /\ pulls > 1)
      BY <1>1
    <3>3. fresh => rxDue = 2
      BY DEF FreshInv
    <3>4. fresh' => fresh /\ pulls > 1
      BY <3>2, Zenon
    <3> QED
      BY <3>1, <3>2, <3>3, <3>4 DEF FreshInv
  <2>2. ErasingInv' /\ HeldInv'
    BY <1>1, <1>3 DEF ErasingInv, HeldInv, hwVars, IrTypeOK
  <2>3. LookedInTime'
    BY <1>1, <1>3 DEF LookedInTime, hwVars, IrTypeOK
  <2> QED
    BY <2>1, <2>2, <2>3
<1>5. txState = "ready" <=> txState' = "ready"
  BY <1>1 DEF Release, Collides, LookedInTime
<1>6. BlockersBalance'
  BY <1>1, <1>5 DEF BlockersBalance, logVars
<1>7. IrTypeOK'
  <2>1. q \in 0 .. kQuiet
    <3>1. quiet \in 0 .. kQuiet
      BY DEF IrTypeOK
    <3>2. CASE clear
      BY <3>1, <3>2 DEF kQuiet
    <3>3. CASE ~clear
      BY <3>3 DEF kQuiet
    <3> QED
      BY <3>2, <3>3
  <2>2. rxBase' \in 0 .. Runs - 1
    <3>1. Runs \in Nat \ {0} /\ rxBase \in Nat
      BY DEF IrAssumption, Runs, IrTypeOK
    <3> QED
      BY <3>1, <1>1
  <2>3. runner' \in {None, <<0>>, <<1>>} /\ finished' \in BOOLEAN
    <3>1. \/ finished' = FALSE /\ runner' = <<IF FirstHalfDone THEN 0 ELSE 1>>
          \/ UNCHANGED <<finished, runner>>
      BY DEF PullRxDmaBuffer
    <3>2. <<IF FirstHalfDone THEN 0 ELSE 1>> \in {<<0>>, <<1>>}
      BY DEF FirstHalfDone
    <3> QED
      BY <3>1, <3>2 DEF IrTypeOK
  <2>4. noise' \in Nat /\ pulls' \in Nat /\ fresh' \in BOOLEAN
    BY <1>1 DEF PullRxDmaBuffer, IrTypeOK
  <2> HIDE DEF q
  <2> QED
    BY <1>1, <1>2, <2>1, <2>2, <2>3, <2>4 DEF IrTypeOK, logVars, hwVars
<1>8. (txState # "ready" => txLen \in Lengths)'
  BY <1>1, <1>5
<1> QED
  BY <1>4, <1>6, <1>7, <1>8

LEMMA OnBufferRecvIrInv == IrAssumption /\ IrInv /\ OnBufferRecvWrapper => IrInv'
<1> SUFFICES ASSUME IrAssumption, IrInv, OnBufferRecvWrapper PROVE IrInv'
  OBVIOUS
<1> USE DEF IrInv, OnBufferRecvWrapper, txVars, hwVars, pullVars
<1>1. rxTask' \in {0, 1} \X (0 .. Runs - 1)
  <2>1. runner = <<0>> \/ runner = <<1>>
    BY DEF IrTypeOK
  <2>2. 0 \in 0 .. Runs - 1
    BY DEF Runs, IrAssumption
  <2>3. rxTask' = <<0, 0>> \/ rxTask' = <<1, 0>>
    BY <2>1
  <2> QED
    BY <2>2, <2>3
<1>2. IrTypeOK'
  BY <1>1 DEF IrTypeOK, Finished, None
<1>3. BlockersBalance' /\ HeldInv' /\ LookedInTime' /\ ErasingInv' /\ FreshInv'
  BY DEF BlockersBalance, HeldInv, LookedInTime, ErasingInv, FreshInv, Populated, Overdue
<1> QED
  BY <1>2, <1>3

LEMMA OnBufferReceivedIrInv ==
  ASSUME IrAssumption, IrInv, NEW run \in Samples, NEW returns, OnBufferReceived(run, returns)
  PROVE  IrInv'
<1> USE DEF IrInv
<1>1. /\ packetState' = run.to /\ blockers' = blockers + Balance(run)
      /\ rxTask' = IF MoreToDo(returns) THEN <<rxTask[1], rxTask[2] + 1>> ELSE None
      /\ rxTask # None /\ noise' \in Nat
      /\ UNCHANGED <<txVars, rxVars, hwVars, pullVars, suspended, late, cut>>
  BY DEF OnBufferReceived, IrTypeOK
<1>2. /\ Balance(run) = InPacket(run.to) - InPacket(packetState)
      /\ run.to \in States
  BY RunBalance DEF IrTypeOK, States
<1>3. BlockersBalance'
  <2>1. blockers = (IF txState = "ready" THEN 0 ELSE 1) + InPacket(packetState)
    BY DEF BlockersBalance, InPacket
  <2>2. InPacket(packetState) \in {0, 1} /\ InPacket(run.to) \in {0, 1}
    BY DEF InPacket
  <2>3. blockers' = (IF txState = "ready" THEN 0 ELSE 1) + InPacket(run.to)
    BY <1>1, <1>2, <2>1, <2>2
  <2>4. blockers' = (IF txState' = "ready" THEN 0 ELSE 1) + InPacket(packetState')
    BY <1>1, <2>3 DEF txVars
  <2> QED
    BY <2>4 DEF BlockersBalance, InPacket
<1>4. rxTask' \in {None} \cup ({0, 1} \X (0 .. Runs - 1))
  <2>1. rxTask \in {0, 1} \X (0 .. Runs - 1)
    BY <1>1 DEF IrTypeOK
  <2>2. Runs \in Nat
    BY DEF IrAssumption, Runs
  <2> QED
    BY <1>1, <2>1, <2>2 DEF MoreToDo
<1>5. IrTypeOK'
  <2>1. blockers' \in Nat
    BY <1>3 DEF BlockersBalance
  <2> QED
    BY <1>1, <1>2, <1>4, <2>1 DEF IrTypeOK, States, txVars, rxVars, hwVars, pullVars
<1>6. HeldInv' /\ LookedInTime' /\ ErasingInv' /\ FreshInv'
  BY <1>1 DEF HeldInv, LookedInTime, ErasingInv, FreshInv, Populated, Overdue, txVars, rxVars,
              hwVars, pullVars
<1> QED
  BY <1>1, <1>3, <1>5, <1>6 DEF txVars

(* The flash is not erased while a packet is let go. *)
LEMMA TrySuspendIrInv == IrInv /\ TrySuspend => IrInv'
<1> SUFFICES ASSUME IrInv, TrySuspend PROVE IrInv'
  OBVIOUS
<1> USE DEF IrInv, TrySuspend, txVars, rxVars, logVars, hwVars, pullVars
<1>1. IrTypeOK' /\ BlockersBalance' /\ HeldInv' /\ LookedInTime' /\ FreshInv'
  BY DEF IrTypeOK, BlockersBalance, HeldInv, LookedInTime, FreshInv, Populated, Overdue
<1>2. txState = "ready"
  BY DEF BlockersBalance
<1> QED
  BY <1>1, <1>2 DEF ErasingInv, LookedInTime

LEMMA TryResumeIrInv == IrInv /\ TryResume => IrInv'
<1> SUFFICES ASSUME IrInv, TryResume PROVE IrInv'
  OBVIOUS
<1> USE DEF IrInv, txVars, rxVars, logVars, hwVars, pullVars
<1>1. /\ suspended' = FALSE /\ held = 0
      /\ UNCHANGED <<txVars, rxVars, logVars, hwVars, pullVars, blockers, noise, late, cut>>
  BY DEF TryResume, Free
<1>2. IrTypeOK'
  <2>1. suspended' \in BOOLEAN
    BY <1>1
  <2> QED
    BY <1>1, <2>1 DEF IrTypeOK
<1>3. BlockersBalance'
  BY <1>1 DEF BlockersBalance
<1>4. LookedInTime'
  BY <1>1 DEF LookedInTime, Populated, Overdue
<1>5. HeldInv' /\ FreshInv'
  BY <1>1 DEF HeldInv, FreshInv
<1>6. ErasingInv'
  BY <1>1 DEF ErasingInv
<1> QED
  BY <1>1, <1>2, <1>3, <1>4, <1>5, <1>6

LEMMA NextIrInv == IrAssumption /\ IrInv /\ [Next]_irVars => IrInv'
<1> SUFFICES ASSUME IrAssumption, IrInv, [Next]_irVars PROVE IrInv'
  OBVIOUS
<1>1. ASSUME NEW n \in Lengths, SendPacket(n) PROVE IrInv'
  BY <1>1, SendPacketIrInv
<1>2. ASSUME NEW clear \in BOOLEAN, PullRxDmaBuffer(clear) PROVE IrInv'
  BY <1>2, PullIrInv
<1>3. ASSUME NEW run \in Samples, NEW returns, OnBufferReceived(run, returns) PROVE IrInv'
  BY <1>3, OnBufferReceivedIrInv
<1>4. CASE UNCHANGED irVars
  <2>1. IrTypeOK'
    BY <1>4 DEF irVars, txVars, rxVars, logVars, hwVars, pullVars, IrInv, IrTypeOK
  <2>2. BlockersBalance' /\ HeldInv' /\ ErasingInv' /\ LookedInTime' /\ FreshInv'
    BY <1>4 DEF irVars, txVars, rxVars, logVars, hwVars, pullVars, IrInv, BlockersBalance,
                HeldInv, ErasingInv, LookedInTime, FreshInv, Populated, Overdue
  <2> QED
    BY <1>4, <2>1, <2>2 DEF irVars, txVars, IrInv
<1>5. CASE Next
  BY <1>1, <1>2, <1>3, <1>5, TickIrInv, RxTickIrInv, PopulateIrInv, RoutineIrInv,
     OnBufferRecvIrInv, TrySuspendIrInv, TryResumeIrInv DEF Next, Pull, Receive
<1> QED
  BY <1>4, <1>5

(* Whatever is sent, received or collides, and however the tasks, the DMA  *)
(* and the flash take turns: the inductive invariant holds. *)
THEOREM IrInvHolds == Spec => []IrInv
<1>1. IrAssumption
  BY IrAssumption
<1> QED
  BY <1>1, InitIrInv, NextIrInv, PTL DEF Spec

(* The variables keep their types. *)
THEOREM IrTypes == Spec => []IrTypeOK
<1>1. IrInv => IrTypeOK
  BY DEF IrInv
<1> QED
  BY <1>1, IrInvHolds, PTL

(* The blockers that SendBuffer and the decoder take are given back: the   *)
(* flash is never erased in the middle of a packet and never locked out by *)
(* one that is over. *)
THEOREM BlockersAddUp == Spec => []BlockersBalance
<1>1. IrInv => BlockersBalance
  BY DEF IrInv
<1> QED
  BY <1>1, IrInvHolds, PTL

-----------------------------------------------------------------------------
(* The order on the air.                                                   *)

(* The half that was refilled last, and a packet whose last byte (or whose *)
(* silence) a half holds. *)
Last == IF queued = None THEN half[1 - playing] ELSE half[playing]
IsLast(a) == a[1] = a[2]

(* Pulls that can look at the air without a tick in between. *)
Due == pulls + (IF rxDue = 0 THEN 1 ELSE 0)

(* Those, and the clear ones before: a packet is let go at the third. *)
Looks == quiet + Due

(* Several pulls on end come after a hold-up only.  It made a half late,   *)
(* and what is in time again begins with silence.                          *)
AllSilent == half = [s \in {0, 1} |-> Silence]
AfterHoldUp == Due > 1 => queued = None /\ AllSilent

RefillsOther == queued # None => queued = <<1 - playing>>

(* What is written next follows what was written last. *)
UpToLast ==
  /\ txState = "header" => IsLast(Last)
  /\ txState = "body" => Last = <<txCtr, txLen>>

(* Only a collision leaves a packet before its last byte, and then silence *)
(* is written long before the air was quiet for three pulls: no header     *)
(* follows a packet that is cut short. *)
CutShort ==
  txState \notin {"header", "body"} /\ ~IsLast(Last) =>
    cut /\ Looks <= (IF queued = None THEN 1 ELSE 2)

HalvesInOrder ==
  queued = None =>
    \/ Follows(half[playing], half[1 - playing])
    \/ cut /\ half[1 - playing] = Silence /\ Looks <= 2

AirInv == ~late => RefillsOther /\ UpToLast /\ CutShort /\ HalvesInOrder /\ AfterHoldUp

(* A tick moves on to the half that was refilled last, when it is in time. *)
LEMMA TickAirInv ==
  ASSUME IrInv, AirInv, Tick
  PROVE  /\ AirInv'
         /\ ~late' => \/ Follows(half[playing], half[playing'])
                      \/ cut /\ half[playing'] = Silence
<1> SUFFICES ASSUME ~late'
             PROVE  /\ RefillsOther' /\ UpToLast' /\ CutShort' /\ HalvesInOrder' /\ AfterHoldUp'
                    /\ \/ Follows(half[playing], half[playing'])
                       \/ cut /\ half[playing'] = Silence
  BY DEF AirInv
<1>1. /\ ~late /\ queued = None /\ playing \in {0, 1}
      /\ suspended => half = [s \in {0, 1} |-> Silence]
      /\ playing' = 1 - playing
      /\ queued' = IF suspended THEN None ELSE <<playing>>
      /\ UNCHANGED <<txState, txCtr, txLen, half, quiet, cut>>
      /\ rxDue' = rxDue - 1 /\ rxDue \in 1 .. 2
  BY DEF Tick, IrInv, IrTypeOK, rxVars
<1>2. RefillsOther /\ UpToLast /\ CutShort /\ HalvesInOrder
  BY <1>1 DEF AirInv
<1>3. 1 - (1 - playing) = playing
  BY <1>1
<1>4. pulls' = pulls /\ pulls \in Nat /\ fresh \in BOOLEAN
  BY DEF Tick, IrInv, IrTypeOK
<1>5. Looks' <= Looks + 1
  BY <1>1, <1>4 DEF Looks, Due, IrInv, IrTypeOK
<1>6. half[playing'] = half[1 - playing] /\ half'[playing'] = half[1 - playing]
  BY <1>1
<1>7. \/ Follows(half[playing], half[playing'])
      \/ cut /\ half[playing'] = Silence
  BY <1>1, <1>2, <1>6 DEF HalvesInOrder
<1>8. CASE suspended
  <2>1. half[playing] = Silence /\ half[1 - playing] = Silence
    BY <1>1, <1>8
  <2>2. Last' = Silence /\ Last = Silence /\ queued' = None
    BY <1>1, <1>3, <1>8, <2>1 DEF Last
  <2>3. RefillsOther' /\ CutShort'
    BY <2>2 DEF RefillsOther, CutShort, IsLast, Silence
  <2>4. UpToLast'
    BY <1>1, <1>2, <2>2 DEF UpToLast, IsLast
  <2>5. HalvesInOrder'
    BY <1>1, <1>3, <2>1 DEF HalvesInOrder, Follows, Silence
  <2>6. AfterHoldUp'
    BY <1>1, <1>8, <2>2 DEF AfterHoldUp, AllSilent
  <2> QED
    BY <1>7, <2>3, <2>4, <2>5, <2>6
<1>9. CASE ~suspended
  <2>1. queued' = <<playing>> /\ queued' # None
    BY <1>1, <1>9 DEF None
  <2>2. Last' = Last
    BY <1>1, <1>6, <2>1 DEF Last
  <2>3. RefillsOther' /\ HalvesInOrder'
    BY <1>1, <1>3, <2>1 DEF RefillsOther, HalvesInOrder
  <2>4. UpToLast'
    BY <1>1, <1>2, <2>2 DEF UpToLast, IsLast
  <2>5. CutShort'
    <3> SUFFICES ASSUME txState \notin {"header", "body"}, ~IsLast(Last)
                 PROVE  cut' /\ Looks' <= 2
      BY <1>1, <2>1, <2>2 DEF CutShort, IsLast
    <3>1. cut /\ Looks <= 1
      BY <1>1, <1>2 DEF CutShort
    <3>2. Looks' \in Nat /\ Looks \in Nat
      BY <1>1, <1>4 DEF Looks, Due, IrInv, IrTypeOK, kQuiet
    <3> QED
      BY <1>1, <1>5, <3>1, <3>2
  <2>6. AfterHoldUp'
    <3>1. held = 0
      BY <1>1, <1>9 DEF IrInv, IrTypeOK, HeldInv
    <3>2. ~Overdue
      BY <3>1 DEF Tick, CaughtUp, Free
    <3>3. pulls = 0 \/ (pulls = 1 /\ rxDue = 2)
      BY <1>4, <3>2 DEF Overdue, IrInv, FreshInv
    <3>4. Due' = 0 \/ Due' = 1
      BY <1>1, <1>4, <3>3 DEF Due
    <3> QED
      BY <3>4 DEF AfterHoldUp
  <2> QED
    BY <1>7, <2>3, <2>4, <2>5, <2>6
<1> QED
  BY <1>8, <1>9

(* What PopulateTxDmaBuffer writes is what comes after the other half; and *)
(* when both halves are silent again, no packet is in between. *)
LEMMA PopulateAirInv == IrAssumption /\ IrInv /\ AirInv /\ PopulateTxDmaBuffer => AirInv'
<1> SUFFICES ASSUME IrAssumption, IrInv, AirInv, PopulateTxDmaBuffer, ~late'
             PROVE  RefillsOther' /\ UpToLast' /\ CutShort' /\ HalvesInOrder' /\ AfterHoldUp'
  BY DEF AirInv
<1>1. /\ queued # None /\ queued' = None /\ playing' = playing /\ playing \in {0, 1}
      /\ half' = [half EXCEPT ![queued[1]] = Written]
      /\ txState' = CASE LastByte -> "ready" [] txState = "header" -> "body" [] OTHER -> txState
      /\ txCtr' = IF txState = "body" /\ ~LastByte THEN txCtr + 1 ELSE 0
      /\ late' = (late /\ half' # [s \in {0, 1} |-> Silence])
      /\ cut' = (cut /\ half' # [s \in {0, 1} |-> Silence])
      /\ UNCHANGED <<txLen, quiet, pulls, rxDue>>
  BY DEF PopulateTxDmaBuffer, IrInv, IrTypeOK, rxVars, hwVars, pullVars
<1>2. half \in [{0, 1} -> Nat \X Nat] /\ queued \in {<<0>>, <<1>>} /\ txCtr \in Nat
  BY <1>1 DEF IrInv, IrTypeOK
<1>3. /\ txState \in {"ready", "quiet", "collision", "header", "body"}
      /\ txState # "ready" => txLen \in Nat /\ txLen > 2
  BY DEF IrInv, IrTypeOK, IrAssumption
<1>4. Last' = half'[1 - playing]
  BY <1>1 DEF Last
<1>5. RefillsOther'
  BY <1>1 DEF RefillsOther
<1>6. Written[1] # Written[2] \/ Written = Silence \/ LastByte
  BY <1>2, <1>3 DEF Written, LastByte, Silence
<1>7. CASE late
  <2>1. half' = [s \in {0, 1} |-> Silence]
    BY <1>1, <1>7
  <2>2. Written = Silence
    BY <1>1, <1>2, <2>1
  <2>3. txState \notin {"header", "body"}
    BY <1>2, <1>3, <2>2 DEF Written, Silence
  <2>4. half'[playing] = Silence /\ half'[1 - playing] = Silence
    BY <1>1, <2>1
  <2>5. txState' = txState
    BY <1>1, <2>3 DEF LastByte
  <2>6. UpToLast'
    BY <2>3, <2>5 DEF UpToLast
  <2>7. CutShort'
    BY <1>4, <2>4 DEF CutShort, IsLast, Silence
  <2>8. HalvesInOrder'
    BY <1>1, <2>4 DEF HalvesInOrder, Follows, Silence
  <2>9. AfterHoldUp'
    BY <1>1, <2>1 DEF AfterHoldUp, AllSilent
  <2> QED
    BY <1>5, <2>6, <2>7, <2>8, <2>9
<1>8. CASE ~late
  <2>1. RefillsOther /\ UpToLast /\ CutShort /\ AfterHoldUp
    BY <1>8 DEF AirInv
  <2>8. AfterHoldUp'
    BY <1>1, <2>1 DEF AfterHoldUp, Due
  <2>2. queued[1] = 1 - playing
    BY <1>1, <2>1 DEF RefillsOther
  <2>3. Last = half[playing] /\ half'[playing] = half[playing] /\ half'[1 - playing] = Written
    <3>1. 1 - playing \in {0, 1} /\ 1 - playing # playing
      BY <1>1
    <3> QED
      BY <1>1, <1>2, <2>2, <3>1 DEF Last
  <2>4. Last' = Written
    BY <1>4, <2>3
  <2>5. CASE txState = "header"
    <3>1. Written = <<0, txLen>> /\ txState' = "body" /\ txCtr' = 0
      BY <1>1, <2>5 DEF Written, LastByte
    <3>2. UpToLast' /\ CutShort'
      BY <1>1, <2>4, <3>1 DEF UpToLast, CutShort
    <3>3. Follows(half'[playing], half'[1 - playing])
      BY <2>1, <2>3, <2>5, <3>1 DEF UpToLast, IsLast, Follows
    <3> QED
      BY <1>1, <1>5, <2>8, <3>2, <3>3 DEF HalvesInOrder
  <2>6. CASE txState = "body"
    <3>1. Written = <<txCtr + 1, txLen>> /\ Last = <<txCtr, txLen>>
      BY <2>1, <2>6 DEF Written, UpToLast
    <3>2. Follows(half'[playing], half'[1 - playing])
      BY <2>3, <3>1 DEF Follows
    <3>3. UpToLast' /\ CutShort'
      <4>1. CASE LastByte
        <5>1. txState' = "ready" /\ IsLast(Last)'
          BY <1>1, <2>4, <3>1, <4>1 DEF LastByte, IsLast
        <5> QED
          BY <5>1 DEF UpToLast, CutShort
      <4>2. CASE ~LastByte
        <5>1. txState' = "body" /\ txCtr' = txCtr + 1
          BY <1>1, <2>6, <4>2
        <5> QED
          BY <1>1, <2>4, <3>1, <5>1 DEF UpToLast, CutShort
      <4> QED
        BY <4>1, <4>2
    <3> QED
      BY <1>1, <1>5, <2>8, <3>2, <3>3 DEF HalvesInOrder
  <2>7. CASE txState \notin {"header", "body"}
    <3>1. Written = Silence /\ txState' = txState
      BY <1>1, <2>7 DEF Written, LastByte
    <3>2. UpToLast' /\ CutShort'
      BY <2>4, <2>7, <3>1 DEF UpToLast, CutShort, IsLast, Silence
    <3>3. CASE IsLast(half[playing])
      BY <1>1, <1>5, <2>3, <2>8, <3>1, <3>2, <3>3 DEF HalvesInOrder, Follows, IsLast, Silence
    <3>4. CASE ~IsLast(half[playing])
      <4>1. cut /\ Looks <= 2
        BY <1>1, <2>1, <2>3, <2>7, <3>4 DEF CutShort
      <4>2. half' # [s \in {0, 1} |-> Silence]
        <5>1. half[playing] # Silence
          BY <3>4 DEF IsLast, Silence
        <5>2. [s \in {0, 1} |-> Silence][playing] = Silence
          BY <1>1
        <5> QED
          BY <2>3, <5>1, <5>2
      <4>3. cut' /\ Looks' <= 2
        BY <1>1, <4>1, <4>2 DEF Looks, Due
      <4>4. half'[1 - playing'] = Silence
        BY <1>1, <2>3, <3>1
      <4>5. HalvesInOrder'
        BY <4>3, <4>4 DEF HalvesInOrder
      <4> QED
        BY <1>5, <2>8, <3>2, <4>5
    <3> QED
      BY <3>3, <3>4
  <2> QED
    BY <2>5, <2>6, <2>7
<1> QED
  BY <1>7, <1>8

(* A pull lets a packet go only when the air was quiet for longer than the *)
(* last packet can be incomplete, and a collision says that it is cut.     *)
LEMMA PullAirInv ==
  ASSUME IrInv, AirInv, NEW clear \in BOOLEAN, PullRxDmaBuffer(clear)
  PROVE  AirInv'
<1> DEFINE q == IF ~clear THEN 0 ELSE IF quiet < kQuiet THEN quiet + 1 ELSE quiet
<1> SUFFICES ASSUME ~late'
             PROVE  RefillsOther' /\ UpToLast' /\ CutShort' /\ HalvesInOrder' /\ AfterHoldUp'
  BY DEF AirInv
<1>1. /\ queued = None /\ queued' = None /\ pulls > 0 /\ pulls' = pulls - 1
      /\ quiet' = q
      /\ txState' = IF Release(q) THEN "header"
                    ELSE IF Collides(clear) THEN "collision" ELSE txState
      /\ txCtr' = IF Release(q) \/ Collides(clear) THEN 0 ELSE txCtr
      /\ cut' = (~Release(q) /\ (cut \/ Collides(clear)))
      /\ UNCHANGED <<txLen, half, playing, rxDue, late>>
  BY DEF PullRxDmaBuffer, PullTurn, hwVars
<1>2. RefillsOther /\ UpToLast /\ CutShort /\ HalvesInOrder /\ AfterHoldUp
  BY <1>1 DEF AirInv
<1>3. Last' = Last /\ RefillsOther'
  BY <1>1 DEF Last, RefillsOther
<1>4. quiet \in 0 .. kQuiet /\ rxDue \in 0 .. 2 /\ pulls \in Nat /\ playing \in {0, 1}
  BY DEF IrInv, IrTypeOK
<1>5. Looks' <= Looks
  BY <1>1, <1>4 DEF Looks, Due, kQuiet
<1>6. Collides(clear) => Looks' <= 1 \/ IsLast(Last)
  <2>1. CASE Due <= 1
    BY <1>1, <1>4, <2>1 DEF Looks, Due, Collides
  <2>2. CASE Due > 1
    <3>1. half = [s \in {0, 1} |-> Silence]
      BY <1>2, <2>2 DEF AfterHoldUp, AllSilent
    <3>2. Last = Silence
      BY <1>1, <1>4, <3>1 DEF Last
    <3> QED
      BY <3>2 DEF IsLast, Silence
  <2>3. Due \in Int
    BY <1>4 DEF Due
  <2> QED
    BY <2>1, <2>2, <2>3
<1>7. Looks \in Nat /\ Looks' \in Nat
  BY <1>1, <1>4 DEF Looks, Due, kQuiet
<1>8. Release(q) => Looks >= 3
  BY <1>1, <1>4 DEF Release, Looks, Due, kQuiet
<1>11. AfterHoldUp'
  <2>1. Due' > 1 => Due > 1
    BY <1>1, <1>4 DEF Due
  <2> QED
    BY <1>1, <1>2, <2>1 DEF AfterHoldUp, AllSilent
<1> HIDE DEF q
<1>9. CASE Release(q)
  <2>1. txState = "quiet" /\ txState' = "header" /\ ~(Looks <= 2) /\ ~(Looks <= 1)
    BY <1>1, <1>7, <1>8, <1>9 DEF Release
  <2>2. IsLast(Last)
    BY <1>1, <1>2, <2>1 DEF CutShort
  <2>3. Follows(half[playing], half[1 - playing])
    BY <1>1, <1>2, <2>1 DEF HalvesInOrder
  <2>4. UpToLast' /\ CutShort'
    BY <1>3, <2>1, <2>2 DEF UpToLast, CutShort, IsLast
  <2>5. HalvesInOrder'
    BY <1>1, <2>3 DEF HalvesInOrder
  <2> QED
    BY <1>3, <1>11, <2>4, <2>5
<1>10. CASE ~Release(q)
  <2>1. HalvesInOrder'
    <3>1. CASE Follows(half[playing], half[1 - playing])
      BY <1>1, <3>1 DEF HalvesInOrder
    <3>2. CASE cut /\ half[1 - playing] = Silence /\ Looks <= 2
      <4>1. Looks' <= 2
        BY <1>5, <1>7, <3>2
      <4>2. cut'
        BY <1>1, <1>10, <3>2
      <4> QED
        BY <1>1, <3>2, <4>1, <4>2 DEF HalvesInOrder
    <3> QED
      BY <1>1, <1>2, <3>1, <3>2 DEF HalvesInOrder
  <2>2. CASE Collides(clear)
    <3>1. txState' = "collision" /\ cut' /\ queued' = None
      BY <1>1, <1>10, <2>2
    <3>2. UpToLast' /\ CutShort'
      BY <1>3, <1>6, <2>2, <3>1 DEF UpToLast, CutShort, IsLast
    <3> QED
      BY <1>3, <1>11, <2>1, <3>2
  <2>3. CASE ~Collides(clear)
    <3>1. txState' = txState /\ txCtr' = txCtr /\ txLen' = txLen
      BY <1>1, <1>10, <2>3
    <3>2. UpToLast'
      BY <1>2, <1>3, <3>1 DEF UpToLast, IsLast
    <3>3. CutShort'
      <4> SUFFICES ASSUME txState \notin {"header", "body"}, ~IsLast(Last)
                   PROVE  cut' /\ Looks' <= 1
        BY <1>1, <1>3, <3>1 DEF CutShort, IsLast
      <4>1. cut /\ Looks <= 1
        BY <1>1, <1>2 DEF CutShort
      <4>2. Looks' <= 1
        BY <1>5, <1>7, <4>1
      <4> QED
        BY <1>1, <1>10, <4>1, <4>2
    <3> QED
      BY <1>3, <1>11, <2>1, <3>2, <3>3
  <2> QED
    BY <2>2, <2>3
<1> QED
  BY <1>9, <1>10

(* The end of a half of the receive DMA queues a pull instead of being     *)
(* due itself. *)
LEMMA RxTickAirInv == IrInv /\ AirInv /\ RxTick => AirInv'
<1> SUFFICES ASSUME IrInv, AirInv, RxTick, ~late'
             PROVE  RefillsOther' /\ UpToLast' /\ CutShort' /\ HalvesInOrder' /\ AfterHoldUp'
  BY DEF AirInv
<1>1. UNCHANGED <<txVars, playing, quiet, late, cut>> /\ rxDue = 0 /\ rxDue' = 2
  BY DEF RxTick, rxVars
<1>2. RefillsOther /\ UpToLast /\ CutShort /\ HalvesInOrder /\ AfterHoldUp
  BY <1>1 DEF AirInv
<1>8. /\ pulls \in Nat /\ Due = pulls + 1 /\ quiet \in Nat
      /\ Due' = pulls \/ Due' = pulls + 1
  BY <1>1 DEF RxTick, pullVars, Due, IrInv, IrTypeOK, kQuiet
<1>3. Looks' <= Looks /\ Looks \in Nat /\ Looks' \in Nat
  BY <1>1, <1>8 DEF Looks
<1>9. AfterHoldUp'
  <2>1. Due' > 1 => Due > 1
    BY <1>8
  <2> QED
    BY <1>1, <1>2, <2>1 DEF AfterHoldUp, AllSilent, txVars
<1>4. Last' = Last
  BY <1>1 DEF Last, txVars
<1>5. RefillsOther' /\ UpToLast'
  BY <1>1, <1>2, <1>4 DEF RefillsOther, UpToLast, IsLast, txVars
<1>6. CutShort'
  <2> SUFFICES ASSUME txState \notin {"header", "body"}, ~IsLast(Last)
               PROVE  cut /\ Looks' <= (IF queued = None THEN 1 ELSE 2)
    BY <1>1, <1>4 DEF CutShort, IsLast, txVars
  <2>1. cut /\ Looks <= (IF queued = None THEN 1 ELSE 2)
    BY <1>2 DEF CutShort
  <2> QED
    BY <1>3, <2>1
<1>7. HalvesInOrder'
  <2>1. Looks <= 2 => Looks' <= 2
    BY <1>3
  <2> QED
    BY <1>1, <1>2, <2>1 DEF HalvesInOrder, txVars
<1> QED
  BY <1>5, <1>6, <1>7, <1>9

(* Sending begins and goes on after a wait with what the halves hold. *)
LEMMA StartAirInv ==
  ASSUME AirInv, Routine \/ (\E n \in Lengths : SendPacket(n))
  PROVE  AirInv'
<1> SUFFICES ASSUME ~late'
             PROVE  RefillsOther' /\ UpToLast' /\ CutShort' /\ HalvesInOrder' /\ AfterHoldUp'
  BY DEF AirInv
<1>1. /\ txState \in {"ready", "collision"} /\ txState' = "quiet"
      /\ UNCHANGED <<half, queued, rxVars, hwVars, pullVars, late, cut>>
  BY DEF Routine, SendPacket, SendBuffer
<1>2. RefillsOther /\ UpToLast /\ CutShort /\ HalvesInOrder /\ AfterHoldUp
  BY <1>1 DEF AirInv
<1>3. Last' = Last /\ Looks' = Looks /\ Due' = Due
  BY <1>1 DEF Last, Looks, Due, rxVars, hwVars, pullVars
<1>4. RefillsOther' /\ UpToLast' /\ HalvesInOrder'
  BY <1>1, <1>2, <1>3 DEF RefillsOther, UpToLast, HalvesInOrder, hwVars
<1>5. CutShort'
  BY <1>1, <1>2, <1>3 DEF CutShort, IsLast
<1>6. AfterHoldUp'
  BY <1>1, <1>2, <1>3 DEF AfterHoldUp, AllSilent
<1> QED
  BY <1>4, <1>5, <1>6

airVars == <<txVars, playing, rxDue, pulls, quiet, late, cut>>

LEMMA IdleAirInv == AirInv /\ UNCHANGED airVars => AirInv'
<1> SUFFICES ASSUME AirInv, UNCHANGED airVars PROVE AirInv'
  OBVIOUS
<1>1. Last' = Last /\ Looks' = Looks /\ Due' = Due
  BY DEF airVars, txVars, Last, Looks, Due
<1>2. RefillsOther' <=> RefillsOther
  BY DEF airVars, txVars, RefillsOther
<1>3. UpToLast' <=> UpToLast
  BY <1>1 DEF airVars, txVars, UpToLast, IsLast
<1>4. CutShort' <=> CutShort
  BY <1>1 DEF airVars, txVars, CutShort, IsLast
<1>5. HalvesInOrder' <=> HalvesInOrder
  BY <1>1 DEF airVars, txVars, HalvesInOrder
<1>6. AfterHoldUp' <=> AfterHoldUp
  BY <1>1 DEF airVars, txVars, AfterHoldUp, AllSilent
<1> QED
  BY <1>2, <1>3, <1>4, <1>5, <1>6 DEF AirInv, airVars

LEMMA NextAirInv == IrAssumption /\ IrInv /\ AirInv /\ [Next]_irVars => AirInv'
<1> SUFFICES ASSUME IrAssumption, IrInv, AirInv, [Next]_irVars PROVE AirInv'
  OBVIOUS
<1>1. CASE Tick
  BY <1>1, TickAirInv
<1>2. CASE RxTick \/ PopulateTxDmaBuffer
  BY <1>2, RxTickAirInv, PopulateAirInv
<1>3. CASE Routine \/ (\E n \in Lengths : SendPacket(n))
  BY <1>3, StartAirInv
<1>4. CASE Pull
  BY <1>4, PullAirInv DEF Pull
<1>5. CASE Receive \/ TrySuspend \/ TryResume \/ UNCHANGED irVars
  <2>1. UNCHANGED airVars
    BY <1>5 DEF Receive, OnBufferRecvWrapper, OnBufferReceived, TrySuspend, TryResume,
                airVars, irVars, txVars, rxVars, hwVars, pullVars
  <2> QED
    BY <2>1, IdleAirInv
<1> QED
  BY <1>1, <1>2, <1>3, <1>4, <1>5 DEF Next

(* The DMA sends the header and every byte of every packet once and in     *)
(* order, and only a collision cuts a packet short, as long as its halves  *)
(* are refilled in time: for packets of any length and tasks that hold the *)
(* main thread for any time. *)
THEOREM SendsInOrder == Spec => AirInOrder
<1>1. IrAssumption
  BY IrAssumption
<1>2. Init => AirInv
  BY DEF Init, AirInv, AfterHoldUp, Due, RefillsOther, UpToLast, CutShort, HalvesInOrder, Last, IsLast,
         Follows, Silence, None
<1>3. IrInv /\ AirInv /\ [Next]_irVars =>
        [playing' # playing /\ ~late' =>
           \/ Follows(half[playing], half[playing'])
           \/ cut /\ half[playing'] = Silence]_irVars
  <2> SUFFICES ASSUME IrInv, AirInv, Next, playing' # playing, ~late'
               PROVE  \/ Follows(half[playing], half[playing'])
                      \/ cut /\ half[playing'] = Silence
    OBVIOUS
  <2>1. Tick
    BY DEF Next, RxTick, SendPacket, PopulateTxDmaBuffer, Routine, Pull, PullRxDmaBuffer,
           Receive, OnBufferRecvWrapper, OnBufferReceived, TrySuspend, TryResume, hwVars
  <2> QED
    BY <2>1, TickAirInv
<1> QED
  BY <1>1, <1>2, <1>3, NextAirInv, IrInvHolds, PTL DEF Spec, AirInOrder

-----------------------------------------------------------------------------
(* The receiver's two halves.                                              *)

(* Pulls into the half that is being filled, and the one that is full. *)
Into   == IF rxBase < Pulls THEN rxBase ELSE rxBase - Pulls
Filled == IF rxBase < Pulls THEN 1 ELSE 0

(* A pull needs two ticks.  Those that a hold-up leaves behind are counted *)
(* by held and run in the tick after it; while the tasks of IrLogic are    *)
(* behind, ticks are counted by lag.  They work on the half that is full. *)
RxInv ==
  /\ finished <=> runner = None
  /\ lag <= RxSlack /\ held <= MaxHeld
  /\ held = 0 => 2 * pulls <= rxDue + MaxHeld + 1
  /\ held # 0 => 2 * pulls <= rxDue + held
  /\ Behind => 2 * (Into + pulls) <= lag + rxDue + MaxHeld - 1
  /\ runner # None => runner[1] = Filled
  /\ rxTask # None => rxTask[1] = Filled

(* The tasks that have less than the time of one half to catch up are not  *)
(* behind when the next half is full. *)
LEMMA CaughtUpInTime ==
  ASSUME IrAssumption, RxSlack + MaxHeld + 1 < 2 * Pulls, IrInv, RxInv, HalfDone, pulls > 0
  PROVE  ~Behind
<1> SUFFICES ASSUME Behind PROVE FALSE
  OBVIOUS
<1>1. /\ rxBase \in Nat /\ Pulls \in Nat \ {0} /\ lag \in Nat /\ rxDue \in 0 .. 2
      /\ RxSlack \in Nat /\ MaxHeld \in Nat /\ pulls \in Nat
  BY DEF IrInv, IrTypeOK, IrAssumption
<1>2. Into = Pulls - 1
  BY <1>1 DEF HalfDone, Runs, Into
<1>3. 2 * (Into + pulls) <= lag + rxDue + MaxHeld - 1 /\ lag <= RxSlack
  BY DEF RxInv
<1> QED
  BY <1>1, <1>2, <1>3

LEMMA PullRxInv ==
  ASSUME IrAssumption, RxSlack + MaxHeld + 1 < 2 * Pulls, IrInv, RxInv,
         NEW clear \in BOOLEAN, PullRxDmaBuffer(clear)
  PROVE  RxInv'
<1>1. /\ pulls > 0 /\ pulls' = pulls - 1 /\ held = 0 /\ held' = 0 /\ rxBase' = (rxBase + 1) % Runs
      /\ IF HalfDone THEN finished' = FALSE /\ runner' = <<IF FirstHalfDone THEN 0 ELSE 1>>
         ELSE UNCHANGED <<finished, runner>>
      /\ UNCHANGED <<rxTask, lag, rxDue>>
  BY DEF PullRxDmaBuffer, Free, logVars, hwVars
<1>2. /\ pulls \in Nat /\ MaxHeld \in Nat
      /\ rxBase \in 0 .. Runs - 1 /\ Pulls \in Nat \ {0} /\ Runs = 2 * Pulls
      /\ lag \in Nat /\ rxDue \in 0 .. 2 /\ RxSlack \in Nat
  BY DEF IrInv, IrTypeOK, IrAssumption, Runs
<1>3. rxBase' = IF rxBase = Runs - 1 THEN 0 ELSE rxBase + 1
  BY <1>1, <1>2
<1>6. 2 * pulls' <= rxDue' + MaxHeld - 1 /\ 2 * pulls' <= rxDue' + MaxHeld + 1
  BY <1>1, <1>2 DEF RxInv
<1>4. CASE HalfDone
  <2>1. ~Behind
    BY <1>1, <1>4, CaughtUpInTime
  <2>2. Into' = 0 /\ Filled' = IF FirstHalfDone THEN 0 ELSE 1
    BY <1>2, <1>3, <1>4 DEF HalfDone, FirstHalfDone, Into, Filled
  <2>3. runner' # None /\ rxTask' = None /\ finished' = FALSE
    <3>1. finished' = FALSE /\ rxTask' = rxTask /\ rxTask = None
      BY <1>1, <1>4, <2>1 DEF Behind
    <3>2. runner' = <<IF FirstHalfDone THEN 0 ELSE 1>>
      BY <1>1, <1>4
    <3> QED
      BY <3>1, <3>2 DEF None
  <2>4. runner'[1] = Filled'
    BY <1>1, <1>4, <2>2
  <2>5. 2 * (Into' + pulls') <= lag' + rxDue' + MaxHeld - 1 /\ lag' <= RxSlack
    BY <1>1, <1>2, <1>6, <2>2 DEF RxInv
  <2> QED
    BY <1>1, <1>2, <1>6, <2>3, <2>4, <2>5 DEF RxInv
<1>5. CASE ~HalfDone
  <2>1. Into' = Into + 1 /\ Filled' = Filled
    BY <1>2, <1>3, <1>5 DEF HalfDone, Into, Filled
  <2>2. Behind' = Behind /\ UNCHANGED <<finished, runner, rxTask, lag, rxDue>>
    BY <1>1, <1>5 DEF Behind
  <2>3. Into \in Nat
    BY <1>2 DEF Into
  <2>4. Behind' => 2 * (Into' + pulls') <= lag' + rxDue' + MaxHeld - 1
    BY <1>1, <1>2, <2>1, <2>2, <2>3 DEF RxInv
  <2> QED
    BY <1>1, <1>2, <1>6, <2>1, <2>2, <2>4 DEF RxInv
<1> QED
  BY <1>4, <1>5

LEMMA TickRxInv == IrAssumption /\ IrInv /\ RxInv /\ (Tick \/ RxTick) => RxInv'
<1> SUFFICES ASSUME IrAssumption, IrInv, RxInv, Tick \/ RxTick PROVE RxInv'
  OBVIOUS
<1>1. /\ lag \in Nat /\ rxDue \in 0 .. 2 /\ RxSlack \in Nat /\ rxBase \in Nat /\ Pulls \in Nat
      /\ rxBase < Pulls \/ ~(rxBase < Pulls)
      /\ pulls \in Nat /\ fresh \in BOOLEAN /\ held \in Nat /\ MaxHeld \in Nat
  BY DEF IrInv, IrTypeOK, IrAssumption
<1>2. UNCHANGED <<rxBase, finished, runner, rxTask>>
  BY DEF Tick, RxTick, rxVars, logVars
<1>3. Into' = Into /\ Filled' = Filled /\ Behind' = Behind /\ Into \in Int
  BY <1>1, <1>2 DEF Into, Filled, Behind
<1>4. CASE Tick
  <2>1. /\ Behind => lag < RxSlack
        /\ lag' = IF Behind THEN lag + 1 ELSE 0
        /\ rxDue' = rxDue - 1 /\ rxDue > 0
        /\ pulls' = pulls
        /\ held = 0 => ~Overdue
        /\ held' \in {0} \cup {h \in {held + 1} : h <= MaxHeld /\ lag' < RxSlack}
    BY <1>4 DEF Tick, CaughtUp, Free
  <2>2. lag' <= RxSlack /\ held' <= MaxHeld /\ (held' = 0 \/ held' = held + 1)
    BY <1>1, <2>1
  <2>3. Behind => lag' + rxDue' = lag + rxDue
    BY <1>1, <2>1
  <2>6. rxDue' = rxDue - 1 /\ pulls' = pulls
    BY <2>1
  <2>4. /\ held' = 0 => 2 * pulls' <= rxDue' + MaxHeld + 1
        /\ held' # 0 => 2 * pulls' <= rxDue' + held'
    <3>1. CASE held = 0
      <4>1. pulls = 0 \/ (pulls = 1 /\ rxDue = 2)
        BY <1>1, <2>1, <3>1 DEF Overdue, IrInv, FreshInv
      <4>2. 2 * pulls' <= rxDue' + 1
        BY <1>1, <2>1, <4>1
      <4>3. 2 * pulls' <= rxDue' + MaxHeld + 1
        BY <1>1, <2>6, <4>2
      <4>4. held' # 0 => held' = 1
        BY <2>2, <3>1
      <4> QED
        BY <4>2, <4>3, <4>4
    <3>2. CASE held # 0
      <4>1. 2 * pulls <= rxDue + held /\ held <= MaxHeld
        BY <3>2 DEF RxInv
      <4>2. 2 * pulls' <= rxDue' + 1 + held
        BY <1>1, <2>1, <4>1
      <4>3. held' = 0 \/ (held' = held + 1 /\ held' # 0)
        BY <1>1, <2>2
      <4>4. 2 * pulls' <= rxDue' + MaxHeld + 1
        BY <1>1, <2>6, <4>1
      <4>5. held' # 0 => 2 * pulls' <= rxDue' + held'
        BY <1>1, <2>6, <4>2, <4>3
      <4> QED
        BY <4>4, <4>5
    <3> QED
      BY <3>1, <3>2
  <2>5. Behind' => 2 * (Into' + pulls') <= lag' + rxDue' + MaxHeld - 1
    <3>1. Behind => 2 * (Into + pulls) <= lag + rxDue + MaxHeld - 1
      BY DEF RxInv
    <3> QED
      BY <1>1, <1>3, <2>1, <2>3, <3>1
  <2> QED
    BY <1>2, <1>3, <2>2, <2>4, <2>5 DEF RxInv
<1>5. CASE RxTick
  <2>1. /\ rxDue = 0 /\ rxDue' = 2 /\ lag' = lag /\ held' = held
        /\ pulls' = pulls \/ pulls' = pulls + 1
    BY <1>5 DEF RxTick, pullVars
  <2>2. /\ held' = 0 => 2 * pulls' <= rxDue' + MaxHeld + 1
        /\ held' # 0 => 2 * pulls' <= rxDue' + held'
    BY <1>1, <2>1 DEF RxInv
  <2>3. Behind' => 2 * (Into' + pulls') <= lag' + rxDue' + MaxHeld - 1
    <3>1. Behind => 2 * (Into + pulls) <= lag + rxDue + MaxHeld - 1
      BY DEF RxInv
    <3> QED
      BY <1>1, <1>3, <2>1, <3>1
  <2> QED
    BY <1>2, <1>3, <2>1, <2>2, <2>3 DEF RxInv
<1> QED
  BY <1>4, <1>5

LEMMA OnBufferRxInv ==
  ASSUME IrInv, RxInv,
         OnBufferRecvWrapper \/ (\E run \in Samples, returns \in BOOLEAN :
                                   OnBufferReceived(run, returns))
  PROVE  RxInv'
<1>1. UNCHANGED <<rxBase, lag, rxDue, held, pulls>> /\ Into' = Into /\ Filled' = Filled
  BY DEF OnBufferRecvWrapper, OnBufferReceived, rxVars, hwVars, pullVars, Into, Filled
<1>2. Behind
  BY DEF OnBufferRecvWrapper, OnBufferReceived, Behind
<1>3. CASE OnBufferRecvWrapper
  <2>1. runner # None /\ runner' = None /\ finished' = TRUE /\ rxTask' = <<runner[1], 0>>
    BY <1>3 DEF OnBufferRecvWrapper, Finished
  <2>2. rxTask'[1] = Filled'
    BY <1>1, <2>1 DEF RxInv
  <2> QED
    BY <1>1, <1>2, <2>1, <2>2 DEF RxInv
<1>4. ASSUME NEW run \in Samples, NEW returns \in BOOLEAN, OnBufferReceived(run, returns)
      PROVE  RxInv'
  <2>1. /\ rxTask # None
        /\ rxTask' = None \/ rxTask' = <<rxTask[1], rxTask[2] + 1>>
        /\ UNCHANGED <<runner, finished>>
    BY <1>4 DEF OnBufferReceived, rxVars
  <2>2. rxTask' # None => rxTask'[1] = Filled'
    BY <1>1, <2>1 DEF RxInv
  <2> QED
    BY <1>1, <1>2, <2>1, <2>2 DEF RxInv
<1> QED
  BY <1>3, <1>4

rxClock == <<rxBase, finished, runner, rxTask, lag, rxDue, held, pulls>>

LEMMA NextRxInv ==
  IrAssumption /\ RxSlack + MaxHeld + 1 < 2 * Pulls /\ IrInv /\ RxInv /\ [Next]_irVars => RxInv'
<1> SUFFICES ASSUME IrAssumption, RxSlack + MaxHeld + 1 < 2 * Pulls, IrInv, RxInv, [Next]_irVars
             PROVE  RxInv'
  OBVIOUS
<1>1. CASE Tick \/ RxTick
  BY <1>1, TickRxInv
<1>2. CASE Pull
  BY <1>2, PullRxInv DEF Pull
<1>3. CASE Receive
  <2>1. \A run : Returns(run) \subseteq BOOLEAN
    BY DEF Returns
  <2> QED
    BY <1>3, <2>1, OnBufferRxInv DEF Receive
<1>4. CASE \/ PopulateTxDmaBuffer \/ Routine \/ (\E n \in Lengths : SendPacket(n))
           \/ TrySuspend \/ TryResume \/ UNCHANGED irVars
  <2>1. UNCHANGED rxClock
    BY <1>4 DEF PopulateTxDmaBuffer, Routine, SendPacket, TrySuspend, TryResume, rxClock,
                irVars, rxVars, logVars, hwVars, pullVars
  <2> QED
    BY <2>1 DEF RxInv, Behind, Into, Filled, rxClock
<1> QED
  BY <1>1, <1>2, <1>3, <1>4 DEF Next

(* When the ticks that another task holds the main thread and those the    *)
(* tasks of IrLogic take to catch up make less than one half together (six *)
(* with the firmware's four pulls), the callback has finished with a half  *)
(* before the next one is full, and IrLogic has read all of it before it   *)
(* is filled again: though the pulls of a hold-up run on end after it. *)
THEOREM NoHalfIsOverrun == RxSlack + MaxHeld + 1 < 2 * Pulls /\ Spec => ReceiverKeepsUp
<1> SUFFICES ASSUME RxSlack + MaxHeld + 1 < 2 * Pulls PROVE Spec => ReceiverKeepsUp
  OBVIOUS
<1>1. IrAssumption
  BY IrAssumption
<1>2. Init => RxInv
  BY <1>1 DEF Init, RxInv, Behind, None, IrAssumption
<1>3. IrInv /\ RxInv /\ [Next]_irVars => RxInv'
  BY <1>1, NextRxInv
<1>4. IrInv /\ RxInv /\ [Next]_irVars =>
        [/\ rxBase' # rxBase /\ HalfDone => finished
         /\ rxTask # None /\ rxTask' # rxTask /\ rxTask[1] = (IF rxBase < Pulls THEN 0 ELSE 1)
              => 2 * (rxBase % Pulls) <= rxTask[2]
         /\ runner # None /\ runner' = None => rxTask = None]_irVars
  <2> SUFFICES ASSUME IrInv, RxInv, Next
               PROVE  /\ rxBase' # rxBase /\ HalfDone => finished
                      /\ ~(rxTask # None /\ rxTask[1] = (IF rxBase < Pulls THEN 0 ELSE 1))
                      /\ runner # None /\ runner' = None => rxTask = None
    OBVIOUS
  <2>1. rxBase' # rxBase => pulls > 0
    BY DEF Next, Tick, RxTick, SendPacket, PopulateTxDmaBuffer, Routine, Pull,
           PullRxDmaBuffer, Receive, OnBufferRecvWrapper, OnBufferReceived, TrySuspend,
           TryResume, rxVars
  <2>2. rxBase' # rxBase /\ HalfDone => finished
    BY <1>1, <2>1, CaughtUpInTime DEF RxInv, Behind
  <2>3. ~(rxTask # None /\ rxTask[1] = (IF rxBase < Pulls THEN 0 ELSE 1))
    BY DEF RxInv, Filled
  <2>4. runner # None /\ runner' = None => OnBufferRecvWrapper
    <3>1. CASE Pull
      <4>1. runner' = runner \/ runner' = <<0>> \/ runner' = <<1>>
        BY <3>1 DEF Pull, PullRxDmaBuffer
      <4> QED
        BY <4>1 DEF None
    <3>2. CASE ~Pull /\ ~OnBufferRecvWrapper
      <4>1. runner' = runner
        BY <3>2 DEF Next, Tick, RxTick, SendPacket, PopulateTxDmaBuffer, Routine, Receive,
                    OnBufferReceived, TrySuspend, TryResume, rxVars
      <4> QED
        BY <4>1
    <3> QED
      BY <3>1, <3>2
  <2>5. runner # None /\ runner' = None => rxTask = None
    BY <2>4 DEF OnBufferRecvWrapper, RunnerTurn
  <2> QED
    BY <2>2, <2>3, <2>5
<1> QED
  BY <1>1, <1>2, <1>3, <1>4, IrInvHolds, PTL DEF Spec, ReceiverKeepsUp
=============================================================================
