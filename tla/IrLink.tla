------------------------------- MODULE IrLink -------------------------------
(***************************************************************************)
(* Infrared: Service/IrService.cc (two buffers that the DMA plays and      *)
(* fills without a pause) and Logic/IrLogic.cc (the packets), on the       *)
(* suspender they share with the flash service.                            *)
(*                                                                         *)
(* A tick is the time the transmit DMA takes for one half of its buffer    *)
(* (3.37 ms), in which it sends the header or one byte.  The receive DMA   *)
(* takes two ticks for a half of its own.  The interrupts at the end of a  *)
(* half only queue a task; the tasks run to completion, one at a time, and *)
(* another task may hold the main thread for MaxHeld ticks on end.  What   *)
(* the air carries is decided when it is read: quiet or not, and what the  *)
(* samples mean to the decoder.                                            *)
(***************************************************************************)
EXTENDS Integers, Sequences

CONSTANTS
  Lengths,    (* size_ of the packets that are sent: payload and two bytes *)
  Payloads,   (* data bytes of the packets that are received               *)
  Pulls,      (* runs of PullRxDmaBuffer that fill a half of rx_buffer:    *)
              (* IR_SERVICE_RX_ON_BUFFER_SIZE / IR_BYTE_PER_RUN            *)
  MaxHeld,    (* ticks on end that no infrared task gets the main thread   *)
  RxSlack,    (* ticks until the tasks of IrLogic have caught up           *)
  MaxNoise    (* bound on the disturbances: noise, packets of others       *)

ASSUME IrAssumption ==
  /\ Lengths \subseteq Nat \ 0 .. 2 /\ Payloads \subseteq Nat \ {0}
  /\ Pulls \in Nat \ {0}
  /\ MaxHeld \in Nat /\ RxSlack \in Nat /\ MaxNoise \in Nat

Runs    == 2 * Pulls  (* runs of OnBufferReceived for a half of rx_buffer  *)
kQuiet  == 3          (* quiet pulls needed: more than 20 bytes of 8 each  *)
None    == <<>>       (* a task that is not queued                         *)
Silence == <<0, 0>>   (* a half of tx_dma_buffer that is all zero          *)

VARIABLES
  txState,    (* the top byte of tx_state                                  *)
  txCtr,      (* bytes of the packet in tx_dma_buffer, the count in state  *)
              (* "body"                                                    *)
  txLen,      (* tx_pending_buffer_len                                     *)
  half,       (* tx_dma_buffer: <<k, n>> is byte k of n, the header with   *)
              (* k = 0 and n > 0                                           *)
  playing,    (* the half the DMA sends                                    *)
  queued,     (* dma_tx_populate_task, with tx_dma_queued_: None or its    *)
              (* argument, the half to refill                              *)
  rxDue,      (* ticks until the receive DMA ends a half                   *)
  pulls,      (* how often dma_rx_pull_task is queued: nothing asks        *)
              (* whether it is queued already                              *)
  fresh,      (* the last of them was queued since the last tick           *)
  rxBase,     (* rx_buffer_base, in pulls                                  *)
  released,   (* rx_ctr_since_release is 0                                 *)
  quiet,      (* rx_quiet_cnt, in pulls up to kQuiet                       *)
  runner,     (* on_rx_callback_runner: None or its argument, a half of    *)
              (* rx_buffer                                                 *)
  rxTask,     (* OnBufferReceivedTask: None or its argument and            *)
              (* buffer_received_ctr, counted in runs                      *)
  finished,   (* rx_on_buffer_callback_finished                            *)
  packetState,(* packet_state, with the data bytes that are still to come  *)
  blockers,   (* Suspender::blockers_                                      *)
  suspended,  (* Suspender::suspended_                                     *)
  held,       (* ticks on end in which no task ran; the current one counts *)
  lag,        (* ticks since runner or rxTask became queued                *)
  noise,      (* disturbances so far                                       *)
  late,       (* auxiliary: since the transmitter was last silent a half   *)
              (* was not refilled in time                                  *)
  cut         (* auxiliary: since the last release a collision was seen    *)

txVars  == <<txState, txCtr, txLen, half, queued>>
rxVars  == <<rxBase, released, quiet, finished, runner>>
logVars == <<rxTask, packetState>>
hwVars  == <<playing, rxDue, held, lag>>
pullVars == <<pulls, fresh>>
irVars  == <<txVars, rxVars, logVars, hwVars, pullVars, blockers, suspended, noise, late, cut>>

Init ==
  /\ txState = "ready" /\ txCtr = 0 /\ txLen = 0
  /\ half = [s \in {0, 1} |-> Silence] /\ playing = 0
  /\ queued = None
  /\ rxDue \in {1, 2} /\ pulls = 0 /\ fresh = FALSE /\ rxBase = 0
  /\ released = FALSE /\ quiet = 0
  /\ runner = None /\ rxTask = None /\ finished = TRUE
  /\ packetState = <<"start", 0>>
  /\ blockers = 0 /\ suspended = FALSE
  /\ held = 0 /\ lag = 0 /\ noise = 0
  /\ late = FALSE /\ cut = FALSE

-----------------------------------------------------------------------------
(* The hardware.                                                           *)

Free == held = 0    (* the tasks get the main thread during this tick *)

Behind == runner # None \/ rxTask # None

Overdue == pulls > IF fresh THEN 1 ELSE 0   (* queued before the last tick *)

(* A tick may end when the tasks that have it to themselves ran: populate, *)
(* the pulls that were queued when it began, those of IrLogic in RxSlack.  *)
CaughtUp ==
  /\ Free => queued = None /\ ~Overdue
  /\ Behind => lag < RxSlack

(* TransmitDmaHalfCplt, TransmitDmaCplt: the half that was sent is to be   *)
(* refilled, unless the task still waits for the one before.  Now and then *)
(* another task keeps the main thread for the whole of the next tick. *)
Tick ==
  /\ rxDue > 0
  /\ CaughtUp
  /\ playing' = 1 - playing
  /\ rxDue' = rxDue - 1
  /\ queued' = IF suspended \/ queued # None THEN queued ELSE <<playing>>
  /\ late' = \/ late
             \/ queued # None
             \/ suspended /\ half # [s \in {0, 1} |-> Silence]
  /\ fresh' = FALSE
  /\ lag' = IF Behind THEN lag + 1 ELSE 0
  /\ held' \in {0} \cup {h \in {held + 1} : h <= MaxHeld /\ lag' < RxSlack}
  /\ UNCHANGED <<txState, txCtr, txLen, half, rxVars, logVars, pulls, blockers,
                 suspended, noise, cut>>

(* ReceiveDmaHalfCplt, ReceiveDmaCplt: once in two ticks.  A task that is  *)
(* queued already is queued once more: Scheduler::Queue pushes it without  *)
(* a look.  Both runs then read the half that was full last. *)
RxTick ==
  /\ rxDue = 0
  /\ rxDue' = 2
  /\ IF suspended THEN UNCHANGED pullVars ELSE pulls' = pulls + 1 /\ fresh' = TRUE
  /\ UNCHANGED <<txVars, rxVars, logVars, playing, held, lag, blockers, suspended,
                 noise, late, cut>>

-----------------------------------------------------------------------------
(* Sending.                                                                *)

(* SendBuffer refuses while another packet is handled (SendPacket looked). *)
SendBuffer(n) ==
  /\ txState = "ready"
  /\ txLen' = n
  /\ blockers' = blockers + 1
  /\ txState' = "quiet"
  /\ txCtr' = 0

(* SendPacket encodes into tx_packet, which is not sent from any more. *)
SendPacket(n) ==
  /\ Free
  /\ SendBuffer(n)
  /\ UNCHANGED <<half, queued, rxVars, logVars, hwVars, pullVars, suspended, noise,
                 late, cut>>

(* Mutant of Written: a byte is left out. *)
WrittenShort ==
  CASE txState = "header" -> <<0, txLen>>
    [] txState = "body"   -> <<txCtr + 2, txLen>>
    [] OTHER              -> Silence

(* What PopulateTxDmaBuffer writes. *)
Written ==
  CASE txState = "header" -> <<0, txLen>>
    [] txState = "body"   -> <<txCtr + 1, txLen>>
    [] OTHER              -> Silence

LastByte == txState = "body" /\ txCtr + 1 = txLen

(* With the last byte the packet is done: the next may be accepted and the *)
(* flash erased, though the DMA has two halves to send. *)
PopulateTxDmaBuffer ==
  /\ Free /\ queued # None
  /\ queued' = None
  /\ half' = [half EXCEPT ![queued[1]] = Written]
  /\ txState' = CASE LastByte -> "ready" [] txState = "header" -> "body"
                  [] OTHER -> txState
  /\ txCtr' = IF txState = "body" /\ ~LastByte THEN txCtr + 1 ELSE 0
  /\ blockers' = IF LastByte THEN blockers - 1 ELSE blockers
  /\ late' = (late /\ half' # [s \in {0, 1} |-> Silence])
  /\ cut' = (cut /\ half' # [s \in {0, 1} |-> Silence])
  /\ UNCHANGED <<txLen, rxVars, logVars, hwVars, pullVars, suspended, noise>>

(* Routine waits a random time after a collision. *)
Routine ==
  /\ Free
  /\ txState = "collision"
  /\ txState' = "quiet"
  /\ UNCHANGED <<txCtr, txLen, half, queued, rxVars, logVars, hwVars, pullVars, blockers,
                 suspended, noise, late, cut>>

-----------------------------------------------------------------------------
(* Receiving.                                                              *)

(* The samples right after the release must be zero, as the header begins. *)
Collides(clear) == released /\ ~clear

FirstHalfDone == rxBase = Pulls - 1
HalfDone      == rxBase \in {Pulls - 1, Runs - 1}

(* Mutant of Finished: the callback is finished when IrLogic has read all. *)
FinishedLater == FALSE

(* rx_on_buffer_callback_finished after the callback. *)
Finished == TRUE

(* Mutant of Release: more than the quiet counter can count. *)
ReleaseStrict(q) == FirstHalfDone /\ txState = "quiet" /\ q > kQuiet

(* The packet is let go when the air was quiet for long enough. *)
Release(q) == FirstHalfDone /\ txState = "quiet" /\ q = kQuiet

(* Mutant of PullTurn: the same priority as that of the populate task. *)
PullAnyTime == TRUE

(* Its priority is 150, that of dma_tx_populate_task 100. *)
PullTurn == queued = None

(* PullRxDmaBuffer, with `clear' if no light was seen.  The half that is   *)
(* full goes to the callback, which must have finished with the other one. *)
(* After a hold-up it runs several times on end. *)
PullRxDmaBuffer(clear) ==
  LET q == IF ~clear THEN 0 ELSE IF quiet < kQuiet THEN quiet + 1 ELSE quiet IN
  /\ Free /\ pulls > 0 /\ PullTurn
  /\ pulls' = pulls - 1 /\ fresh' = (fresh /\ pulls > 1)
  /\ quiet' = q
  /\ rxBase' = (rxBase + 1) % Runs
  /\ txState' = IF Release(q) THEN "header"
                ELSE IF Collides(clear) THEN "collision" ELSE txState
  /\ txCtr' = IF Release(q) \/ Collides(clear) THEN 0 ELSE txCtr
  /\ released' = Release(q)
  /\ cut' = (~Release(q) /\ (cut \/ Collides(clear)))
  /\ IF HalfDone
       THEN finished' = FALSE /\ runner' = <<IF FirstHalfDone THEN 0 ELSE 1>>
       ELSE UNCHANGED <<finished, runner>>
  /\ \/ clear /\ UNCHANGED noise
     \/ ~clear /\ noise < MaxNoise /\ noise' = noise + 1
  /\ UNCHANGED <<txLen, half, queued, logVars, hwVars, blockers, suspended, late>>

(* Its priority is 500, that of OnBufferReceivedTask 490. *)
RunnerTurn == rxTask = None

(* OnBufferRecvWrapper calls OnBufferReceivedEnqueueTask and says that the *)
(* callback is finished. *)
OnBufferRecvWrapper ==
  /\ Free /\ runner # None /\ RunnerTurn
  /\ runner' = None
  /\ finished' = Finished
  /\ rxTask' = <<runner[1], 0>>
  /\ UNCHANGED <<txVars, rxBase, released, quiet, packetState, hwVars, pullVars,
                 blockers, suspended, noise, late, cut>>

(* What the samples of one run, as long as a byte, can do to packet_state. *)
(* A byte takes a whole run, a header most of one; a bit that is neither 0 *)
(* nor 1 can come at once.  A packet that is given up or complete goes to  *)
(* RESET, which takes one more sample, after which a header may come.      *)
Start == <<"start", 0>>
Size  == <<"size", 0>>
Reset == <<"reset", 0>>

Run(to, header, reset) == [to     |-> to,       (* packet_state at the end  *)
                           header |-> header,   (* a header was found       *)
                           reset  |-> reset]    (* RESET was left           *)

AfterReset == {Run(Start, FALSE, TRUE), Run(Size, TRUE, TRUE), Run(Reset, TRUE, TRUE)}
Lost       == {Run(Reset, FALSE, FALSE)} \cup AfterReset

NextData == IF packetState[2] = 1 THEN <<"chksum", 0>> ELSE <<"data", packetState[2] - 1>>

Samples ==
  CASE packetState[1] = "start"  -> {Run(Start, FALSE, FALSE), Run(Size, TRUE, FALSE),
                                     Run(Reset, TRUE, FALSE)}
    [] packetState[1] = "size"   -> Lost \cup {Run(<<"data", n>>, FALSE, FALSE) : n \in Payloads}
    [] packetState[1] = "data"   -> Lost \cup {Run(NextData, FALSE, FALSE)}
    [] packetState[1] = "chksum" -> Lost
    [] packetState[1] = "reset"  -> AfterReset

(* Mutant of Balance: RESET does not give the blocker back. *)
BalanceKeeps(run) == IF run.header THEN 1 ELSE 0

(* IncBlocker at a header, DecBlocker when RESET is left. *)
Balance(run) == (IF run.header THEN 1 ELSE 0) - (IF run.reset THEN 1 ELSE 0)

(* It queues itself for the rest of the half, but not after a bad size bit *)
(* (`return'): the rest of the half is not read. *)
MoreToDo(returns) == rxTask[2] + 1 < Runs /\ ~returns

(* Whether the run ends at a bit of the size that is neither 0 nor 1.  A   *)
(* size that cannot be leads to RESET as well, at the end of a run.        *)
Returns(run) ==
  IF run.to # Reset THEN {FALSE}
  ELSE IF run.header THEN {TRUE}
  ELSE IF packetState[1] = "size" THEN BOOLEAN ELSE {FALSE}

OnBufferReceived(run, returns) ==
  /\ Free /\ rxTask # None
  /\ packetState' = run.to
  /\ blockers' = blockers + Balance(run)
  /\ rxTask' = IF MoreToDo(returns) THEN <<rxTask[1], rxTask[2] + 1>> ELSE None
  /\ IF run.header THEN noise < MaxNoise /\ noise' = noise + 1 ELSE UNCHANGED noise
  /\ UNCHANGED <<txVars, rxVars, hwVars, pullVars, suspended, late, cut>>

-----------------------------------------------------------------------------
(* FlashService::Routine, which erases while everything is suspended.      *)
TrySuspend ==
  /\ Free
  /\ blockers = 0 /\ ~suspended
  /\ suspended' = TRUE
  /\ UNCHANGED <<txVars, rxVars, logVars, hwVars, pullVars, blockers, noise, late, cut>>

TryResume ==
  /\ Free
  /\ suspended
  /\ suspended' = FALSE
  /\ UNCHANGED <<txVars, rxVars, logVars, hwVars, pullVars, blockers, noise, late, cut>>

Receive ==
  \/ OnBufferRecvWrapper
  \/ \E run \in Samples : \E returns \in Returns(run) : OnBufferReceived(run, returns)

Pull == \E clear \in BOOLEAN : PullRxDmaBuffer(clear)

Next ==
  \/ Tick \/ RxTick
  \/ \E n \in Lengths : SendPacket(n)
  \/ PopulateTxDmaBuffer \/ Routine
  \/ Pull \/ Receive
  \/ TrySuspend \/ TryResume

Spec == Init /\ [][Next]_irVars

(* The DMA never stops, and a tick ends only when the tasks caught up: so  *)
(* time passes.  The random wait ends (Routine is periodic) and so does    *)
(* the erasing of a page, though other tasks may take the main thread time *)
(* and again. *)
Proceed == Tick \/ RxTick \/ PopulateTxDmaBuffer \/ Pull \/ Receive

FairSpec ==
  /\ Spec
  /\ WF_irVars(Proceed)
  /\ SF_irVars(Routine) /\ SF_irVars(TryResume)

-----------------------------------------------------------------------------
(* The types of the variables. *)
IrTypeOK ==
  /\ txState \in {"ready", "quiet", "collision", "header", "body"}
  /\ txCtr \in Nat /\ txLen \in Lengths \cup {0}
  /\ half \in [{0, 1} -> Nat \X Nat]
  /\ playing \in {0, 1} /\ queued \in {None, <<0>>, <<1>>}
  /\ rxDue \in 0 .. 2 /\ pulls \in Nat /\ fresh \in BOOLEAN
  /\ rxBase \in 0 .. Runs - 1 /\ released \in BOOLEAN /\ quiet \in 0 .. kQuiet
  /\ runner \in {None, <<0>>, <<1>>} /\ finished \in BOOLEAN
  /\ rxTask \in {None} \cup ({0, 1} \X (0 .. Runs - 1))
  /\ packetState \in ({"start", "size", "chksum", "reset"} \X {0})
                    \cup ({"data"} \X (Nat \ {0}))
  /\ blockers \in Nat /\ suspended \in BOOLEAN
  /\ held \in Nat /\ lag \in Nat /\ noise \in Nat
  /\ late \in BOOLEAN /\ cut \in BOOLEAN

(* The transmitter holds a blocker from SendBuffer until the last byte was *)
(* written and the receiver one from a header until after RESET, whatever  *)
(* collides, is cut short or decodes to nonsense: one too few and the      *)
(* flash is erased in the middle of a packet, one too many and never. In   *)
(* particular a collision is never seen when the packet is out already.    *)
BlockersBalance ==
  blockers =   (IF txState = "ready" THEN 0 ELSE 1)
             + (IF packetState = Start THEN 0 ELSE 1)

(* What may be on the air after half a: the next byte of the packet, a     *)
(* header or silence when it is over. *)
Follows(a, b) ==
  IF b[2] = a[2] /\ b[1] = a[1] + 1 THEN TRUE
  ELSE b[1] = 0 /\ a[1] = a[2]

(* Unless a half was not refilled in time or the flash is being erased,    *)
(* the DMA sends the header and every byte of a packet once and in order;  *)
(* only a collision cuts it short. *)
AirInOrder ==
  [][playing' # playing /\ ~late' =>
       \/ Follows(half[playing], half[playing'])
       \/ cut /\ half[playing'] = Silence]_irVars

(* A hold-up of the main thread leaves several pulls that then run on end. *)
(* Even so, with RxSlack ticks to catch up, the callback is finished when  *)
(* the next half is full (asserted in PullRxDmaBuffer) and IrLogic, which  *)
(* goes on reading after the callback, reads nothing that is being filled  *)
(* again and leaves no half before it has read all of it. *)
ReceiverKeepsUp ==
  [][/\ rxBase' # rxBase /\ HalfDone => finished
     /\ rxTask # None /\ rxTask' # rxTask /\ rxTask[1] = (IF rxBase < Pulls THEN 0 ELSE 1)
          => 2 * (rxBase % Pulls) <= rxTask[2]
     /\ runner # None /\ runner' = None => rxTask = None]_irVars

(* What makes BlockersBalance inductive.  A packet that was just let go is *)
(* on its way as long as the next pull has not looked for a collision: the *)
(* header and two bytes at most can be written before, and every packet    *)
(* has three. *)
Populated == (IF txState = "header" THEN 0 ELSE txCtr + 1)
             + (IF queued = None THEN 0 ELSE 1)

LookedInTime ==
  released =>
    /\ txState \in {"header", "body"}
    /\ Populated <= IF pulls = 0 THEN 2 - rxDue ELSE IF Overdue THEN 3 ELSE 2

(* While another task has the main thread the populate task stays queued. *)
HeldInv == held > 0 /\ ~suspended => queued # None

(* A packet that is let go while the flash is erased (SendPacket does not  *)
(* look) waits for the end of it. *)
ErasingInv == suspended /\ released => Populated = 0

(* A pull that is fresh was queued by the last interrupt. *)
FreshInv == fresh => pulls > 0 /\ rxDue = 2

IrInv ==
  /\ IrTypeOK
  /\ FreshInv
  /\ BlockersBalance
  /\ LookedInTime
  /\ HeldInv
  /\ ErasingInv
  /\ txState # "ready" => txLen \in Lengths

(* When the air gets quiet every packet that was accepted is sent, and the *)
(* flash gets its turn. *)
PacketGoesOut == txState # "ready" ~> txState = "ready"
FlashGetsIn   == []<>(blockers = 0)
=============================================================================
