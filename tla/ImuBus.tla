------------------------------- MODULE ImuBus -------------------------------
(***************************************************************************)
(* The motion sensor: Service/ImuService.cc (a queue of register reads and *)
(* one of writes over I2C, with the resets when the bus does not answer)   *)
(* and Logic/ImuLogic.cc (initialisation, self-test and counting steps),   *)
(* as built for the badge of 2025 (V2_2), which can switch the sensor off. *)
(*                                                                         *)
(* Both have a periodic routine, of 100 and 200 ms; a transfer takes less  *)
(* than one.  The interrupt at the end of a transfer queues I2CCallback,   *)
(* which the routines do not overtake but for the one that was running     *)
(* when the interrupt came.  The error interrupt resets everything itself; *)
(* it comes during a transfer only, when no task uses what it changes.     *)
(* Abstracted: the configuration written, the values of the self-test, the *)
(* steps made up by DUMMY_STEP.                                            *)
(***************************************************************************)
EXTENDS Naturals, Sequences

CONSTANTS
  B,            (* values of a byte of the step counter (256)              *)
  MaxIncrement, (* SHAKING_THRESHOLD * 2                                   *)
  QueueSize,    (* QUEUE_SIZE (10)                                         *)
  Axes,         (* registers read for one measurement of a self-test (6)   *)
  Measures,     (* measurements of each half of a self-test (6)            *)
  ServiceStuck, (* runs of the service's routine until a transfer is given *)
                (* up (TIMEOUT / 100 ms)                                   *)
  BusyLimit,    (* busy flags in a row until a reset (4)                   *)
  LogicStuck,   (* runs of the logic's routine in one state until a reset  *)
  MaxTurns,     (* runs of the service's routine between two of the        *)
                (* logic's: at least one, at most MaxTurns                 *)
  MaxEvents,    (* bound: steps taken, faults of bus and sensor and        *)
                (* self-tests begun, together                              *)
  MaxPiled      (* bound: self-tests begun before the queues were empty    *)
                (* when one began                                          *)

ASSUME ImuAssumption ==
  /\ B \in Nat \ {0} /\ MaxIncrement \in Nat
  /\ Axes \in Nat \ {0, 1} /\ Measures \in Nat \ {0}
  /\ {ServiceStuck, BusyLimit, LogicStuck, MaxTurns} \subseteq Nat \ {0}
  /\ {QueueSize, MaxEvents} \subseteq Nat /\ MaxPiled \in Nat

VARIABLES
  state,      (* ImuService::state                                         *)
  rxQueue,    (* _rx_queue: the register and the place in _buf             *)
  txQueue,    (* _tx_queue: the register                                   *)
  rxDone,     (* _is_rx_done                                               *)
  txDone,     (* _is_tx_done                                               *)
  waited,     (* runs of the routine since the transfer began              *)
  busyCnt,    (* i2c_busy_cnt                                              *)
  registered, (* the HAL's callbacks are ours                              *)
  transfer,   (* "none", "going" or "hung"                                 *)
  task,       (* interrupt_task: "no", "queued" or, when a routine has run *)
              (* since, "overdue"                                          *)
  logic,      (* ImuLogic::_state                                          *)
  initState,  (* _init_state                                               *)
  testState,  (* _self_test_state                                          *)
  count,      (* _count                                                    *)
  buf,        (* _buf: the register read into each place, and its value    *)
  lastReg,    (* _last_step_reg                                            *)
  step,       (* _step                                                     *)
  lastState, stuck,   (* last_state and count of ImuLogic::Routine         *)
  turns,      (* runs of the service's routine since the last of the       *)
              (* logic's                                                   *)
  sensor,     (* the step counter of the sensor                            *)
  walked,     (* auxiliary: steps taken                                    *)
  torn,       (* auxiliary: the counter carried between the reads of its   *)
              (* two bytes                                                 *)
  owed,       (* auxiliary: a read was queued since the last OnRxDone      *)
  faults, tests,
  piled       (* auxiliary: self-tests begun since one that found both     *)
              (* queues empty, that one included                           *)

serviceVars == <<state, rxQueue, txQueue, rxDone, txDone, waited, busyCnt>>
halVars     == <<registered, transfer>>
logicVars   == <<logic, initState, testState, count, lastReg, step>>
loopVars    == <<lastState, stuck>>
bounds      == <<walked, faults, tests, piled>>
imuVars     == <<serviceVars, halVars, task, logicVars, buf, loopVars, turns, sensor,
                 torn, owed, bounds>>

Tests == {"st_gyro", "st_acc"}
Whole == B * B      (* values of the step counter *)

Init ==
  /\ state = "init" /\ rxQueue = <<>> /\ txQueue = <<>>
  /\ rxDone = FALSE /\ txDone = FALSE /\ waited = 0 /\ busyCnt = 0
  /\ registered = FALSE /\ transfer = "none" /\ task = "no"
  /\ logic = "init" /\ initState = "check_id"
  /\ testState = "sw_reset" /\ count = 0
  /\ buf = [i \in 0 .. Axes - 1 |-> [reg |-> "none", val |-> 0]]
  /\ lastReg = 0 /\ step = 0
  /\ lastState = "init" /\ stuck = 0
  /\ turns = 0 /\ sensor = 0 /\ walked = 0
  /\ torn = FALSE /\ owed = FALSE /\ faults = 0 /\ tests = 0 /\ piled = 0

-----------------------------------------------------------------------------
(* What a reset does.                                                      *)

(* HAL_I2C_Init ends the transfer and forgets the callbacks. *)
ResetI2C == state' = "init" /\ transfer' = "none" /\ registered' = FALSE

(* ImuLogic::Reset.  The self-test stays where it is. *)
ResetLogic == logic' = "init" /\ initState' = "check_id"

ResetAll ==
  /\ ResetI2C /\ ResetLogic
  /\ UNCHANGED <<rxQueue, txQueue, rxDone, txDone, testState, count, lastReg, step>>

EventLeft == walked + faults + tests < MaxEvents

Fault == EventLeft /\ faults' = faults + 1

(* Between the interrupt and its task comes one routine at most. *)
Turn == task # "overdue" /\ task' = IF task = "queued" THEN "overdue" ELSE task

-----------------------------------------------------------------------------
(* ImuService::Routine.  A transfer is over before the next run unless it  *)
(* hangs.                                                                  *)

Prepare ==
  /\ state = "init"
  /\ rxDone' = TRUE /\ txDone' = TRUE /\ rxQueue' = <<>> /\ txQueue' = <<>>
  /\ owed' = FALSE
  /\ registered' = TRUE
  /\ state' = "poweroff"
  /\ sensor' = 0
  /\ UNCHANGED <<waited, busyCnt, transfer, logicVars, faults>>

PowerOn ==
  /\ state \in {"poweroff", "poweron"}
  /\ state' = IF state = "poweroff" THEN "poweron" ELSE "idle"
  /\ UNCHANGED <<rxQueue, txQueue, rxDone, txDone, waited, busyCnt, halVars, logicVars,
                 owed, sensor, faults>>

TooLong == waited + 1 >= ServiceStuck

Await ==
  /\ state \in {"reading", "writing"}
  /\ IF TooLong THEN ResetAll /\ UNCHANGED waited
     ELSE waited' = waited + 1
          /\ UNCHANGED <<state, rxQueue, txQueue, rxDone, txDone, halVars, logicVars>>
  /\ UNCHANGED <<busyCnt, owed, sensor, faults>>

Queued == rxQueue # <<>> \/ txQueue # <<>>

(* Writes go before reads. *)
Begin ==
  /\ state = "idle" /\ Queued
  /\ busyCnt' = 0
  /\ \/ /\ state' = IF txQueue # <<>> THEN "writing" ELSE "reading"
        /\ transfer' = "going" /\ waited' = 0
        /\ UNCHANGED <<rxQueue, txQueue, rxDone, txDone, registered, logicVars, faults>>
     \/ /\ Fault      (* HAL_I2C_Mem_*_IT refuses *)
        /\ ResetAll
        /\ UNCHANGED waited
  /\ UNCHANGED <<owed, sensor>>

BusIsBusy ==
  /\ state = "idle" /\ Queued
  /\ Fault
  /\ IF busyCnt + 1 >= BusyLimit THEN ResetAll /\ busyCnt' = 0
     ELSE busyCnt' = busyCnt + 1
          /\ UNCHANGED <<state, rxQueue, txQueue, rxDone, txDone, halVars, logicVars>>
  /\ UNCHANGED <<waited, owed, sensor>>

NothingQueued ==
  /\ state = "idle" /\ ~Queued
  /\ UNCHANGED <<serviceVars, halVars, logicVars, owed, sensor, faults>>

ServiceRoutine ==
  /\ Turn
  /\ turns < MaxTurns /\ turns' = turns + 1
  /\ transfer # "going"
  /\ Prepare \/ PowerOn \/ Await \/ Begin \/ BusIsBusy \/ NothingQueued
  /\ UNCHANGED <<buf, loopVars, torn, walked, tests, piled>>

-----------------------------------------------------------------------------
(* The bus and the sensor.                                                 *)

(* The byte that is read, as far as somebody looks at it: the identity is  *)
(* Lsm or another; bit 0 of ctrl3 says that a reset goes on, that of       *)
(* status that data is ready.  Of the step counter one byte will be used.  *)
Lsm == 2
Answers(reg) == CASE reg = "id" -> {0, Lsm} [] reg \in {"ctrl3", "status"} -> {0, 1}
                  [] reg = "out" -> {0} [] OTHER -> {sensor}
Prompt(reg)  == CASE reg = "id" -> Lsm [] reg = "status" -> 1 [] OTHER -> 0

(* The end of a transfer.  Another identity, a reset that takes time and   *)
(* data that is not ready yet are faults.                                  *)
Complete ==
  /\ transfer # "none"
  /\ transfer' = "none"
  /\ task' = IF registered THEN "queued" ELSE task
  /\ IF state = "reading"
     THEN \E val \in Answers(Head(rxQueue)[1]) :
            /\ buf' = [buf EXCEPT ![Head(rxQueue)[2]] = [reg |-> Head(rxQueue)[1], val |-> val]]
            /\ IF val # Prompt(Head(rxQueue)[1]) /\ Head(rxQueue)[1] \in {"id", "ctrl3", "status"}
               THEN Fault ELSE UNCHANGED faults
            /\ UNCHANGED sensor
     ELSE /\ sensor' = IF Head(txQueue) \in {"reset_steps", "sw_reset"} THEN 0 ELSE sensor
          /\ UNCHANGED <<buf, faults>>
  /\ UNCHANGED <<serviceVars, registered, logicVars, loopVars, turns, torn, owed, walked, tests, piled>>

(* I2CErrorCallback, or the HAL's own that does nothing. *)
Error ==
  /\ transfer # "none"
  /\ Fault
  /\ IF registered THEN ResetAll
     ELSE transfer' = "none" /\ UNCHANGED <<state, rxQueue, txQueue, rxDone, txDone, registered, logicVars>>
  /\ UNCHANGED <<waited, busyCnt, task, buf, loopVars, turns, sensor, torn, owed, walked, tests, piled>>

Hang ==
  /\ transfer = "going"
  /\ Fault
  /\ transfer' = "hung"
  /\ UNCHANGED <<serviceVars, registered, task, logicVars, buf, loopVars, turns, sensor,
                 torn, owed, walked, tests, piled>>

Walk ==
  /\ EventLeft
  /\ walked' = walked + 1
  /\ sensor' = (sensor + 1) % Whole
  /\ UNCHANGED <<serviceVars, halVars, task, logicVars, buf, loopVars, turns, torn, owed,
                 faults, tests, piled>>

-----------------------------------------------------------------------------
(* ImuLogic::Routine.                                                      *)

(* QueueReadReg and QueueWriteReg. *)
Read(reads) == rxQueue' = rxQueue \o reads /\ rxDone' = FALSE /\ owed' = TRUE
Write(regs) == txQueue' = txQueue \o regs /\ txDone' = FALSE
NoRead      == UNCHANGED <<rxQueue, rxDone, owed>>
NoWrite     == UNCHANGED <<txQueue, txDone>>

Outs == [i \in 1 .. Axes |-> <<"out", i - 1>>]

(* Mutant of LastAfter: _last_step_reg survives. *)
LastAfterKept == lastReg

LastAfter == IF initState = "reset_steps" THEN 0 ELSE lastReg

InitStep ==
  /\ UNCHANGED <<logic, testState, count>>
  /\ lastReg' = LastAfter
  /\ \/ /\ initState = "check_id" /\ initState' = "wait_id"
        /\ Read(<< <<"id", 0>> >>) /\ NoWrite
     \/ /\ initState = "sw_reset" /\ initState' = "wait_sw_reset"
        /\ Read(<< <<"ctrl3", 0>> >>) /\ Write(<<"sw_reset">>)
     \/ /\ initState = "reset_steps" /\ initState' = "wait_reset_steps"
        /\ NoRead /\ Write(<<"reset_steps", "config">>)
     \/ /\ initState = "configure" /\ initState' = "wait_configure"
        /\ NoRead /\ Write(<<"config", "config">>)
     \/ /\ initState \notin {"check_id", "sw_reset", "reset_steps", "configure"}
        /\ NoRead /\ NoWrite /\ UNCHANGED initState

(* The test of the gyroscope, when passed, is followed by the other one.   *)
(* The wait after a configuration is over at the second run at the latest. *)
TestStep ==
  /\ UNCHANGED <<initState, lastReg>>
  /\ \/ /\ testState = "sw_reset" /\ testState' = "wait_sw_reset"
        /\ Read(<< <<"ctrl3", 0>> >>) /\ Write(<<"sw_reset">>)
        /\ UNCHANGED <<logic, count>>
     \/ /\ testState = "configure" /\ testState' = "wait_configure"
        /\ NoRead /\ Write(<<"config", "config">>)
        /\ UNCHANGED <<logic, count>>
     \/ /\ testState = "wait" /\ testState' = "wait_more"
        /\ NoRead /\ NoWrite
        /\ UNCHANGED <<logic, count>>
     \/ /\ testState \in {"wait", "wait_more", "check_da"} /\ testState' = "wait_da"
        /\ Read(<< <<"status", 0>> >>) /\ NoWrite
        /\ UNCHANGED <<logic, count>>
     \/ /\ testState = "read_out" /\ testState' = "wait_read_out"
        /\ Read(Outs) /\ NoWrite
        /\ UNCHANGED <<logic, count>>
     \/ /\ testState = "enable"
        /\ testState' = IF logic = "st_gyro" THEN "wait" ELSE "wait_enable"
        /\ NoRead /\ Write(<<"config">>)
        /\ UNCHANGED <<logic, count>>
     \/ /\ testState = "verify"
        /\ NoRead /\ Write(<<"config", "config">>)
        /\ \/ logic' = "idle" /\ testState' = "done" /\ UNCHANGED count
           \/ logic = "st_gyro" /\ logic' = "st_acc" /\ testState' = "sw_reset" /\ count' = 0
     \/ /\ testState \notin {"sw_reset", "configure", "wait", "wait_more", "check_da",
                             "read_out", "enable", "verify"}
        /\ NoRead /\ NoWrite
        /\ UNCHANGED <<logic, testState, count>>

(* Mutant of GetStep: the counter is asked for at every run. *)
GetStepAgain ==
  /\ logic' = logic
  /\ Read(<< <<"step_l", 0>>, <<"step_h", 1>> >>) /\ NoWrite
  /\ UNCHANGED <<initState, testState, count, lastReg>>

GetStep ==
  /\ logic' = "wait_step"
  /\ Read(<< <<"step_l", 0>>, <<"step_h", 1>> >>) /\ NoWrite
  /\ UNCHANGED <<initState, testState, count, lastReg>>

(* Mutant of Runs: the runs in one state are not counted. *)
RunsUncounted == 0

Runs == IF lastState # logic THEN 0 ELSE stuck + 1

TooOften == Runs >= LogicStuck

LogicRoutine ==
  /\ Turn
  /\ turns > 0 /\ turns' = 0
  /\ IF logic = "idle" THEN UNCHANGED <<serviceVars, halVars, logicVars, loopVars, owed>>
     ELSE /\ lastState' = logic
          /\ \/ /\ TooOften
                /\ stuck' = 0
                /\ ResetAll /\ UNCHANGED <<waited, busyCnt, owed>>
             \/ /\ ~TooOften
                /\ stuck' = Runs
                /\ IF state # "idle" \/ logic = "wait_step"
                   THEN UNCHANGED <<serviceVars, halVars, logicVars, owed>>
                   ELSE /\ \/ logic = "init" /\ InitStep
                           \/ logic \in Tests /\ TestStep
                           \/ logic = "get_step" /\ GetStep
                        /\ UNCHANGED <<state, waited, busyCnt, halVars, step>>
  /\ UNCHANGED <<buf, sensor, torn, bounds>>

(* GyroSelfTest, from a button of the hardware test. *)
GyroSelfTest ==
  /\ EventLeft /\ tests' = tests + 1
  /\ piled' = IF rxQueue = <<>> /\ txQueue = <<>> THEN 1 ELSE piled + 1
  /\ piled' <= MaxPiled
  /\ logic' = "st_gyro" /\ testState' = "sw_reset" /\ count' = 0
  /\ UNCHANGED <<serviceVars, halVars, task, initState, lastReg, step, buf, loopVars, turns,
                 sensor, torn, owed, walked, faults>>

-----------------------------------------------------------------------------
(* The end of a transfer in the main thread.                               *)

Bit0 == buf[0].val % 2      (* sw_reset of ctrl3, xlda or gda of status *)

LogicNow == IF initState = "wait_configure" THEN "idle" ELSE logic

(* The three parts of OnRxDone, each on the state it tests: what it makes  *)
(* of it, and what it reads again.                                         *)
InitNext == CASE initState = "wait_id" -> "sw_reset"
              [] initState = "wait_sw_reset" /\ Bit0 = 0 -> "reset_steps"
              [] OTHER -> initState

InitAgain == IF initState = "wait_sw_reset" /\ Bit0 = 1 THEN << <<"ctrl3", 0>> >> ELSE <<>>

TestNext == CASE testState = "wait_sw_reset" /\ Bit0 = 0 -> "configure"
              [] testState = "wait_da" /\ Bit0 = 1 /\ LogicNow \in Tests -> "read_out"
              [] testState = "wait_read_out" /\ count + 1 = Measures -> "enable"
              [] testState = "wait_read_out" /\ count + 1 = 2 * Measures -> "verify"
              [] testState = "wait_read_out" /\ count + 1 \notin {Measures, 2 * Measures} -> "check_da"
              [] OTHER -> testState

TestAgain == CASE testState = "wait_sw_reset" /\ Bit0 = 1 -> << <<"ctrl3", 0>> >>
               [] testState = "wait_da" /\ TestNext = "wait_da" -> << <<"status", 0>> >>
               [] OTHER -> <<>>

(* The counter, of whose two bytes one was read after the other, wraps. *)
Counter == (buf[0].val % B) + B * (buf[1].val \div B)

Least(m, n)  == IF m < n THEN m ELSE n
Increment    == Least((Counter + Whole - lastReg) % Whole, MaxIncrement)

(* A wrong identity resets all, but I2CCallback goes on to State::IDLE: the *)
(* sensor is not switched off and the HAL's callbacks stay forgotten.       *)
OnRxDone(rest) ==
  /\ owed' = (InitAgain \o TestAgain # <<>>)
  /\ IF initState = "wait_id" /\ buf[0].val # Lsm
     THEN /\ ResetLogic /\ registered' = FALSE
          /\ rxQueue' = rest
          /\ UNCHANGED <<testState, count, lastReg, step, torn>>
     ELSE /\ initState' = InitNext /\ testState' = TestNext
          /\ count' = IF testState = "wait_read_out" THEN count + 1 ELSE count
          /\ rxQueue' = rest \o InitAgain \o TestAgain
          /\ IF LogicNow = "wait_step"
             THEN /\ logic' = "get_step"
                  /\ step' = step + Increment
                  /\ lastReg' = Counter
                  /\ torn' = (torn \/ buf[0].val \div B # buf[1].val \div B)
             ELSE /\ logic' = LogicNow
                  /\ UNCHANGED <<lastReg, step, torn>>
          /\ UNCHANGED registered

OnTxDone ==
  /\ CASE initState = "wait_reset_steps" ->
            initState' = "configure" /\ UNCHANGED <<logic, testState>>
       [] initState = "wait_configure" ->
            initState' = "done" /\ logic' = "get_step" /\ UNCHANGED testState
       [] OTHER ->
            /\ testState' = IF testState \in {"wait_configure", "wait_enable"} THEN "wait" ELSE testState
            /\ UNCHANGED <<logic, initState>>
  /\ UNCHANGED <<count, lastReg, step>>

(* Mutant of AllRead: after every read. *)
AllReadEach(rest) == ~rxDone

AllRead(rest) == rest = <<>> /\ ~rxDone

I2CCallback ==
  /\ task # "no" /\ task' = "no"
  /\ state' = "idle"
  /\ \/ /\ state = "reading"
        /\ IF AllRead(Tail(rxQueue)) THEN OnRxDone(Tail(rxQueue)) /\ rxDone' = TRUE
           ELSE rxQueue' = Tail(rxQueue)
                /\ UNCHANGED <<rxDone, registered, logicVars, torn, owed>>
        /\ UNCHANGED <<txQueue, txDone>>
     \/ /\ state = "writing"
        /\ txQueue' = Tail(txQueue)
        /\ IF Tail(txQueue) = <<>> /\ ~txDone THEN OnTxDone /\ txDone' = TRUE
           ELSE UNCHANGED <<txDone, logicVars>>
        /\ UNCHANGED <<rxQueue, rxDone, registered, torn, owed>>
     \/ /\ state \notin {"reading", "writing"}
        /\ UNCHANGED <<rxQueue, txQueue, rxDone, txDone, registered, logicVars, torn, owed>>
  /\ UNCHANGED <<waited, busyCnt, transfer, buf, loopVars, turns, sensor, bounds>>

Next ==
  \/ ServiceRoutine \/ LogicRoutine \/ GyroSelfTest \/ I2CCallback
  \/ Complete \/ Error \/ Hang \/ Walk

Spec == Init /\ [][Next]_imuVars

(* The tasks run, and a transfer that does not hang ends. *)
FairSpec ==
  /\ Spec
  /\ WF_imuVars(ServiceRoutine) /\ WF_imuVars(LogicRoutine) /\ WF_imuVars(I2CCallback)
  /\ WF_imuVars(transfer = "going" /\ Complete)

-----------------------------------------------------------------------------
(* The types of the variables. *)
Registers == {"id", "ctrl3", "status", "out", "step_l", "step_h"}
ImuTypes ==
  /\ state \in {"init", "poweroff", "poweron", "idle", "reading", "writing"}
  /\ rxQueue \in Seq(Registers \X (0 .. Axes - 1))
  /\ txQueue \in Seq({"sw_reset", "reset_steps", "config"})
  /\ rxDone \in BOOLEAN /\ txDone \in BOOLEAN
  /\ waited \in 0 .. ServiceStuck /\ busyCnt \in 0 .. BusyLimit
  /\ registered \in BOOLEAN /\ transfer \in {"none", "going", "hung"}
  /\ task \in {"no", "queued", "overdue"}
  /\ logic \in {"init", "idle", "get_step", "wait_step"} \cup Tests
  /\ initState \in {"check_id", "wait_id", "sw_reset", "wait_sw_reset", "reset_steps",
                    "wait_reset_steps", "configure", "wait_configure", "done"}
  /\ testState \in {"sw_reset", "wait_sw_reset", "configure", "wait_configure", "wait",
                    "wait_more", "check_da", "wait_da", "read_out", "wait_read_out",
                    "enable", "wait_enable", "verify", "done"}
  /\ count \in 0 .. 2 * Measures
  /\ buf \in [0 .. Axes - 1 -> [reg : Registers \cup {"none"}, val : Nat]]
  /\ lastReg \in 0 .. Whole - 1 /\ step \in Nat
  /\ lastState \in {"init", "get_step", "wait_step"} \cup Tests
  /\ stuck \in 0 .. LogicStuck /\ turns \in 0 .. MaxTurns
  /\ sensor \in 0 .. Whole - 1 /\ {walked, faults, tests} \subseteq 0 .. MaxEvents
  /\ piled \in 0 .. MaxPiled
  /\ torn \in BOOLEAN /\ owed \in BOOLEAN

(* Beside the types: the queues, which keep one place free, never are full *)
(* when something is queued (which is asserted): a self-test begun again   *)
(* and again, or after a reset, finds the reads of the last one still in   *)
(* them.                                                                   *)
ImuTypeOK == ImuTypes /\ Len(rxQueue) < QueueSize /\ Len(txQueue) < QueueSize

(* The badge counts no step that was not taken, whatever resets come       *)
(* between, which set the counter of the sensor and its last value back at *)
(* different times: unless the counter carries between the reads of its    *)
(* two bytes.                                                              *)
StepsAreReal == step <= walked \/ torn

(* What OnRxDone takes for an answer is one: _buf holds the registers that *)
(* the state it leaves has asked for, though reads of an earlier state, or *)
(* of a self-test that a reset ended, may be queued before them.           *)
Holds(i, reg) == buf[i].reg = reg
AnswersFit ==
  [][/\ logic = "init" =>
          /\ initState = "wait_id" /\ initState' = "sw_reset" => Holds(0, "id")
          /\ initState = "wait_sw_reset" /\ initState' = "reset_steps" => Holds(0, "ctrl3")
     /\ logic = "wait_step" /\ logic' = "get_step" => Holds(0, "step_l") /\ Holds(1, "step_h")
     /\ logic \in Tests /\ logic' = logic =>
          /\ testState = "wait_sw_reset" /\ testState' = "configure" => Holds(0, "ctrl3")
          /\ testState = "wait_da" /\ testState' = "read_out" => Holds(0, "status")
          /\ testState = "wait_read_out" /\ testState' # "wait_read_out" =>
               \/ testState' = "sw_reset"
               \/ \A i \in 0 .. Axes - 1 : Holds(i, "out")]_imuVars

(* However the bus and the sensor fail, the badge goes on counting steps   *)
(* afterwards (unless a self-test has ended, which stops it): a transfer   *)
(* that hangs, an answer that never gets to OnRxDone and callbacks that    *)
(* the HAL has forgotten end in a time-out, and no time-out comes for ever *)
(* before the sensor is initialised again.                                 *)
StepsKeepComing ==
  /\ []<>(logic \in {"get_step", "idle"})
  /\ []<>(logic \in {"wait_step", "idle"})

(* What ImuService.h says of the callback: it is called when all reads are *)
(* done. *)
CallbackWhenDone == state = "idle" /\ rxQueue = <<>> => ~owed

(* What ImuLogic.h says of GetStep: the count of steps.                    *)
CountsSteps == step <= walked

=============================================================================
