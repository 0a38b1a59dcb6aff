---------------------------- MODULE ImuBusProofs ----------------------------
(***************************************************************************)
(* Why the badge counts no step that was not taken, and why what it takes  *)
(* for the answer of the sensor is the answer.                             *)
(***************************************************************************)
EXTENDS ImuBus, SequenceTheorems, TLAPS

(* How far the counter b of the sensor is ahead of a: it wraps. *)
Ahead(a, b) == IF a <= b THEN b - a ELSE b + Whole - a

LEMMA WholeIsPositive == Whole \in Nat \ {0} /\ B \in Nat \ {0}
<1>1. B \in Nat \ {0}
  BY ImuAssumption
<1>2. \A b \in Nat \ {0} : b * b \in Nat \ {0}
  OBVIOUS
<1> QED
  BY <1>1, <1>2 DEF Whole

(* Two bytes with the same high part are the counter itself. *)
LEMMA CounterIs ==
  ASSUME NEW v \in 0 .. Whole - 1, NEW w \in 0 .. Whole - 1
  PROVE  /\ (v % B) + B * (w \div B) \in 0 .. Whole - 1
         /\ v \div B = w \div B => (v % B) + B * (w \div B) = v
<1>1. B \in Nat \ {0} /\ Whole = B * B
  BY WholeIsPositive DEF Whole
<1>2. v % B \in 0 .. B - 1 /\ v = B * (v \div B) + (v % B) /\ v \div B \in Int
  BY <1>1
<1>3. w % B \in 0 .. B - 1 /\ w = B * (w \div B) + (w % B) /\ w \div B \in Int
  BY <1>1
<1>4. \A q \in Int, r \in 0 .. B - 1 :
        B * q + r \in 0 .. B * B - 1 => q \in 0 .. B - 1
  BY <1>1
<1>5. w \div B \in 0 .. B - 1
  BY <1>1, <1>3, <1>4
<1>6. \A q \in 0 .. B - 1, r \in 0 .. B - 1 : r + B * q \in 0 .. B * B - 1
  BY <1>1
<1> QED
  BY <1>1, <1>2, <1>5, <1>6

LEMMA IncrementIs ==
  ASSUME NEW v \in 0 .. Whole - 1, NEW l \in 0 .. Whole - 1
  PROVE  (v + Whole - l) % Whole = Ahead(l, v)
<1>1. \A w \in Nat \ {0} : \A x \in 0 .. 2 * w - 1 : x % w = IF x < w THEN x ELSE x - w
  OBVIOUS
<1>2. Whole \in Nat \ {0}
  BY WholeIsPositive
<1>3. v + Whole - l \in 0 .. 2 * Whole - 1
  BY <1>2
<1> DEFINE x == v + Whole - l
<1>4. x % Whole = IF x < Whole THEN x ELSE x - Whole
  <2> HIDE DEF x
  <2> QED
    BY <1>1, <1>2, <1>3 DEF x
<1>5. x - Whole = v - l /\ (x < Whole <=> v < l)
  BY <1>2
<1> QED
  BY <1>2, <1>4, <1>5 DEF Ahead

(* A step, and the counter's turning over. *)
LEMMA AheadWalks ==
  ASSUME NEW a \in 0 .. Whole - 1, NEW b \in 0 .. Whole - 1
  PROVE  /\ (b + 1) % Whole \in 0 .. Whole - 1
         /\ (b + 1) % Whole <= b + 1
         /\ Ahead(a, (b + 1) % Whole) <= Ahead(a, b) + 1
         /\ Ahead(a, b) \in Nat
<1>1. Whole \in Nat \ {0}
  BY WholeIsPositive
<1>2. (b + 1) % Whole = IF b + 1 = Whole THEN 0 ELSE b + 1
  BY <1>1
<1> QED
  BY <1>1, <1>2 DEF Ahead

-----------------------------------------------------------------------------
(* The inductive invariant.                                                *)

Reads  == Registers \X (0 .. Axes - 1)
Writes == {"sw_reset", "reset_steps", "config"}

TypeInv ==
  /\ ImuTypes
  /\ testState \notin {"verify", "done"} => count < 2 * Measures
  /\ \A i \in 0 .. Axes - 1 : buf[i].reg \in {"step_l", "step_h"} => buf[i].val < Whole

(* The task at the end of a transfer comes before the next transfer, with  *)
(* the state and the queues of the one that has ended, or after a reset;   *)
(* and only from the HAL's callbacks that are ours. *)
TaskInv ==
  /\ task = "queued" => state \in {"reading", "writing"}
  /\ task = "overdue" => state \in {"reading", "writing", "init"}
  /\ task # "no" => transfer = "none" /\ (state # "init" => registered)
  /\ transfer # "none" => state \in {"reading", "writing"}
  /\ state = "reading" => rxQueue # <<>>
  /\ state = "writing" => txQueue # <<>>
  /\ task # "no" /\ state = "reading" => buf[Head(rxQueue)[2]].reg = Head(rxQueue)[1]

(* The initialisation gets past the identity only after the sensor was     *)
(* switched off: since then its counter counts steps that were not counted *)
(* before. *)
InitInv ==
  /\ ~registered => initState \in {"check_id", "wait_id"}
  /\ registered /\ initState # "done" /\ ~torn => step + sensor <= walked
  /\ initState \in {"wait_reset_steps", "configure", "wait_configure"} => lastReg = 0

(* While steps are counted nothing is to be written, so nothing sets the   *)
(* counter of the sensor back: what it is ahead of the last value was      *)
(* walked and is not counted yet. *)
CountInv ==
  logic \in {"get_step", "wait_step"} =>
    /\ initState = "done" /\ txQueue = <<>> /\ state \in {"idle", "reading"}
    /\ ~torn => step + Ahead(lastReg, sensor) <= walked

(* The low byte that was read lies between the last value and the counter. *)
LowByteRead ==
  /\ buf[0].reg = "step_l"
  /\ ~torn => step + Ahead(lastReg, buf[0].val) + Ahead(buf[0].val, sensor) <= walked

(* The two bytes of the counter are the last that are to be read. *)
StepAsked ==
  logic = "wait_step" =>
    /\ ~rxDone /\ rxQueue # <<>> /\ rxQueue[Len(rxQueue)] = <<"step_h", 1>>
    /\ Len(rxQueue) > 1 => rxQueue[Len(rxQueue) - 1] = <<"step_l", 0>>
    /\ Len(rxQueue) = 1 \/ (Len(rxQueue) = 2 /\ task # "no") => LowByteRead

(* What a state waits for is the last that is to be read, until OnRxDone.  *)
Asks(reg) == rxQueue # <<>> => rxQueue[Len(rxQueue)] = <<reg, 0>>

OutsAsked ==
  \A i \in 0 .. Axes - 1 :
    IF Axes - i <= Len(rxQueue) THEN rxQueue[Len(rxQueue) - (Axes - i) + 1] = <<"out", i>>
    ELSE Holds(i, "out")

AskInv ==
  ~rxDone =>
    /\ logic = "init" /\ initState = "wait_id" => Asks("id")
    /\ logic = "init" /\ initState = "wait_sw_reset" => Asks("ctrl3")
    /\ logic \in Tests /\ testState = "wait_sw_reset" => Asks("ctrl3")
    /\ logic \in Tests /\ testState = "wait_da" => Asks("status")
    /\ logic \in Tests /\ testState = "wait_read_out" => OutsAsked

Safe == TaskInv /\ InitInv /\ CountInv /\ StepAsked /\ AskInv /\ StepsAreReal

ImuInv == TypeInv /\ Safe

(* What the invariant speaks of, but for the task. *)
coreVars == <<state, rxQueue, txQueue, rxDone, halVars, logic, initState, testState, buf,
              lastReg, step, sensor, walked, torn>>

LEMMA InitImuInv == ImuAssumption /\ Init => ImuInv
<1> SUFFICES ASSUME ImuAssumption, Init PROVE ImuInv
  OBVIOUS
<1>1. ImuTypes
  <2>1. Whole \in Nat \ {0}
    BY WholeIsPositive
  <2>2. /\ rxQueue \in Seq(Reads) /\ txQueue \in Seq(Writes)
    BY DEF Init
  <2>3. buf \in [0 .. Axes - 1 -> [reg : Registers \cup {"none"}, val : Nat]]
    BY DEF Init
  <2>4. /\ lastReg \in 0 .. Whole - 1 /\ sensor \in 0 .. Whole - 1 /\ count \in 0 .. 2 * Measures
        /\ waited \in 0 .. ServiceStuck /\ busyCnt \in 0 .. BusyLimit
        /\ stuck \in 0 .. LogicStuck /\ turns \in 0 .. MaxTurns
        /\ {walked, faults, tests} \subseteq 0 .. MaxEvents /\ piled \in 0 .. MaxPiled
    BY <2>1 DEF Init, ImuAssumption
  <2> QED
    BY <2>2, <2>3, <2>4 DEF Init, ImuTypes, Reads, Writes, Tests
<1>2. TypeInv
  BY <1>1 DEF TypeInv, Init, ImuAssumption
<1>3. Safe
  BY DEF Init, Safe, TaskInv, InitInv, CountInv, StepAsked, AskInv, StepsAreReal, Tests
<1> QED
  BY <1>2, <1>3 DEF ImuInv

-----------------------------------------------------------------------------
(* The routines.                                                           *)

(* A routine that changes nothing the invariant speaks of; it may come     *)
(* between an interrupt and its task. *)
LEMMA StillKeeps == ImuInv /\ UNCHANGED coreVars /\ (Turn \/ UNCHANGED task) => Safe'
<1> SUFFICES ASSUME ImuInv, UNCHANGED coreVars, Turn \/ UNCHANGED task PROVE Safe'
  OBVIOUS
<1> USE DEF ImuInv, Safe, coreVars, halVars
<1>1. (task # "no" <=> task' # "no") /\ (task = "queued" => task' \in {"queued", "overdue"})
      /\ (task' = "queued" => task = "queued") /\ (task = "overdue" => task' = task)
      /\ task \in {"no", "queued", "overdue"}
  BY DEF Turn, TypeInv, ImuTypes
<1>2. TaskInv'
  BY <1>1 DEF TaskInv
<1>3. InitInv' /\ CountInv' /\ StepsAreReal'
  BY DEF InitInv, CountInv, StepsAreReal, Ahead
<1>4. StepAsked'
  BY <1>1 DEF StepAsked, LowByteRead, Ahead
<1>5. AskInv'
  BY DEF AskInv, Asks, OutsAsked, Holds
<1> QED
  BY <1>2, <1>3, <1>4, <1>5

(* A reset, which leaves the queues and what was read. *)
LEMMA ResetKeeps ==
  ImuInv /\ ResetAll /\ Turn /\ UNCHANGED <<buf, sensor, walked, torn>> => Safe'
<1> SUFFICES ASSUME ImuInv, ResetAll, Turn, UNCHANGED <<buf, sensor, walked, torn>> PROVE Safe'
  OBVIOUS
<1> USE DEF ImuInv, Safe
<1>1. /\ state' = "init" /\ transfer' = "none" /\ registered' = FALSE
      /\ logic' = "init" /\ initState' = "check_id" /\ UNCHANGED <<step, lastReg>>
      /\ task' # "queued"
  BY DEF ResetAll, ResetI2C, ResetLogic, Turn
<1>2. TaskInv'
  BY <1>1 DEF TaskInv
<1>3. InitInv' /\ CountInv' /\ StepAsked' /\ StepsAreReal'
  BY <1>1 DEF InitInv, CountInv, StepAsked, StepsAreReal
<1>4. AskInv'
  BY <1>1 DEF AskInv, Tests
<1> QED
  BY <1>2, <1>3, <1>4

(* The sensor is switched off; the queues are emptied. *)
LEMMA PrepareKeeps == ImuInv /\ Prepare /\ Turn /\ UNCHANGED <<buf, walked, torn>> => Safe'
<1> SUFFICES ASSUME ImuInv, Prepare, Turn, UNCHANGED <<buf, walked, torn>> PROVE Safe'
  OBVIOUS
<1> USE DEF ImuInv, Safe
<1>1. /\ state = "init" /\ state' = "poweroff" /\ sensor' = 0 /\ rxDone' = TRUE
      /\ UNCHANGED <<transfer, logicVars>>
  BY DEF Prepare
<1>2. task = "no" /\ task' = "no" /\ transfer = "none"
  BY <1>1 DEF TaskInv, Turn, TypeInv, ImuTypes
<1>3. TaskInv'
  BY <1>1, <1>2 DEF TaskInv
<1>4. logic \notin {"get_step", "wait_step"}
  BY <1>1 DEF CountInv
<1>5. CountInv' /\ StepAsked' /\ AskInv' /\ StepsAreReal'
  BY <1>1, <1>4 DEF CountInv, StepAsked, AskInv, StepsAreReal, logicVars
<1>6. InitInv'
  <2>1. step \in Nat /\ walked \in Nat /\ torn \in BOOLEAN
    BY DEF TypeInv, ImuTypes
  <2>2. registered' /\ UNCHANGED <<initState, lastReg, step, walked, torn>>
    BY <1>1 DEF Prepare, logicVars
  <2>3. ~torn => step + 0 <= walked
    BY <2>1 DEF StepsAreReal
  <2> QED
    BY <1>1, <2>2, <2>3 DEF InitInv
<1> QED
  BY <1>3, <1>5, <1>6

LEMMA PowerOnKeeps ==
  ImuInv /\ PowerOn /\ Turn /\ UNCHANGED <<buf, walked, torn>> => Safe'
<1> SUFFICES ASSUME ImuInv, PowerOn, Turn, UNCHANGED <<buf, walked, torn>> PROVE Safe'
  OBVIOUS
<1> USE DEF ImuInv, Safe
<1>1. /\ state \in {"poweroff", "poweron"} /\ state' \in {"poweron", "idle"}
      /\ UNCHANGED <<rxQueue, txQueue, rxDone, halVars, logicVars, sensor>>
  BY DEF PowerOn
<1>2. task = "no" /\ task' = "no" /\ transfer = "none"
  BY <1>1 DEF TaskInv, Turn, TypeInv, ImuTypes
<1>3. TaskInv'
  BY <1>1, <1>2 DEF TaskInv, halVars
<1>4. logic \notin {"get_step", "wait_step"}
  BY <1>1 DEF CountInv
<1>5. CountInv' /\ StepAsked' /\ StepsAreReal'
  BY <1>1, <1>4 DEF CountInv, StepAsked, StepsAreReal, logicVars
<1>6. InitInv'
  BY <1>1 DEF InitInv, logicVars, halVars
<1>7. AskInv'
  BY <1>1 DEF AskInv, Asks, OutsAsked, Holds, logicVars
<1> QED
  BY <1>3, <1>5, <1>6, <1>7

(* A transfer begins; there is no step to count while one is written. *)
LEMMA BeginKeeps ==
  ASSUME ImuInv, Turn, state = "idle", Queued,
         state' = IF txQueue # <<>> THEN "writing" ELSE "reading",
         transfer' = "going",
         UNCHANGED <<rxQueue, txQueue, rxDone, registered, logicVars, buf, sensor, walked, torn>>
  PROVE  Safe'
<1> USE DEF ImuInv, Safe
<1>1. task = "no" /\ task' = "no"
  BY DEF TaskInv, Turn, TypeInv, ImuTypes
<1>2. TaskInv'
  BY <1>1 DEF TaskInv, Queued
<1>3. CountInv'
  BY DEF CountInv, Ahead, logicVars
<1>4. InitInv' /\ StepsAreReal'
  BY DEF InitInv, StepsAreReal, logicVars
<1>5. StepAsked'
  BY <1>1 DEF StepAsked, LowByteRead, Ahead, logicVars
<1>6. AskInv'
  BY DEF AskInv, Asks, OutsAsked, Holds, logicVars
<1> QED
  BY <1>2, <1>3, <1>4, <1>5, <1>6

LEMMA ServiceKeeps == ImuInv /\ ServiceRoutine => Safe'
<1> SUFFICES ASSUME ImuInv, ServiceRoutine PROVE Safe'
  OBVIOUS
<1>1. Turn /\ UNCHANGED <<buf, walked, torn>>
  BY DEF ServiceRoutine
<1>2. CASE Prepare
  BY <1>1, <1>2, PrepareKeeps
<1>3. CASE PowerOn
  BY <1>1, <1>3, PowerOnKeeps
<1>4. CASE Await
  <2>1. UNCHANGED sensor
    BY <1>4 DEF Await
  <2>2. CASE TooLong
    BY <1>1, <1>4, <2>1, <2>2, ResetKeeps DEF Await
  <2>3. CASE ~TooLong
    BY <1>1, <1>4, <2>1, <2>3, StillKeeps DEF Await, coreVars, logicVars
  <2> QED
    BY <2>2, <2>3
<1>5. CASE Begin
  <2>1. UNCHANGED sensor /\ state = "idle" /\ Queued
    BY <1>5 DEF Begin
  <2>2. CASE ResetAll
    BY <1>1, <2>1, <2>2, ResetKeeps
  <2>3. CASE ~ResetAll
    BY <1>1, <1>5, <2>1, <2>3, BeginKeeps DEF Begin
  <2> QED
    BY <2>2, <2>3
<1>6. CASE BusIsBusy
  <2>1. UNCHANGED sensor
    BY <1>6 DEF BusIsBusy
  <2>2. CASE busyCnt + 1 >= BusyLimit
    BY <1>1, <1>6, <2>1, <2>2, ResetKeeps DEF BusIsBusy
  <2>3. CASE ~(busyCnt + 1 >= BusyLimit)
    BY <1>1, <1>6, <2>1, <2>3, StillKeeps DEF BusIsBusy, coreVars, logicVars
  <2> QED
    BY <2>2, <2>3
<1>7. CASE NothingQueued
  BY <1>1, <1>7, StillKeeps DEF NothingQueued, coreVars, serviceVars, logicVars
<1> QED
  BY <1>2, <1>3, <1>4, <1>5, <1>6, <1>7 DEF ServiceRoutine

-----------------------------------------------------------------------------
(* The bus and the sensor.                                                 *)

LEMMA WalkKeeps == ImuInv /\ Walk => Safe'
<1> SUFFICES ASSUME ImuInv, Walk PROVE Safe'
  OBVIOUS
<1> USE DEF ImuInv, Safe
<1>1. /\ walked' = walked + 1 /\ sensor' = (sensor + 1) % Whole
      /\ UNCHANGED <<serviceVars, halVars, task, logicVars, buf, torn>>
  BY DEF Walk
<1>2. /\ step \in Nat /\ walked \in Nat /\ sensor \in 0 .. Whole - 1 /\ sensor \in Nat
      /\ lastReg \in 0 .. Whole - 1 /\ torn \in BOOLEAN
  BY WholeIsPositive DEF TypeInv, ImuTypes
<1>3. /\ sensor' \in Nat /\ sensor' <= sensor + 1
      /\ Ahead(lastReg, sensor') <= Ahead(lastReg, sensor) + 1
      /\ Ahead(lastReg, sensor) \in Nat
  BY <1>1, <1>2, AheadWalks
<1>4. TaskInv'
  BY <1>1 DEF TaskInv, serviceVars, halVars
<1>5. Ahead(lastReg, sensor)' \in Int /\ Ahead(lastReg, sensor)' = Ahead(lastReg, sensor')
  BY <1>1, <1>2, <1>3, WholeIsPositive DEF Ahead, logicVars
<1>6. InitInv'
  <2>1. step + sensor <= walked => step + sensor' <= walked + 1
    <3>1. \A i, j, k, n \in Nat : i + j <= n /\ k <= j + 1 => i + k <= n + 1
      OBVIOUS
    <3>2. step \in Nat /\ walked \in Nat /\ sensor \in Nat
      BY <1>2
    <3> QED
      BY <1>3, <3>1, <3>2
  <2> QED
    BY <1>1, <2>1 DEF InitInv, logicVars, halVars
<1>7. CountInv'
  <2>1. step + Ahead(lastReg, sensor) <= walked => step + Ahead(lastReg, sensor') <= walked + 1
    BY <1>2, <1>3, <1>5
  <2> QED
    BY <1>1, <1>5, <2>1 DEF CountInv, logicVars, serviceVars
<1>8. StepsAreReal'
  BY <1>1, <1>2 DEF StepsAreReal, logicVars
<1>9. LowByteRead => LowByteRead'
  <2> SUFFICES ASSUME LowByteRead PROVE LowByteRead'
    OBVIOUS
  <2> DEFINE low == buf[0].val
  <2>1. buf[0].reg = "step_l" /\ low \in 0 .. Whole - 1
    <3>1. buf[0].reg = "step_l"
      BY DEF LowByteRead
    <3>2. 0 \in 0 .. Axes - 1
      BY ImuAssumption
    <3>3. buf[0] \in [reg : Registers \cup {"none"}, val : Nat]
      BY <3>2 DEF TypeInv, ImuTypes
    <3>4. low \in Nat /\ low < Whole
      BY <3>1, <3>2, <3>3 DEF TypeInv
    <3> QED
      BY <3>1, <3>4, WholeIsPositive
  <2>2. Ahead(low, sensor') <= Ahead(low, sensor) + 1 /\ Ahead(low, sensor) \in Nat
    BY <1>1, <1>2, <2>1, AheadWalks
  <2>3. Ahead(low, sensor') \in Int /\ Ahead(lastReg, low) \in Int
    BY <1>2, <1>3, <2>1, WholeIsPositive DEF Ahead
  <2>4. ~torn => step + Ahead(lastReg, low) + Ahead(low, sensor) <= walked
    BY DEF LowByteRead
  <2>5. ~torn => step + Ahead(lastReg, low) + Ahead(low, sensor') <= walked + 1
    BY <1>2, <2>2, <2>3, <2>4
  <2>6. low' = low /\ Ahead(lastReg, low)' = Ahead(lastReg, low)
        /\ Ahead(low, sensor)' = Ahead(low, sensor')
    BY <1>1 DEF logicVars, Ahead
  <2> HIDE DEF low
  <2>7. (~torn => step + Ahead(lastReg, low) + Ahead(low, sensor) <= walked)'
    BY <1>1, <2>5, <2>6 DEF logicVars
  <2> QED
    BY <1>1, <2>1, <2>7 DEF LowByteRead, low
<1>10. StepAsked'
  BY <1>1, <1>9 DEF StepAsked, logicVars, serviceVars
<1>11. AskInv'
  BY <1>1 DEF AskInv, Asks, OutsAsked, Holds, logicVars, serviceVars
<1> QED
  BY <1>4, <1>6, <1>7, <1>8, <1>10, <1>11

LEMMA ErrorKeeps == ImuInv /\ (Error \/ Hang) => Safe'
<1> SUFFICES ASSUME ImuInv, Error \/ Hang PROVE Safe'
  OBVIOUS
<1> USE DEF ImuInv, Safe
<1>1. transfer # "none" /\ task = "no" /\ task' = "no" /\ UNCHANGED <<buf, sensor, walked, torn>>
  BY DEF Error, Hang, TaskInv
<1>2. CASE ResetAll
  BY <1>1, <1>2, ResetKeeps DEF Turn
<1>3. CASE ~ResetAll
  <2>1. /\ UNCHANGED <<state, rxQueue, txQueue, rxDone, registered, logicVars>>
        /\ transfer' \in {"none", "hung"}
    BY <1>3 DEF Error, Hang, serviceVars
  <2>2. TaskInv'
    BY <1>1, <2>1 DEF TaskInv
  <2>3. InitInv' /\ CountInv' /\ StepsAreReal'
    BY <1>1, <2>1 DEF InitInv, CountInv, StepsAreReal, Ahead, logicVars
  <2>4. StepAsked'
    BY <1>1, <2>1 DEF StepAsked, LowByteRead, Ahead, logicVars
  <2>5. AskInv'
    BY <1>1, <2>1 DEF AskInv, Asks, OutsAsked, Holds, logicVars
  <2> QED
    BY <2>2, <2>3, <2>4, <2>5
<1> QED
  BY <1>2, <1>3

(* The end of a write sets the counter of the sensor back when no steps    *)
(* are counted. *)
LEMMA WrittenKeeps == ImuInv /\ Complete /\ state # "reading" => Safe'
<1> SUFFICES ASSUME ImuInv, Complete, state # "reading" PROVE Safe'
  OBVIOUS
<1> USE DEF ImuInv, Safe
<1>1. /\ transfer # "none" /\ transfer' = "none"
      /\ task' = IF registered THEN "queued" ELSE task
      /\ sensor' \in {0, sensor}
      /\ UNCHANGED <<buf, serviceVars, registered, logicVars, torn, walked>>
  BY DEF Complete
<1>2. state = "writing" /\ txQueue # <<>> /\ task = "no"
  BY <1>1 DEF TaskInv
<1>3. logic \notin {"get_step", "wait_step"}
  BY <1>2 DEF CountInv
<1>4. TaskInv'
  BY <1>1, <1>2 DEF TaskInv, serviceVars
<1>5. CountInv' /\ StepAsked' /\ StepsAreReal'
  BY <1>1, <1>3 DEF CountInv, StepAsked, StepsAreReal, logicVars
<1>6. AskInv'
  BY <1>1 DEF AskInv, Asks, OutsAsked, Holds, logicVars, serviceVars
<1>7. InitInv'
  <2>1. step + sensor <= walked => step + sensor' <= walked
    <3>1. step \in Nat /\ walked \in Nat /\ sensor \in Nat
      BY WholeIsPositive DEF TypeInv, ImuTypes
    <3>2. sensor' = 0 \/ sensor' = sensor
      BY <1>1
    <3> QED
      BY <3>1, <3>2
  <2> QED
    BY <1>1, <2>1 DEF InitInv, logicVars
<1> QED
  BY <1>4, <1>5, <1>6, <1>7

(* The end of a read puts the value of the register that was asked for     *)
(* where it belongs.  Of the queue only the first register is concerned. *)
LEMMA ReadKeeps == ImuAssumption /\ ImuInv /\ Complete /\ state = "reading" => Safe'
<1> SUFFICES ASSUME ImuAssumption, ImuInv, Complete, state = "reading" PROVE Safe'
  OBVIOUS
<1> USE DEF ImuInv, Safe
<1> DEFINE reg == Head(rxQueue)[1]
           place == Head(rxQueue)[2]
<1>1. /\ transfer # "none" /\ transfer' = "none"
      /\ task' = IF registered THEN "queued" ELSE task
      /\ UNCHANGED <<serviceVars, registered, logicVars, torn, walked, sensor>>
  BY DEF Complete
<1>2. PICK val \in Answers(reg) : buf' = [buf EXCEPT ![place] = [reg |-> reg, val |-> val]]
  BY DEF Complete
<1>3. task = "no" /\ rxQueue # <<>> /\ rxQueue \in Seq(Reads)
  BY <1>1 DEF TaskInv, TypeInv, ImuTypes, Reads
<1>4. /\ reg \in Registers /\ place \in 0 .. Axes - 1 /\ Head(rxQueue) = <<reg, place>>
      /\ Head(rxQueue) = rxQueue[1] /\ Len(rxQueue) \in Nat /\ Len(rxQueue) > 0
  <2>1. Head(rxQueue) \in Reads
    BY <1>3, HeadTailProperties
  <2>2. Head(rxQueue) = rxQueue[1] /\ Len(rxQueue) \in Nat /\ Len(rxQueue) > 0
    BY <1>3, EmptySeq
  <2> QED
    BY <2>1, <2>2 DEF Reads
<1>5. DOMAIN buf = 0 .. Axes - 1
  BY DEF TypeInv, ImuTypes
<1> HIDE DEF reg, place
<1>6. buf'[place] = [reg |-> reg, val |-> val] /\ \A i \in 0 .. Axes - 1 : i # place => buf'[i] = buf[i]
  BY <1>2, <1>4, <1>5
<1>7. TaskInv'
  <2>1. buf'[Head(rxQueue')[2]].reg = Head(rxQueue')[1]
    BY <1>1, <1>6 DEF serviceVars, reg, place
  <2> QED
    BY <1>1, <1>3, <2>1 DEF TaskInv, serviceVars
<1>8. InitInv' /\ CountInv' /\ StepsAreReal'
  BY <1>1 DEF InitInv, CountInv, StepsAreReal, Ahead, logicVars, serviceVars
<1>9. StepAsked'
  <2> SUFFICES ASSUME logic = "wait_step", Len(rxQueue) = 1 \/ Len(rxQueue) = 2
               PROVE  LowByteRead'
    BY <1>1 DEF StepAsked, logicVars, serviceVars
  <2>1. /\ rxQueue[Len(rxQueue)] = <<"step_h", 1>>
        /\ Len(rxQueue) > 1 => rxQueue[Len(rxQueue) - 1] = <<"step_l", 0>>
        /\ Len(rxQueue) = 1 => LowByteRead
    BY DEF StepAsked
  <2>2. CASE Len(rxQueue) = 1
    <3>1. place = 1
      BY <1>4, <2>1, <2>2
    <3>2. 0 \in 0 .. Axes - 1
      BY ImuAssumption
    <3>3. buf'[0] = buf[0]
      BY <1>6, <3>1, <3>2
    <3>4. LowByteRead
      BY <2>1, <2>2
    <3> QED
      BY <1>1, <3>3, <3>4 DEF LowByteRead, Ahead, logicVars
  <2>3. CASE Len(rxQueue) = 2
    <3>1. reg = "step_l" /\ place = 0
      <4>1. Len(rxQueue) - 1 = 1 /\ Len(rxQueue) > 1
        BY <2>3
      <4>2. rxQueue[1] = <<"step_l", 0>>
        BY <2>1, <4>1
      <4> QED
        BY <1>4, <4>2
    <3>2. val = sensor
      BY <3>1 DEF Answers
    <3>3. buf'[0].reg = "step_l" /\ buf'[0].val = sensor
      BY <1>6, <3>1, <3>2
    <3>4. ~torn => step + Ahead(lastReg, sensor) <= walked
      BY DEF CountInv
    <3>5. Ahead(sensor, sensor) = 0 /\ step \in Nat /\ Ahead(lastReg, sensor) \in Int
      BY WholeIsPositive DEF Ahead, TypeInv, ImuTypes
    <3>6. ~torn => step + Ahead(lastReg, sensor) + Ahead(sensor, sensor) <= walked
      BY <3>4, <3>5
    <3> QED
      BY <1>1, <3>3, <3>6 DEF LowByteRead, Ahead, logicVars
  <2> QED
    BY <2>2, <2>3
<1>10. AskInv'
  <2>1. OutsAsked => OutsAsked'
    <3> SUFFICES ASSUME OutsAsked, NEW i \in 0 .. Axes - 1, ~(Axes - i <= Len(rxQueue))
                 PROVE  buf'[i].reg = "out"
      BY <1>1 DEF OutsAsked, Holds, serviceVars
    <3>1. buf[i].reg = "out"
      BY DEF OutsAsked, Holds
    <3>2. CASE i = place
      <4>1. i < Axes - Len(rxQueue) /\ Axes \in Nat
        BY <1>4, ImuAssumption
      <4> DEFINE j == Axes - Len(rxQueue)
      <4>2. j \in 0 .. Axes - 1 /\ Axes - j = Len(rxQueue)
        BY <1>4, <4>1
      <4> HIDE DEF j
      <4>3. rxQueue[Len(rxQueue) - (Axes - j) + 1] = <<"out", j>>
        <5>1. Axes - j <= Len(rxQueue)
          BY <1>4, <4>2
        <5> QED
          BY <4>2, <5>1 DEF OutsAsked
      <4>4. rxQueue[1] = <<"out", j>>
        <5>1. Len(rxQueue) - (Axes - j) + 1 = 1
          BY <1>4, <4>2
        <5> QED
          BY <4>3, <5>1
      <4> QED
        BY <1>4, <1>6, <3>2, <4>4
    <3> QED
      BY <1>6, <3>1, <3>2
  <2> QED
    BY <1>1, <2>1 DEF AskInv, Asks, logicVars, serviceVars
<1> QED
  BY <1>7, <1>8, <1>9, <1>10

-----------------------------------------------------------------------------
(* The logic's routine.                                                    *)

(* The end of a queue that something was added to. *)
LEMMA EndOfQueue ==
  ASSUME NEW S, NEW s \in Seq(S), NEW t \in Seq(S)
  PROVE  /\ s \o t \in Seq(S) /\ Len(s) \in Nat /\ Len(s \o t) = Len(s) + Len(t)
         /\ \A k \in 1 .. Len(t) : (s \o t)[Len(s) + k] = t[k]
<1>1. Len(s) \in Nat /\ Len(t) \in Nat
  OBVIOUS
<1>2. /\ s \o t \in Seq(S) /\ Len(s \o t) = Len(s) + Len(t)
      /\ \A i \in 1 .. Len(s) + Len(t) : (s \o t)[i] = IF i <= Len(s) THEN s[i] ELSE t[i - Len(s)]
  BY ConcatProperties
<1>3. ASSUME NEW k \in 1 .. Len(t) PROVE (s \o t)[Len(s) + k] = t[k]
  <2>1. Len(s) + k \in 1 .. Len(s) + Len(t) /\ ~(Len(s) + k <= Len(s)) /\ Len(s) + k - Len(s) = k
    BY <1>1
  <2>2. (s \o t)[Len(s) + k] = t[Len(s) + k - Len(s)]
    BY <1>2, <2>1
  <2> QED
    BY <2>1, <2>2
<1> QED
  BY <1>1, <1>2, <1>3

LEMMA AsksLast ==
  ASSUME NEW s \in Seq(Reads), NEW r \in Reads
  PROVE  /\ s \o <<r>> \in Seq(Reads) /\ s \o <<r>> # <<>>
         /\ (s \o <<r>>)[Len(s \o <<r>>)] = r
<1>1. <<r>> \in Seq(Reads) /\ Len(<<r>>) = 1 /\ <<r>>[1] = r
  OBVIOUS
<1>2. /\ s \o <<r>> \in Seq(Reads) /\ Len(s) \in Nat /\ Len(s \o <<r>>) = Len(s) + 1
      /\ (s \o <<r>>)[Len(s) + 1] = r
  BY <1>1, EndOfQueue
<1>3. s \o <<r>> # <<>>
  BY <1>2
<1> QED
  BY <1>2, <1>3

LEMMA OutsLast ==
  ASSUME ImuAssumption, NEW s \in Seq(Reads)
  PROVE  /\ Outs \in Seq(Reads) /\ s \o Outs \in Seq(Reads)
         /\ \A i \in 0 .. Axes - 1 :
              /\ Axes - i <= Len(s \o Outs)
              /\ (s \o Outs)[Len(s \o Outs) - (Axes - i) + 1] = <<"out", i>>
<1>1. Axes \in Nat
  BY ImuAssumption
<1>2. \A j \in 1 .. Axes : <<"out", j - 1>> \in Reads
  BY <1>1 DEF Reads, Registers
<1>3. Outs \in Seq(Reads) /\ Len(Outs) = Axes /\ \A j \in 1 .. Axes : Outs[j] = <<"out", j - 1>>
  BY <1>1, <1>2 DEF Outs
<1> DEFINE m == Len(s)
           both == s \o Outs
<1>4. /\ both \in Seq(Reads) /\ m \in Nat /\ Len(both) = m + Len(Outs)
      /\ \A k \in 1 .. Len(Outs) : both[m + k] = Outs[k]
  BY <1>3, EndOfQueue
<1> HIDE DEF m, both
<1>5. ASSUME NEW i \in 0 .. Axes - 1
      PROVE  /\ Axes - i <= Len(both)
             /\ both[Len(both) - (Axes - i) + 1] = <<"out", i>>
  <2>1. /\ m + Axes - (Axes - i) + 1 = m + (i + 1) /\ i + 1 \in 1 .. Axes /\ i + 1 - 1 = i
        /\ Axes - i <= m + Axes
    BY <1>1, <1>4
  <2>2. Len(both) = m + Axes
    BY <1>3, <1>4
  <2>3. both[m + (i + 1)] = Outs[i + 1]
    BY <1>3, <1>4, <2>1
  <2>4. Outs[i + 1] = <<"out", i + 1 - 1>>
    BY <1>3, <2>1
  <2>5. Len(both) - (Axes - i) + 1 = m + (i + 1)
    <3>1. i \in Nat /\ m \in Nat
      BY <1>4
    <3>2. \A n : n = m + Axes => n - (Axes - i) + 1 = m + (i + 1)
      BY <1>1, <3>1
    <3> QED
      BY <2>2, <3>2
  <2>6. both[m + (i + 1)] = <<"out", i>>
    BY <2>1, <2>3, <2>4
  <2> QED
    BY <2>1, <2>2, <2>5, <2>6
<1> QED
  BY <1>3, <1>4, <1>5 DEF both

(* What holds whenever a routine finds the service idle. *)
LEMMA IdleIs ==
  ASSUME ImuInv, Turn, state = "idle"
  PROVE  task = "no" /\ task' = "no" /\ transfer = "none"
BY DEF ImuInv, Safe, TaskInv, Turn, TypeInv, ImuTypes

LEMMA InitStepKeeps ==
  ASSUME ImuAssumption, ImuInv, Turn, state = "idle", logic = "init", InitStep,
         UNCHANGED <<state, halVars, step, buf, sensor, torn, walked>>
  PROVE  Safe'
<1> USE DEF ImuInv, Safe
<1>1. task = "no" /\ task' = "no" /\ transfer = "none"
  BY IdleIs
<1>2. /\ logic' = "init" /\ testState' = testState
      /\ lastReg' = IF initState = "reset_steps" THEN 0 ELSE lastReg
  BY DEF InitStep, LastAfter
<1>3. TaskInv'
  BY <1>1 DEF TaskInv, halVars
<1>4. CountInv' /\ StepAsked' /\ StepsAreReal'
  BY <1>2 DEF CountInv, StepAsked, StepsAreReal
<1>5. \/ initState = "check_id" /\ initState' = "wait_id"
      \/ initState = "sw_reset" /\ initState' = "wait_sw_reset"
      \/ initState = "reset_steps" /\ initState' = "wait_reset_steps"
      \/ initState = "configure" /\ initState' = "wait_configure"
      \/ initState \notin {"check_id", "sw_reset", "reset_steps", "configure"} /\ initState' = initState
  BY DEF InitStep
<1>6. InitInv'
  <2>1. ~registered' => initState' \in {"check_id", "wait_id"}
    BY <1>5 DEF InitInv, halVars
  <2>2. registered' /\ initState' # "done" /\ ~torn' => step' + sensor' <= walked'
    BY <1>5 DEF InitInv, halVars
  <2>3. initState' \in {"wait_reset_steps", "configure", "wait_configure"} => lastReg' = 0
    BY <1>2, <1>5 DEF InitInv
  <2> QED
    BY <2>1, <2>2, <2>3 DEF InitInv
<1>7. AskInv'
  <2>1. rxQueue \in Seq(Reads) /\ 0 \in 0 .. Axes - 1
    BY ImuAssumption DEF TypeInv, ImuTypes, Reads
  <2>2. <<"id", 0>> \in Reads /\ <<"ctrl3", 0>> \in Reads
    BY <2>1 DEF Reads, Registers
  <2>3. CASE initState = "check_id"
    <3>1. rxQueue' = rxQueue \o << <<"id", 0>> >> /\ initState' = "wait_id"
      BY <2>3 DEF InitStep, Read
    <3>2. Asks("id")'
      BY <2>1, <2>2, <3>1, AsksLast DEF Asks
    <3> QED
      BY <1>2, <3>1, <3>2 DEF AskInv, Tests
  <2>4. CASE initState = "sw_reset"
    <3>1. rxQueue' = rxQueue \o << <<"ctrl3", 0>> >> /\ initState' = "wait_sw_reset"
      BY <2>4 DEF InitStep, Read
    <3>2. Asks("ctrl3")'
      BY <2>1, <2>2, <3>1, AsksLast DEF Asks
    <3> QED
      BY <1>2, <3>1, <3>2 DEF AskInv, Tests
  <2>5. CASE initState \notin {"check_id", "sw_reset"}
    <3>1. UNCHANGED <<rxQueue, rxDone>>
      BY <2>5 DEF InitStep, NoRead
    <3>2. initState' \in {"wait_id", "wait_sw_reset"} => initState = initState'
      BY <1>5, <2>5
    <3> QED
      BY <1>2, <3>1, <3>2 DEF AskInv, Asks, Tests
  <2> QED
    BY <2>3, <2>4, <2>5
<1> QED
  BY <1>3, <1>4, <1>6, <1>7

LEMMA TestStepKeeps ==
  ASSUME ImuAssumption, ImuInv, Turn, state = "idle", logic \in Tests, TestStep,
         UNCHANGED <<state, halVars, step, buf, sensor, torn, walked>>
  PROVE  Safe'
<1> USE DEF ImuInv, Safe
<1>1. task = "no" /\ task' = "no" /\ transfer = "none"
  BY IdleIs
<1>2. logic' \in Tests \cup {"idle"} /\ UNCHANGED <<initState, lastReg>>
  BY DEF TestStep, Tests
<1>3. TaskInv'
  BY <1>1 DEF TaskInv, halVars
<1>4. InitInv' /\ CountInv' /\ StepAsked' /\ StepsAreReal'
  BY <1>2 DEF InitInv, CountInv, StepAsked, StepsAreReal, Tests, halVars
<1>5. rxQueue \in Seq(Reads) /\ 0 \in 0 .. Axes - 1
  BY ImuAssumption DEF TypeInv, ImuTypes, Reads
<1>6. <<"ctrl3", 0>> \in Reads /\ <<"status", 0>> \in Reads
  BY <1>5 DEF Reads, Registers
<1>7. AskInv'
  <2>1. CASE testState = "sw_reset"
    <3>1. rxQueue' = rxQueue \o << <<"ctrl3", 0>> >> /\ testState' = "wait_sw_reset"
      BY <2>1 DEF TestStep, Read
    <3>2. Asks("ctrl3")'
      BY <1>5, <1>6, <3>1, AsksLast DEF Asks
    <3> QED
      BY <1>2, <3>1, <3>2 DEF AskInv, Tests
  <2>2. CASE testState' = "wait_da" /\ testState # "wait_da"
    <3>1. rxQueue' = rxQueue \o << <<"status", 0>> >>
      BY <2>2 DEF TestStep, Read
    <3>2. Asks("status")'
      BY <1>5, <1>6, <3>1, AsksLast DEF Asks
    <3> QED
      BY <1>2, <2>2, <3>2 DEF AskInv, Tests
  <2>3. CASE testState = "read_out"
    <3>1. rxQueue' = rxQueue \o Outs /\ testState' = "wait_read_out"
      BY <2>3 DEF TestStep, Read
    <3>2. OutsAsked'
      BY <1>5, <3>1, OutsLast DEF OutsAsked
    <3> QED
      BY <1>2, <3>1, <3>2 DEF AskInv, Tests
  <2>4. CASE ~(testState' = "wait_da" /\ testState # "wait_da") /\ testState \notin {"sw_reset", "read_out"}
    <3>1. testState' \in {"wait_sw_reset", "wait_da", "wait_read_out"} =>
            UNCHANGED <<rxQueue, rxDone, testState>> /\ logic' = logic
      BY <2>4 DEF TestStep, NoRead
    <3> QED
      BY <1>2, <3>1 DEF AskInv, Asks, OutsAsked, Holds, Tests
  <2> QED
    BY <2>1, <2>2, <2>3, <2>4
<1> QED
  BY <1>3, <1>4, <1>7

LEMMA GetStepKeeps ==
  ASSUME ImuAssumption, ImuInv, Turn, state = "idle", logic = "get_step", GetStep,
         UNCHANGED <<state, halVars, step, buf, sensor, torn, walked>>
  PROVE  Safe'
<1> USE DEF ImuInv, Safe
<1> DEFINE asked == << <<"step_l", 0>>, <<"step_h", 1>> >>
<1>1. task = "no" /\ task' = "no" /\ transfer = "none"
  BY IdleIs
<1>2. /\ logic' = "wait_step" /\ rxQueue' = rxQueue \o asked /\ ~rxDone'
      /\ UNCHANGED <<txQueue, initState, testState, lastReg>>
  BY DEF GetStep, Read, NoWrite
<1>3. TaskInv'
  BY <1>1 DEF TaskInv, halVars
<1>4. InitInv' /\ CountInv' /\ StepsAreReal'
  BY <1>2 DEF InitInv, CountInv, StepsAreReal, halVars, Ahead
<1>5. AskInv'
  BY <1>2 DEF AskInv, Tests
<1>6. StepAsked'
  <2>1. rxQueue \in Seq(Reads) /\ 0 \in 0 .. Axes - 1 /\ 1 \in 0 .. Axes - 1
    BY ImuAssumption DEF TypeInv, ImuTypes, Reads
  <2>2. asked \in Seq(Reads) /\ Len(asked) = 2 /\ asked[1] = <<"step_l", 0>> /\ asked[2] = <<"step_h", 1>>
    BY <2>1 DEF Reads, Registers
  <2>3. rxQueue \in Seq(Reads) /\ asked \in Seq(Reads)
    BY <2>1, <2>2
  <2> HIDE DEF asked
  <2> DEFINE n == Len(rxQueue)
  <2>4. /\ n \in Nat /\ Len(rxQueue \o asked) = n + Len(asked)
        /\ \A k \in 1 .. Len(asked) : (rxQueue \o asked)[n + k] = asked[k]
    BY <2>3, EndOfQueue
  <2> HIDE DEF n
  <2>5. /\ n \in Nat /\ Len(rxQueue') = n + 2
        /\ \A k \in 1 .. 2 : rxQueue'[n + k] = asked[k]
    BY <1>2, <2>2, <2>4
  <2>6. n + 2 - 1 = n + 1 /\ n + 2 # 1 /\ n + 2 > 1
    BY <2>5
  <2>7. rxQueue'[n + 2] = <<"step_h", 1>> /\ rxQueue'[n + 1] = <<"step_l", 0>>
    BY <2>2, <2>5
  <2>8. rxQueue'[Len(rxQueue')] = <<"step_h", 1>> /\ rxQueue'[Len(rxQueue') - 1] = <<"step_l", 0>>
    BY <2>5, <2>6, <2>7
  <2>9. rxQueue' # <<>>
    BY <2>5, <2>6
  <2>10. ~(Len(rxQueue') = 1 \/ (Len(rxQueue') = 2 /\ task' # "no"))
    BY <1>1, <2>5, <2>6
  <2> QED
    BY <1>2, <2>8, <2>9, <2>10 DEF StepAsked
<1> QED
  BY <1>3, <1>4, <1>5, <1>6

LEMMA LogicKeeps == ImuAssumption /\ ImuInv /\ LogicRoutine => Safe'
<1> SUFFICES ASSUME ImuAssumption, ImuInv, LogicRoutine PROVE Safe'
  OBVIOUS
<1>1. Turn /\ UNCHANGED <<buf, sensor, torn, walked>>
  BY DEF LogicRoutine, bounds
<1>2. CASE UNCHANGED <<serviceVars, halVars, logicVars>>
  BY <1>1, <1>2, StillKeeps DEF coreVars, serviceVars, logicVars
<1>3. CASE ResetAll
  BY <1>1, <1>3, ResetKeeps
<1>4. CASE ~UNCHANGED <<serviceVars, halVars, logicVars>> /\ ~ResetAll
  <2>1. /\ state = "idle"
        /\ \/ logic = "init" /\ InitStep
           \/ logic \in Tests /\ TestStep
           \/ logic = "get_step" /\ GetStep
        /\ UNCHANGED <<state, halVars, step>>
    BY <1>4 DEF LogicRoutine, serviceVars
  <2> QED
    BY <1>1, <2>1, InitStepKeeps, TestStepKeeps, GetStepKeeps
<1> QED
  BY <1>2, <1>3, <1>4

LEMMA SelfTestKeeps == ImuInv /\ GyroSelfTest => Safe'
<1> SUFFICES ASSUME ImuInv, GyroSelfTest PROVE Safe'
  OBVIOUS
<1> USE DEF ImuInv, Safe
<1>1. /\ logic' = "st_gyro" /\ testState' = "sw_reset"
      /\ UNCHANGED <<serviceVars, halVars, task, initState, lastReg, step, buf, sensor, torn, walked>>
  BY DEF GyroSelfTest
<1>2. TaskInv'
  BY <1>1 DEF TaskInv, serviceVars, halVars
<1>3. InitInv' /\ CountInv' /\ StepAsked' /\ StepsAreReal'
  BY <1>1 DEF InitInv, CountInv, StepAsked, StepsAreReal, halVars
<1>4. AskInv'
  BY <1>1 DEF AskInv
<1> QED
  BY <1>2, <1>3, <1>4

-----------------------------------------------------------------------------
(* The end of a transfer in the main thread.                               *)

(* What the task finds, after a read or write or a reset. *)
LEMMA CallbackIs ==
  ASSUME ImuInv, I2CCallback
  PROVE  /\ task # "no" /\ task' = "no" /\ state' = "idle" /\ transfer = "none" /\ transfer' = "none"
         /\ state \in {"reading", "writing", "init"} /\ (state # "init" => registered)
         /\ UNCHANGED <<buf, sensor, walked>>
<1>1. /\ task # "no" /\ task' = "no" /\ state' = "idle"
      /\ UNCHANGED <<transfer, buf, sensor, walked>>
  BY DEF I2CCallback, bounds
<1>2. task \in {"no", "queued", "overdue"}
  BY DEF ImuInv, TypeInv, ImuTypes
<1>3. state \in {"reading", "writing", "init"} /\ transfer = "none" /\ (state # "init" => registered)
  BY <1>1, <1>2 DEF ImuInv, Safe, TaskInv
<1> QED
  BY <1>1, <1>3

LEMMA AfterResetKeeps == ImuInv /\ I2CCallback /\ state = "init" => Safe'
<1> SUFFICES ASSUME ImuInv, I2CCallback, state = "init" PROVE Safe'
  OBVIOUS
<1> USE DEF ImuInv, Safe
<1>1. /\ task' = "no" /\ state' = "idle" /\ transfer' = "none" /\ UNCHANGED <<buf, sensor, walked>>
      /\ UNCHANGED <<rxQueue, rxDone, registered, logicVars, torn>>
  BY CallbackIs DEF I2CCallback
<1>2. TaskInv' /\ InitInv' /\ StepsAreReal'
  BY <1>1 DEF TaskInv, InitInv, StepsAreReal, logicVars
<1>3. CountInv' /\ StepAsked'
  BY <1>1 DEF CountInv, StepAsked, logicVars
<1>4. AskInv'
  BY <1>1 DEF AskInv, Asks, OutsAsked, Holds, logicVars
<1> QED
  BY <1>2, <1>3, <1>4

(* Steps begin to be counted when the last value and the counter of the    *)
(* sensor both are what they were when it was switched on. *)
LEMMA TxKeeps == ImuInv /\ I2CCallback /\ state = "writing" => Safe'
<1> SUFFICES ASSUME ImuInv, I2CCallback, state = "writing" PROVE Safe'
  OBVIOUS
<1> USE DEF ImuInv, Safe
<1>1. /\ task' = "no" /\ state' = "idle" /\ transfer' = "none" /\ registered
      /\ UNCHANGED <<buf, sensor, walked>>
      /\ txQueue' = Tail(txQueue)
      /\ UNCHANGED <<rxQueue, rxDone, registered, torn, lastReg, step>>
  BY CallbackIs DEF I2CCallback, OnTxDone, logicVars
<1>2. TaskInv' /\ StepsAreReal'
  BY <1>1 DEF TaskInv, StepsAreReal
<1>3. logic \notin {"get_step", "wait_step"}
  BY DEF CountInv
<1>4. CASE initState = "wait_configure" /\ logic' # logic
  <2>1. initState' = "done" /\ logic' = "get_step" /\ txQueue' = <<>>
    BY <1>1, <1>4 DEF I2CCallback, OnTxDone, logicVars
  <2>2. InitInv' /\ StepAsked' /\ AskInv'
    BY <1>1, <2>1 DEF InitInv, StepAsked, AskInv, Tests
  <2>3. lastReg = 0 /\ (~torn => step + sensor <= walked)
    BY <1>1, <1>4 DEF InitInv
  <2>4. Ahead(0, sensor) = sensor
    BY WholeIsPositive DEF Ahead, TypeInv, ImuTypes
  <2>5. CountInv'
    BY <1>1, <2>1, <2>3, <2>4 DEF CountInv, Ahead
  <2> QED
    BY <1>2, <2>2, <2>5
<1>5. CASE ~(initState = "wait_configure" /\ logic' # logic)
  <2>1. /\ logic' = logic
        /\ \/ initState' = initState
           \/ initState = "wait_configure" /\ initState' = "done"
           \/ initState = "wait_reset_steps" /\ initState' = "configure"
        /\ testState' \in {testState, "wait"}
    BY <1>5 DEF I2CCallback, OnTxDone, logicVars
  <2>2. CountInv' /\ StepAsked'
    BY <1>3, <2>1 DEF CountInv, StepAsked
  <2>3. InitInv'
    BY <1>1, <2>1 DEF InitInv
  <2>4. AskInv'
    BY <1>1, <2>1 DEF AskInv, Asks, OutsAsked, Holds
  <2> QED
    BY <1>2, <2>2, <2>3, <2>4
<1> QED
  BY <1>4, <1>5

(* The first register is taken out of the queue; others are to be read. *)
LEMMA PopKeeps ==
  ASSUME ImuAssumption, ImuInv, I2CCallback, state = "reading", ~AllRead(Tail(rxQueue))
  PROVE  Safe'
<1> USE DEF ImuInv, Safe
<1>1. /\ task # "no" /\ task' = "no" /\ state' = "idle" /\ transfer' = "none"
      /\ UNCHANGED <<buf, sensor, walked>>
      /\ rxQueue' = Tail(rxQueue)
      /\ UNCHANGED <<txQueue, rxDone, registered, logicVars, torn>>
  BY CallbackIs DEF I2CCallback
<1>2. ~rxDone => rxQueue' # <<>>
  BY <1>1 DEF AllRead
<1> DEFINE n == Len(rxQueue)
<1>3. rxQueue \in Seq(Reads) /\ rxQueue # <<>>
  BY DEF TaskInv, TypeInv, ImuTypes, Reads
<1>4. /\ n \in Nat /\ n > 0 /\ Head(rxQueue) = rxQueue[1]
      /\ rxQueue' \in Seq(Reads) /\ Len(rxQueue') = n - 1
  BY <1>1, <1>3, HeadTailProperties, EmptySeq
<1>5. \A i \in 1 .. n - 1 : rxQueue'[i] = rxQueue[i + 1]
  <2>1. \A i \in 1 .. Len(Tail(rxQueue)) : Tail(rxQueue)[i] = rxQueue[i + 1]
    BY <1>3, HeadTailProperties
  <2> QED
    BY <1>1, <1>4, <2>1
<1>6. rxQueue' # <<>> => n > 1
  BY <1>4, EmptySeq
<1> HIDE DEF n
<1>7. n > 1 => rxQueue'[n - 1] = rxQueue[n]
  <2> SUFFICES ASSUME n > 1 PROVE rxQueue'[n - 1] = rxQueue[n]
    OBVIOUS
  <2>1. n - 1 \in 1 .. n - 1 /\ n - 1 + 1 = n
    BY <1>4
  <2> QED
    BY <1>5, <2>1
<1>8. TaskInv' /\ InitInv' /\ CountInv' /\ StepsAreReal'
  BY <1>1 DEF TaskInv, InitInv, CountInv, StepsAreReal, Ahead, logicVars
<1>9. StepAsked'
  <2> SUFFICES ASSUME logic = "wait_step"
               PROVE  /\ ~rxDone /\ rxQueue' # <<>> /\ rxQueue'[n - 1] = <<"step_h", 1>>
                      /\ n - 1 > 1 => rxQueue'[n - 1 - 1] = <<"step_l", 0>>
                      /\ n - 1 = 1 => LowByteRead'
    BY <1>1, <1>4 DEF StepAsked, logicVars
  <2>1. /\ ~rxDone /\ rxQueue[n] = <<"step_h", 1>>
        /\ n > 1 => rxQueue[n - 1] = <<"step_l", 0>>
        /\ n = 2 => LowByteRead
    BY <1>1 DEF StepAsked, n
  <2>2. n > 1 /\ rxQueue' # <<>> /\ rxQueue'[n - 1] = <<"step_h", 1>>
    BY <1>2, <1>6, <1>7, <2>1
  <2>3. n - 1 > 1 => rxQueue'[n - 1 - 1] = <<"step_l", 0>>
    <3> SUFFICES ASSUME n - 1 > 1 PROVE rxQueue'[n - 1 - 1] = <<"step_l", 0>>
      OBVIOUS
    <3>1. n - 1 - 1 \in 1 .. n - 1 /\ n - 1 - 1 + 1 = n - 1
      BY <1>4
    <3> QED
      BY <1>5, <2>1, <2>2, <3>1
  <2>4. n - 1 = 1 => LowByteRead'
    <3>1. n - 1 = 1 => n = 2
      BY <1>4
    <3> QED
      BY <1>1, <2>1, <3>1 DEF LowByteRead, Ahead, logicVars
  <2> QED
    BY <2>1, <2>2, <2>3, <2>4
<1>10. AskInv'
  <2>1. \A reg : ~rxDone /\ Asks(reg) => Asks(reg)'
    <3> SUFFICES ASSUME NEW reg, ~rxDone, Asks(reg) PROVE Asks(reg)'
      OBVIOUS
    <3>1. rxQueue[n] = <<reg, 0>>
      BY <1>3 DEF Asks, n
    <3>2. rxQueue'[n - 1] = <<reg, 0>>
      BY <1>2, <1>6, <1>7, <3>1
    <3> QED
      BY <1>4, <3>2 DEF Asks
  <2>2. OutsAsked => OutsAsked'
    <3> SUFFICES ASSUME OutsAsked, NEW i \in 0 .. Axes - 1
                 PROVE  IF Axes - i <= n - 1 THEN rxQueue'[n - 1 - (Axes - i) + 1] = <<"out", i>>
                        ELSE Holds(i, "out")
      BY <1>1, <1>4 DEF OutsAsked, Holds
    <3>1. IF Axes - i <= n THEN rxQueue[n - (Axes - i) + 1] = <<"out", i>> ELSE Holds(i, "out")
      BY DEF OutsAsked, n
    <3>2. Axes - i \in Nat \ {0}
      BY ImuAssumption
    <3> DEFINE k == Axes - i
    <3> HIDE DEF k
    <3>3. CASE k <= n - 1
      <4>3. k \in Nat \ {0} /\ n \in Nat
        BY <1>4, <3>2 DEF k
      <4>4. n - 1 - k + 1 \in 1 .. n - 1
        BY <3>3, <4>3
      <4>5. n - 1 - k + 1 + 1 = n - k + 1 /\ k <= n
        BY <3>3, <4>3
      <4>1. n - 1 - k + 1 \in 1 .. n - 1 /\ n - 1 - k + 1 + 1 = n - k + 1 /\ k <= n
        BY <4>4, <4>5
      <4>2. rxQueue'[n - 1 - k + 1] = rxQueue[n - k + 1]
        BY <1>5, <4>1
      <4> QED
        BY <3>1, <3>3, <4>1, <4>2 DEF k
    <3>4. CASE k = n
      <4>1. n - k + 1 = 1 /\ k <= n /\ ~(k <= n - 1)
        BY <1>4, <3>4
      <4>2. rxQueue[1] = <<"out", i>>
        BY <3>1, <4>1 DEF k
      <4>3. Head(rxQueue) = <<"out", i>>
        BY <1>4, <4>2
      <4>4. Holds(i, "out")
        BY <1>1, <4>3 DEF TaskInv, Holds
      <4> QED
        BY <4>1, <4>4 DEF k
    <3>5. CASE ~(k <= n - 1) /\ k # n
      <4>1. ~(k <= n)
        BY <1>4, <3>2, <3>5 DEF k
      <4> QED
        BY <3>1, <3>5, <4>1 DEF k
    <3> QED
      BY <3>3, <3>4, <3>5
  <2> QED
    BY <1>1, <2>1, <2>2 DEF AskInv, logicVars
<1> QED
  BY <1>8, <1>9, <1>10

(* When all is read, _buf holds what the state has asked for. *)
LEMMA AllIsRead ==
  ASSUME ImuAssumption, ImuInv, I2CCallback, state = "reading", AllRead(Tail(rxQueue))
  PROVE  /\ logic = "init" /\ initState = "wait_id" => Holds(0, "id")
         /\ logic = "init" /\ initState = "wait_sw_reset" => Holds(0, "ctrl3")
         /\ logic \in Tests /\ testState = "wait_sw_reset" => Holds(0, "ctrl3")
         /\ logic \in Tests /\ testState = "wait_da" => Holds(0, "status")
         /\ logic \in Tests /\ testState = "wait_read_out" => \A i \in 0 .. Axes - 1 : Holds(i, "out")
         /\ logic = "wait_step" => Holds(1, "step_h") /\ LowByteRead
<1> USE DEF ImuInv, Safe
<1>1. task # "no" /\ ~rxDone /\ Tail(rxQueue) = <<>>
  BY CallbackIs DEF AllRead
<1>2. rxQueue \in Seq(Reads) /\ rxQueue # <<>>
  BY DEF TaskInv, TypeInv, ImuTypes, Reads
<1>3. Head(rxQueue) = rxQueue[1] /\ Len(Tail(rxQueue)) = Len(rxQueue) - 1 /\ Len(rxQueue) \in Nat
  BY <1>2, HeadTailProperties
<1>4. Len(rxQueue) = 1
  <2>1. Len(<<>>) = 0
    OBVIOUS
  <2>2. Len(Tail(rxQueue)) = 0
    BY <1>1, <2>1
  <2> QED
    BY <1>3, <2>2
<1>5. buf[Head(rxQueue)[2]].reg = Head(rxQueue)[1]
  BY <1>1 DEF TaskInv
<1>6. \A reg, i : rxQueue[1] = <<reg, i>> => Holds(i, reg)
  BY <1>3, <1>5 DEF Holds
<1>7. \A reg : Asks(reg) => Holds(0, reg)
  BY <1>2, <1>4, <1>6 DEF Asks
<1>8. OutsAsked => \A i \in 0 .. Axes - 1 : Holds(i, "out")
  <2> SUFFICES ASSUME OutsAsked, NEW i \in 0 .. Axes - 1 PROVE Holds(i, "out")
    OBVIOUS
  <2>1. IF Axes - i <= 1 THEN rxQueue[1 - (Axes - i) + 1] = <<"out", i>> ELSE Holds(i, "out")
    BY <1>4 DEF OutsAsked
  <2>2. Axes - i <= 1 => 1 - (Axes - i) + 1 = 1
    BY ImuAssumption
  <2> QED
    BY <1>6, <2>1, <2>2
<1>9. logic = "wait_step" => Holds(1, "step_h") /\ LowByteRead
  <2> SUFFICES ASSUME logic = "wait_step" PROVE Holds(1, "step_h") /\ LowByteRead
    OBVIOUS
  <2>1. rxQueue[1] = <<"step_h", 1>> /\ LowByteRead
    BY <1>4 DEF StepAsked
  <2> QED
    BY <1>6, <2>1
<1> QED
  BY <1>1, <1>7, <1>8, <1>9 DEF AskInv

(* The counter is taken over as it lies between the last value and that of *)
(* the sensor, unless it carried between the reads of its two bytes. *)
LEMMA CountedKeeps ==
  ASSUME ImuAssumption, ImuInv, Holds(1, "step_h"), LowByteRead
  PROVE  /\ Counter \in 0 .. Whole - 1 /\ Increment \in Nat
         /\ ~torn /\ buf[0].val \div B = buf[1].val \div B =>
              /\ step + Increment <= walked
              /\ step + Increment + Ahead(Counter, sensor) <= walked
<1> USE DEF ImuInv, Safe
<1> DEFINE low == buf[0].val
           high == buf[1].val
<1>1. low \in 0 .. Whole - 1 /\ high \in 0 .. Whole - 1
  <2>1. 0 \in 0 .. Axes - 1 /\ 1 \in 0 .. Axes - 1
    BY ImuAssumption
  <2>2. \A i \in 0 .. Axes - 1 : buf[i] \in [reg : Registers \cup {"none"}, val : Nat]
    BY DEF TypeInv, ImuTypes
  <2>3. low \in Nat /\ high \in Nat
    BY <2>1, <2>2
  <2>4. buf[0].reg = "step_l" /\ buf[1].reg = "step_h"
    BY DEF LowByteRead, Holds
  <2>5. low < Whole /\ high < Whole
    BY <2>1, <2>4 DEF TypeInv
  <2> QED
    BY <2>3, <2>5, WholeIsPositive
<1>2. /\ step \in Nat /\ walked \in Nat /\ torn \in BOOLEAN
      /\ lastReg \in 0 .. Whole - 1 /\ sensor \in 0 .. Whole - 1
  BY DEF TypeInv, ImuTypes
<1> HIDE DEF low, high
<1>3. /\ Counter = (low % B) + B * (high \div B)
      /\ Counter \in 0 .. Whole - 1
      /\ low \div B = high \div B => Counter = low
  BY <1>1, CounterIs DEF Counter, low, high
<1>4. (Counter + Whole - lastReg) % Whole = Ahead(lastReg, Counter)
  BY <1>2, <1>3, IncrementIs
<1>5. Ahead(lastReg, Counter) \in Nat /\ Ahead(Counter, sensor) \in Nat
  BY <1>2, <1>3, AheadWalks
<1>6. Increment \in Nat /\ Increment <= Ahead(lastReg, Counter)
  BY <1>4, <1>5, ImuAssumption DEF Increment, Least
<1>7. ASSUME ~torn, low \div B = high \div B
      PROVE  /\ step + Increment <= walked
             /\ step + Increment + Ahead(Counter, sensor) <= walked
  <2>1. Counter = low
    BY <1>3, <1>7
  <2>2. step + Ahead(lastReg, Counter) + Ahead(Counter, sensor) <= walked
    BY <1>7, <2>1 DEF LowByteRead, low
  <2>3. \A s, i, a, b, n \in Nat : i <= a /\ s + a + b <= n => s + i <= n /\ s + i + b <= n
    OBVIOUS
  <2> QED
    BY <1>2, <1>5, <1>6, <2>2, <2>3
<1> QED
  BY <1>3, <1>6, <1>7 DEF low, high

(* Everything has been read. *)
LEMMA RxDoneKeeps ==
  ASSUME ImuAssumption, ImuInv, I2CCallback, state = "reading", AllRead(Tail(rxQueue))
  PROVE  Safe'
<1> USE DEF ImuInv, Safe
<1>1. /\ task' = "no" /\ state' = "idle" /\ transfer' = "none" /\ registered
      /\ UNCHANGED <<buf, sensor, walked>>
      /\ OnRxDone(Tail(rxQueue)) /\ rxDone' = TRUE
      /\ UNCHANGED txQueue
  BY CallbackIs DEF I2CCallback
<1>2. TaskInv' /\ AskInv'
  BY <1>1 DEF TaskInv, AskInv
<1>3. CASE initState = "wait_id" /\ buf[0].val # Lsm
  <2>1. logic' = "init" /\ initState' = "check_id" /\ registered' = FALSE /\ UNCHANGED <<step, torn>>
    BY <1>1, <1>3 DEF OnRxDone, ResetLogic
  <2>2. InitInv' /\ CountInv' /\ StepAsked' /\ StepsAreReal'
    BY <1>1, <2>1 DEF InitInv, CountInv, StepAsked, StepsAreReal
  <2> QED
    BY <1>2, <2>2
<1>4. CASE ~(initState = "wait_id" /\ buf[0].val # Lsm) /\ logic = "wait_step"
  <2>1. initState = "done" /\ LogicNow = "wait_step" /\ InitNext = "done"
    BY <1>4 DEF CountInv, LogicNow, InitNext
  <2>2. /\ logic' = "get_step" /\ initState' = "done"
        /\ step' = step + Increment /\ lastReg' = Counter
        /\ torn' = (torn \/ buf[0].val \div B # buf[1].val \div B)
        /\ registered'
    BY <1>1, <1>4, <2>1 DEF OnRxDone
  <2>3. Holds(1, "step_h") /\ LowByteRead
    BY <1>4, AllIsRead
  <2>4. /\ Counter \in 0 .. Whole - 1
        /\ ~torn' => step + Increment <= walked /\ step + Increment + Ahead(Counter, sensor) <= walked
    BY <2>2, <2>3, CountedKeeps
  <2>5. Ahead(lastReg, sensor)' = Ahead(Counter, sensor)
    BY <1>1, <2>2 DEF Ahead
  <2>6. StepsAreReal'
    BY <1>1, <2>2, <2>4 DEF StepsAreReal
  <2>7. CountInv'
    <3>1. txQueue = <<>>
      BY <1>4 DEF CountInv
    <3>2. ~torn' => (step + Ahead(lastReg, sensor) <= walked)'
      BY <1>1, <2>2, <2>4, <2>5
    <3> QED
      BY <1>1, <2>2, <3>1, <3>2 DEF CountInv
  <2>8. InitInv' /\ StepAsked'
    BY <2>2 DEF InitInv, StepAsked
  <2> QED
    BY <1>2, <2>6, <2>7, <2>8
<1>5. CASE ~(initState = "wait_id" /\ buf[0].val # Lsm) /\ logic # "wait_step"
  <2>1. LogicNow \in {"idle", logic} /\ LogicNow # "wait_step"
    BY <1>5 DEF LogicNow
  <2>2. /\ logic' \in {"idle", logic} /\ initState' = InitNext
        /\ UNCHANGED <<lastReg, step, torn, registered>>
    BY <1>1, <1>5, <2>1 DEF OnRxDone
  <2>3. StepsAreReal' /\ StepAsked'
    BY <1>1, <1>5, <2>2 DEF StepsAreReal, StepAsked
  <2>4. CountInv'
    <3> SUFFICES ASSUME logic' = "get_step" PROVE CountInv'
      BY <1>5, <2>2 DEF CountInv
    <3>1. logic = "get_step" /\ initState = "done" /\ InitNext = "done"
      BY <2>2 DEF CountInv, InitNext
    <3> QED
      BY <1>1, <2>2, <3>1 DEF CountInv, Ahead
  <2>5. InitInv'
    <3>1. \/ InitNext = initState
          \/ initState = "wait_id" /\ InitNext = "sw_reset"
          \/ initState = "wait_sw_reset" /\ InitNext = "reset_steps"
      BY DEF InitNext
    <3> QED
      BY <1>1, <2>2, <3>1 DEF InitInv
  <2> QED
    BY <1>2, <2>3, <2>4, <2>5
<1> QED
  BY <1>3, <1>4, <1>5

LEMMA CallbackKeeps == ImuAssumption /\ ImuInv /\ I2CCallback => Safe'
<1> SUFFICES ASSUME ImuAssumption, ImuInv, I2CCallback PROVE Safe'
  OBVIOUS
<1>1. state \in {"reading", "writing", "init"}
  BY CallbackIs
<1> QED
  BY <1>1, AfterResetKeeps, TxKeeps, PopKeeps, RxDoneKeeps

LEMMA SafeKeeps == ImuAssumption /\ ImuInv /\ [Next]_imuVars => Safe'
<1> SUFFICES ASSUME ImuAssumption, ImuInv, [Next]_imuVars PROVE Safe'
  OBVIOUS
<1>1. CASE Next
  BY <1>1, ServiceKeeps, LogicKeeps, SelfTestKeeps, CallbackKeeps, ReadKeeps, WrittenKeeps,
     ErrorKeeps, WalkKeeps DEF Next
<1>2. CASE UNCHANGED imuVars
  BY <1>2, StillKeeps DEF imuVars, coreVars, serviceVars, halVars, logicVars, bounds
<1> QED
  BY <1>1, <1>2

-----------------------------------------------------------------------------
(* The types.                                                              *)

(* ImuTypes, part by part. *)
ServiceTypes ==
  /\ state \in {"init", "poweroff", "poweron", "idle", "reading", "writing"}
  /\ waited \in 0 .. ServiceStuck /\ busyCnt \in 0 .. BusyLimit
  /\ rxDone \in BOOLEAN /\ txDone \in BOOLEAN
  /\ registered \in BOOLEAN /\ transfer \in {"none", "going", "hung"}

QueueTypes == rxQueue \in Seq(Reads) /\ txQueue \in Seq(Writes)

LogicTypes ==
  /\ logic \in {"init", "idle", "get_step", "wait_step"} \cup Tests
  /\ initState \in {"check_id", "wait_id", "sw_reset", "wait_sw_reset", "reset_steps",
                    "wait_reset_steps", "configure", "wait_configure", "done"}
  /\ testState \in {"sw_reset", "wait_sw_reset", "configure", "wait_configure", "wait",
                    "wait_more", "check_da", "wait_da", "read_out", "wait_read_out",
                    "enable", "wait_enable", "verify", "done"}
  /\ count \in 0 .. 2 * Measures /\ (testState \notin {"verify", "done"} => count < 2 * Measures)
  /\ lastReg \in 0 .. Whole - 1 /\ step \in Nat /\ torn \in BOOLEAN

LoopTypes ==
  /\ task \in {"no", "queued", "overdue"}
  /\ lastState \in {"init", "get_step", "wait_step"} \cup Tests
  /\ stuck \in 0 .. LogicStuck /\ turns \in 0 .. MaxTurns
  /\ owed \in BOOLEAN

SensorTypes ==
  /\ buf \in [0 .. Axes - 1 -> [reg : Registers \cup {"none"}, val : Nat]]
  /\ \A i \in 0 .. Axes - 1 : buf[i].reg \in {"step_l", "step_h"} => buf[i].val < Whole
  /\ sensor \in 0 .. Whole - 1

BoundTypes == {walked, faults, tests} \subseteq 0 .. MaxEvents /\ piled \in 0 .. MaxPiled

LEMMA TypeParts ==
  TypeInv <=> ServiceTypes /\ QueueTypes /\ LogicTypes /\ LoopTypes /\ SensorTypes /\ BoundTypes
BY DEF TypeInv, ImuTypes, ServiceTypes, QueueTypes, LogicTypes, LoopTypes, SensorTypes,
       BoundTypes, Reads, Writes, Tests

LEMMA TypePartsAfter ==
  ServiceTypes' /\ QueueTypes' /\ LogicTypes' /\ LoopTypes' /\ SensorTypes' /\ BoundTypes' => TypeInv'
BY DEF TypeInv, ImuTypes, ServiceTypes, QueueTypes, LogicTypes, LoopTypes, SensorTypes,
       BoundTypes, Reads, Writes, Tests

LEMMA EventFits ==
  ASSUME ImuAssumption, BoundTypes, EventLeft
  PROVE  {walked + 1, faults + 1, tests + 1} \subseteq 0 .. MaxEvents
BY DEF ImuAssumption, BoundTypes, EventLeft

(* A reset keeps the types; so does what leaves all alone. *)
LEMMA ResetFits ==
  ServiceTypes /\ QueueTypes /\ LogicTypes /\ ResetAll /\ UNCHANGED <<waited, busyCnt, torn>>
    => ServiceTypes' /\ QueueTypes' /\ LogicTypes'
<1> SUFFICES ASSUME ServiceTypes, QueueTypes, LogicTypes, ResetAll, UNCHANGED <<waited, busyCnt, torn>>
             PROVE  ServiceTypes' /\ QueueTypes' /\ LogicTypes'
  OBVIOUS
<1>1. ServiceTypes'
  BY DEF ServiceTypes, ResetAll, ResetI2C
<1>2. QueueTypes'
  BY DEF QueueTypes, ResetAll
<1>3. LogicTypes'
  BY DEF LogicTypes, ResetAll, ResetLogic
<1> QED
  BY <1>1, <1>2, <1>3

LEMMA StillFits ==
  /\ ServiceTypes /\ UNCHANGED <<state, rxDone, txDone, waited, busyCnt, halVars>> => ServiceTypes'
  /\ QueueTypes /\ UNCHANGED <<rxQueue, txQueue>> => QueueTypes'
  /\ LogicTypes /\ UNCHANGED <<logicVars, torn>> => LogicTypes'
  /\ SensorTypes /\ UNCHANGED <<buf, sensor>> => SensorTypes'
<1>1. ServiceTypes /\ UNCHANGED <<state, rxDone, txDone, waited, busyCnt, halVars>> => ServiceTypes'
  BY DEF ServiceTypes, halVars
<1>2. QueueTypes /\ UNCHANGED <<rxQueue, txQueue>> => QueueTypes'
  BY DEF QueueTypes
<1>3. LogicTypes /\ UNCHANGED <<logicVars, torn>> => LogicTypes'
  BY DEF LogicTypes, logicVars
<1>4. SensorTypes /\ UNCHANGED <<buf, sensor>> => SensorTypes'
  BY DEF SensorTypes
<1> QED
  BY <1>1, <1>2, <1>3, <1>4

LEMMA ServiceFits == ImuAssumption /\ TypeInv /\ ServiceRoutine => TypeInv'
<1> SUFFICES ASSUME ImuAssumption, TypeInv, ServiceRoutine PROVE TypeInv'
  OBVIOUS
<1>1. ServiceTypes /\ QueueTypes /\ LogicTypes /\ LoopTypes /\ SensorTypes /\ BoundTypes
  BY TypeParts
<1>2. Turn /\ turns < MaxTurns /\ turns' = turns + 1 /\ UNCHANGED <<buf, loopVars, torn, walked, tests, piled>>
  BY DEF ServiceRoutine
<1>3. owed' \in {FALSE, owed} /\ sensor' \in {0, sensor}
  BY DEF ServiceRoutine, Prepare, PowerOn, Await, Begin, BusIsBusy, NothingQueued
<1>4. LoopTypes'
  <2>1. task' \in {"no", "queued", "overdue"}
    BY <1>1, <1>2 DEF LoopTypes, Turn
  <2>2. turns' \in 0 .. MaxTurns
    BY <1>1, <1>2, ImuAssumption DEF LoopTypes
  <2>3. owed' \in BOOLEAN
    BY <1>1, <1>3 DEF LoopTypes
  <2> QED
    BY <1>1, <1>2, <2>1, <2>2, <2>3 DEF LoopTypes, loopVars
<1>5. SensorTypes'
  <2>1. sensor' \in 0 .. Whole - 1
    BY <1>1, <1>3, WholeIsPositive DEF SensorTypes
  <2> QED
    BY <1>1, <1>2, <2>1 DEF SensorTypes
<1>6. BoundTypes'
  <2>1. faults' = faults \/ (EventLeft /\ faults' = faults + 1)
    BY DEF ServiceRoutine, Prepare, PowerOn, Await, Begin, BusIsBusy, NothingQueued, Fault
  <2> QED
    BY <1>1, <1>2, <2>1, EventFits DEF BoundTypes
<1>7. ServiceTypes' /\ QueueTypes' /\ LogicTypes'
  <2>1. CASE Prepare
    <3>1. ServiceTypes'
      BY <1>1, <2>1 DEF Prepare, ServiceTypes
    <3>2. QueueTypes'
      BY <1>1, <2>1 DEF Prepare, QueueTypes
    <3>3. LogicTypes'
      BY <1>1, <1>2, <2>1, StillFits DEF Prepare
    <3> QED
      BY <3>1, <3>2, <3>3
  <2>2. CASE PowerOn
    <3>1. ServiceTypes'
      BY <1>1, <2>2 DEF PowerOn, ServiceTypes, halVars
    <3> QED
      BY <1>1, <1>2, <2>2, <3>1, StillFits DEF PowerOn
  <2>3. CASE Await
    <3>1. CASE TooLong
      BY <1>1, <1>2, <2>3, <3>1, ResetFits DEF Await
    <3>2. CASE ~TooLong
      <4>1. waited' \in 0 .. ServiceStuck
        BY <1>1, <2>3, <3>2, ImuAssumption DEF Await, TooLong, ServiceTypes
      <4>2. ServiceTypes'
        BY <1>1, <2>3, <3>2, <4>1 DEF Await, ServiceTypes, halVars
      <4> QED
        BY <1>1, <1>2, <2>3, <3>2, <4>2, StillFits DEF Await
    <3> QED
      BY <3>1, <3>2
  <2>4. CASE Begin
    <3>1. busyCnt' = 0 /\ 0 \in 0 .. BusyLimit /\ 0 \in 0 .. ServiceStuck
      BY <2>4, ImuAssumption DEF Begin
    <3>2. CASE ResetAll /\ UNCHANGED waited
      <4>1. ServiceTypes'
        BY <1>1, <3>1, <3>2 DEF ServiceTypes, ResetAll, ResetI2C
      <4>2. QueueTypes'
        BY <1>1, <3>2 DEF QueueTypes, ResetAll
      <4>3. LogicTypes'
        BY <1>1, <1>2, <3>2 DEF LogicTypes, ResetAll, ResetLogic
      <4> QED
        BY <4>1, <4>2, <4>3
    <3>3. CASE ~(ResetAll /\ UNCHANGED waited)
      <4>1. /\ state' \in {"writing", "reading"} /\ transfer' = "going" /\ waited' = 0
            /\ UNCHANGED <<rxQueue, txQueue, rxDone, txDone, registered, logicVars>>
        BY <2>4, <3>3 DEF Begin
      <4>2. ServiceTypes'
        BY <1>1, <3>1, <4>1 DEF ServiceTypes
      <4> QED
        BY <1>1, <1>2, <4>1, <4>2, StillFits
    <3> QED
      BY <3>2, <3>3
  <2>5. CASE BusIsBusy
    <3>1. CASE busyCnt + 1 >= BusyLimit
      <4>1. ResetAll /\ busyCnt' = 0 /\ 0 \in 0 .. BusyLimit /\ UNCHANGED waited
        BY <2>5, <3>1, ImuAssumption DEF BusIsBusy
      <4>2. ServiceTypes'
        BY <1>1, <4>1 DEF ServiceTypes, ResetAll, ResetI2C
      <4>3. QueueTypes'
        BY <1>1, <4>1 DEF QueueTypes, ResetAll
      <4>4. LogicTypes'
        BY <1>1, <1>2, <4>1 DEF LogicTypes, ResetAll, ResetLogic
      <4> QED
        BY <4>2, <4>3, <4>4
    <3>2. CASE ~(busyCnt + 1 >= BusyLimit)
      <4>1. busyCnt' \in 0 .. BusyLimit
        BY <1>1, <2>5, <3>2, ImuAssumption DEF BusIsBusy, ServiceTypes
      <4>2. ServiceTypes'
        BY <1>1, <2>5, <3>2, <4>1 DEF BusIsBusy, ServiceTypes, halVars
      <4> QED
        BY <1>1, <1>2, <2>5, <3>2, <4>2, StillFits DEF BusIsBusy
    <3> QED
      BY <3>1, <3>2
  <2>6. CASE NothingQueued
    BY <1>1, <1>2, <2>6, StillFits DEF NothingQueued, serviceVars
  <2> QED
    BY <2>1, <2>2, <2>3, <2>4, <2>5, <2>6 DEF ServiceRoutine
<1> QED
  BY <1>4, <1>5, <1>6, <1>7, TypePartsAfter

LEMMA WriteFits ==
  ASSUME QueueTypes, NEW r \in Writes, NEW s \in Writes
  PROVE  txQueue \o <<r>> \in Seq(Writes) /\ txQueue \o <<r, s>> \in Seq(Writes)
BY DEF QueueTypes

LEMMA InitStepFits ==
  ASSUME ImuAssumption, TypeInv, InitStep, UNCHANGED step, UNCHANGED torn
  PROVE  QueueTypes' /\ LogicTypes' /\ rxDone' \in BOOLEAN /\ txDone' \in BOOLEAN /\ owed' \in BOOLEAN
<1>1. ServiceTypes /\ QueueTypes /\ LogicTypes /\ LoopTypes
  BY TypeParts
<1>2. lastReg' \in 0 .. Whole - 1
  BY <1>1, WholeIsPositive DEF InitStep, LastAfter, LogicTypes
<1>3. LogicTypes'
  BY <1>1, <1>2 DEF InitStep, LogicTypes
<1>4. rxDone' \in BOOLEAN /\ txDone' \in BOOLEAN /\ owed' \in BOOLEAN
  BY <1>1 DEF InitStep, Read, Write, NoRead, NoWrite, ServiceTypes, LoopTypes
<1>5. rxQueue' \in Seq(Reads)
  <2>1. 0 \in 0 .. Axes - 1
    BY ImuAssumption
  <2>2. <<"id", 0>> \in Reads /\ <<"ctrl3", 0>> \in Reads
    BY <2>1 DEF Reads, Registers
  <2>3. rxQueue \o << <<"id", 0>> >> \in Seq(Reads) /\ rxQueue \o << <<"ctrl3", 0>> >> \in Seq(Reads)
    BY <1>1, <2>2, AsksLast DEF QueueTypes
  <2>4. \/ rxQueue' = rxQueue \o << <<"id", 0>> >>
        \/ rxQueue' = rxQueue \o << <<"ctrl3", 0>> >>
        \/ rxQueue' = rxQueue
    BY DEF InitStep, Read, NoRead
  <2> QED
    BY <1>1, <2>3, <2>4 DEF QueueTypes
<1>6. txQueue' \in Seq(Writes)
  <2>1. \/ txQueue' = txQueue \o <<"sw_reset">>
        \/ txQueue' = txQueue \o <<"reset_steps", "config">>
        \/ txQueue' = txQueue \o <<"config", "config">>
        \/ txQueue' = txQueue
    BY DEF InitStep, Write, NoWrite
  <2>2. "sw_reset" \in Writes /\ "reset_steps" \in Writes /\ "config" \in Writes
    BY DEF Writes
  <2>3. /\ txQueue \o <<"sw_reset">> \in Seq(Writes)
        /\ txQueue \o <<"reset_steps", "config">> \in Seq(Writes)
        /\ txQueue \o <<"config", "config">> \in Seq(Writes)
    BY <1>1, <2>2, WriteFits
  <2> QED
    BY <1>1, <2>1, <2>3 DEF QueueTypes
<1> QED
  BY <1>3, <1>4, <1>5, <1>6 DEF QueueTypes

LEMMA TestStepFits ==
  ASSUME ImuAssumption, TypeInv, logic \in Tests, TestStep, UNCHANGED step, UNCHANGED torn
  PROVE  QueueTypes' /\ LogicTypes' /\ rxDone' \in BOOLEAN /\ txDone' \in BOOLEAN /\ owed' \in BOOLEAN
<1>1. ServiceTypes /\ QueueTypes /\ LogicTypes /\ LoopTypes
  BY TypeParts
<1>2. /\ count' = count /\ (testState' \notin {"verify", "done"} => testState \notin {"verify", "done"})
      \/ count' = 0
  BY DEF TestStep
<1>3. count' \in 0 .. 2 * Measures /\ (testState' \notin {"verify", "done"} => count' < 2 * Measures)
  <2>1. 0 \in 0 .. 2 * Measures /\ 0 < 2 * Measures
    BY ImuAssumption
  <2> QED
    BY <1>1, <1>2, <2>1 DEF LogicTypes
<1>4. /\ logic' \in {"init", "idle", "get_step", "wait_step"} \cup Tests
      /\ testState' \in {"sw_reset", "wait_sw_reset", "configure", "wait_configure", "wait",
                         "wait_more", "check_da", "wait_da", "read_out", "wait_read_out",
                         "enable", "wait_enable", "verify", "done"}
  BY <1>1 DEF TestStep, LogicTypes, Tests
<1>5. LogicTypes'
  BY <1>1, <1>3, <1>4 DEF TestStep, LogicTypes
<1>6. rxDone' \in BOOLEAN /\ txDone' \in BOOLEAN /\ owed' \in BOOLEAN
  BY <1>1 DEF TestStep, Read, Write, NoRead, NoWrite, ServiceTypes, LoopTypes
<1>7. rxQueue' \in Seq(Reads)
  <2>1. 0 \in 0 .. Axes - 1
    BY ImuAssumption
  <2>2. <<"status", 0>> \in Reads /\ <<"ctrl3", 0>> \in Reads
    BY <2>1 DEF Reads, Registers
  <2>3. rxQueue \o << <<"status", 0>> >> \in Seq(Reads) /\ rxQueue \o << <<"ctrl3", 0>> >> \in Seq(Reads)
    BY <1>1, <2>2, AsksLast DEF QueueTypes
  <2>4. rxQueue \o Outs \in Seq(Reads)
    BY <1>1, OutsLast DEF QueueTypes
  <2>5. \/ rxQueue' = rxQueue \o << <<"status", 0>> >>
        \/ rxQueue' = rxQueue \o << <<"ctrl3", 0>> >>
        \/ rxQueue' = rxQueue \o Outs
        \/ rxQueue' = rxQueue
    BY DEF TestStep, Read, NoRead
  <2> QED
    BY <1>1, <2>3, <2>4, <2>5 DEF QueueTypes
<1>8. txQueue' \in Seq(Writes)
  <2>1. \/ txQueue' = txQueue \o <<"sw_reset">>
        \/ txQueue' = txQueue \o <<"config">>
        \/ txQueue' = txQueue \o <<"config", "config">>
        \/ txQueue' = txQueue
    BY DEF TestStep, Write, NoWrite
  <2>2. "sw_reset" \in Writes /\ "config" \in Writes
    BY DEF Writes
  <2>3. /\ txQueue \o <<"sw_reset">> \in Seq(Writes)
        /\ txQueue \o <<"config">> \in Seq(Writes)
        /\ txQueue \o <<"config", "config">> \in Seq(Writes)
    BY <1>1, <2>2, WriteFits
  <2> QED
    BY <1>1, <2>1, <2>3 DEF QueueTypes
<1> QED
  BY <1>5, <1>6, <1>7, <1>8 DEF QueueTypes

LEMMA GetStepFits ==
  ASSUME ImuAssumption, TypeInv, GetStep, UNCHANGED step, UNCHANGED torn
  PROVE  QueueTypes' /\ LogicTypes' /\ rxDone' \in BOOLEAN /\ txDone' \in BOOLEAN /\ owed' \in BOOLEAN
<1>1. ServiceTypes /\ QueueTypes /\ LogicTypes /\ LoopTypes
  BY TypeParts
<1>2. LogicTypes'
  BY <1>1 DEF GetStep, LogicTypes
<1>3. rxDone' \in BOOLEAN /\ txDone' \in BOOLEAN /\ owed' \in BOOLEAN
  BY <1>1 DEF GetStep, Read, NoWrite, ServiceTypes
<1>4. QueueTypes'
  <2>1. 0 \in 0 .. Axes - 1 /\ 1 \in 0 .. Axes - 1
    BY ImuAssumption
  <2>2. << <<"step_l", 0>>, <<"step_h", 1>> >> \in Seq(Reads)
    BY <2>1 DEF Reads, Registers
  <2>3. rxQueue \o << <<"step_l", 0>>, <<"step_h", 1>> >> \in Seq(Reads)
    BY <1>1, <2>2, EndOfQueue DEF QueueTypes
  <2> QED
    BY <1>1, <2>3 DEF GetStep, Read, NoWrite, QueueTypes
<1> QED
  BY <1>2, <1>3, <1>4

LEMMA LogicFits == ImuAssumption /\ TypeInv /\ LogicRoutine => TypeInv'
<1> SUFFICES ASSUME ImuAssumption, TypeInv, LogicRoutine PROVE TypeInv'
  OBVIOUS
<1>1. ServiceTypes /\ QueueTypes /\ LogicTypes /\ LoopTypes /\ SensorTypes /\ BoundTypes
  BY TypeParts
<1>2. Turn /\ turns' = 0 /\ UNCHANGED <<buf, sensor, torn, bounds>>
  BY DEF LogicRoutine
<1>3. SensorTypes' /\ BoundTypes'
  BY <1>1, <1>2, StillFits DEF BoundTypes, bounds
<1>4. lastState' \in {"init", "get_step", "wait_step"} \cup Tests
  BY <1>1 DEF LogicRoutine, loopVars, LoopTypes, LogicTypes
<1>5. stuck' \in 0 .. LogicStuck
  <2>1. ~TooOften => Runs \in 0 .. LogicStuck
    BY <1>1, ImuAssumption DEF TooOften, Runs, LoopTypes
  <2>2. 0 \in 0 .. LogicStuck
    BY ImuAssumption
  <2>3. stuck' = 0 \/ stuck' = stuck \/ (~TooOften /\ stuck' = Runs)
    BY DEF LogicRoutine, loopVars
  <2> QED
    BY <1>1, <2>1, <2>2, <2>3 DEF LoopTypes
<1>6. task' \in {"no", "queued", "overdue"} /\ turns' \in 0 .. MaxTurns
  <2>1. task' \in {"no", "queued", "overdue"}
    BY <1>1, <1>2 DEF LoopTypes, Turn
  <2>2. turns' \in 0 .. MaxTurns
    BY <1>2, ImuAssumption
  <2> QED
    BY <2>1, <2>2
<1>7. CASE UNCHANGED <<serviceVars, halVars, logicVars, owed>>
  <2>1. LoopTypes'
    BY <1>1, <1>4, <1>5, <1>6, <1>7 DEF LoopTypes
  <2> QED
    BY <1>1, <1>2, <1>3, <1>7, <2>1, StillFits, TypePartsAfter DEF serviceVars
<1>8. CASE ResetAll /\ UNCHANGED <<waited, busyCnt, owed>>
  <2>1. LoopTypes'
    BY <1>1, <1>4, <1>5, <1>6, <1>8 DEF LoopTypes
  <2> QED
    BY <1>1, <1>2, <1>3, <1>8, <2>1, ResetFits, TypePartsAfter
<1>9. CASE ~UNCHANGED <<serviceVars, halVars, logicVars, owed>>
           /\ ~(ResetAll /\ UNCHANGED <<waited, busyCnt, owed>>)
  <2>1. /\ \/ logic = "init" /\ InitStep
           \/ logic \in Tests /\ TestStep
           \/ logic = "get_step" /\ GetStep
        /\ UNCHANGED <<state, waited, busyCnt, halVars, step>>
    BY <1>9 DEF LogicRoutine
  <2>2. QueueTypes' /\ LogicTypes' /\ rxDone' \in BOOLEAN /\ txDone' \in BOOLEAN /\ owed' \in BOOLEAN
    BY <1>2, <2>1, InitStepFits, TestStepFits, GetStepFits
  <2>3. LoopTypes'
    BY <1>4, <1>5, <1>6, <2>2 DEF LoopTypes
  <2>4. ServiceTypes'
    BY <1>1, <2>1, <2>2 DEF ServiceTypes, halVars
  <2> QED
    BY <1>3, <2>2, <2>3, <2>4, TypePartsAfter
<1> QED
  BY <1>7, <1>8, <1>9

LEMMA SelfTestFits == ImuAssumption /\ TypeInv /\ GyroSelfTest => TypeInv'
<1> SUFFICES ASSUME ImuAssumption, TypeInv, GyroSelfTest PROVE TypeInv'
  OBVIOUS
<1>1. ServiceTypes /\ QueueTypes /\ LogicTypes /\ LoopTypes /\ SensorTypes /\ BoundTypes
  BY TypeParts
<1>2. /\ logic' = "st_gyro" /\ testState' = "sw_reset" /\ count' = 0
      /\ EventLeft /\ tests' = tests + 1
      /\ piled' = 1 \/ piled' = piled + 1
      /\ piled' <= MaxPiled
      /\ UNCHANGED <<serviceVars, halVars, task, initState, lastReg, step, buf, loopVars, turns,
                     sensor, torn, owed, walked, faults>>
  BY DEF GyroSelfTest
<1>3. ServiceTypes' /\ QueueTypes' /\ SensorTypes'
  BY <1>1, <1>2, StillFits DEF serviceVars
<1>4. LoopTypes'
  BY <1>1, <1>2 DEF LoopTypes, loopVars
<1>5. BoundTypes'
  <2>1. piled' \in 0 .. MaxPiled
    BY <1>1, <1>2, ImuAssumption DEF BoundTypes
  <2> QED
    BY <1>1, <1>2, <2>1, EventFits DEF BoundTypes
<1>6. LogicTypes'
  <2>1. 0 \in 0 .. 2 * Measures /\ 0 < 2 * Measures
    BY ImuAssumption
  <2> QED
    BY <1>1, <1>2, <2>1 DEF LogicTypes, Tests
<1> QED
  BY <1>3, <1>4, <1>5, <1>6, TypePartsAfter

LEMMA CompleteFits == ImuAssumption /\ ImuInv /\ Complete => TypeInv'
<1> SUFFICES ASSUME ImuAssumption, ImuInv, Complete PROVE TypeInv'
  OBVIOUS
<1>1. ServiceTypes /\ QueueTypes /\ LogicTypes /\ LoopTypes /\ SensorTypes /\ BoundTypes
  BY TypeParts DEF ImuInv
<1>2. /\ transfer' = "none" /\ task' \in {"queued", task}
      /\ UNCHANGED <<serviceVars, registered, logicVars, loopVars, turns, torn, owed, walked, tests, piled>>
  BY DEF Complete
<1>3. ServiceTypes' /\ QueueTypes' /\ LogicTypes'
  <2>1. ServiceTypes'
    BY <1>1, <1>2 DEF ServiceTypes, serviceVars
  <2> QED
    BY <1>1, <1>2, <2>1, StillFits DEF serviceVars
<1>4. LoopTypes'
  BY <1>1, <1>2 DEF LoopTypes, loopVars
<1>5. BoundTypes'
  <2>1. faults' = faults \/ (EventLeft /\ faults' = faults + 1)
    BY DEF Complete, Fault
  <2> QED
    BY <1>1, <1>2, <2>1, EventFits DEF BoundTypes
<1>6. SensorTypes'
  <2>1. CASE state = "reading"
    <3> DEFINE reg == Head(rxQueue)[1]
               place == Head(rxQueue)[2]
    <3>1. UNCHANGED sensor
      BY <2>1 DEF Complete
    <3>2. PICK val \in Answers(reg) : buf' = [buf EXCEPT ![place] = [reg |-> reg, val |-> val]]
      BY <2>1 DEF Complete
    <3>3. reg \in Registers
      <4>1. rxQueue # <<>>
        BY <2>1 DEF ImuInv, Safe, TaskInv
      <4>2. Head(rxQueue) \in Reads
        BY <1>1, <4>1, HeadTailProperties DEF QueueTypes
      <4> QED
        BY <4>2 DEF Reads
    <3> HIDE DEF reg, place
    <3>4. val \in Nat /\ (reg \in {"step_l", "step_h"} => val < Whole)
      BY <1>1, <3>3, WholeIsPositive DEF Answers, Registers, Lsm, SensorTypes
    <3>5. [reg |-> reg, val |-> val] \in [reg : Registers \cup {"none"}, val : Nat]
      BY <3>3, <3>4
    <3>6. buf' \in [0 .. Axes - 1 -> [reg : Registers \cup {"none"}, val : Nat]]
      BY <1>1, <3>2, <3>5 DEF SensorTypes
    <3>7. ASSUME NEW i \in 0 .. Axes - 1, buf'[i].reg \in {"step_l", "step_h"}
          PROVE  buf'[i].val < Whole
      <4>1. DOMAIN buf = 0 .. Axes - 1
        BY <1>1 DEF SensorTypes
      <4>2. buf'[i] = IF i = place THEN [reg |-> reg, val |-> val] ELSE buf[i]
        BY <3>2, <4>1
      <4>3. CASE i = place
        BY <3>4, <3>7, <4>2, <4>3
      <4>4. CASE i # place
        BY <1>1, <3>7, <4>2, <4>4 DEF SensorTypes
      <4> QED
        BY <4>3, <4>4
    <3> QED
      BY <1>1, <3>1, <3>6, <3>7 DEF SensorTypes
  <2>2. CASE state # "reading"
    <3>1. UNCHANGED buf /\ sensor' \in {0, sensor}
      BY <2>2 DEF Complete
    <3>2. sensor' \in 0 .. Whole - 1
      BY <1>1, <3>1, WholeIsPositive DEF SensorTypes
    <3> QED
      BY <1>1, <3>1, <3>2 DEF SensorTypes
  <2> QED
    BY <2>1, <2>2
<1> QED
  BY <1>3, <1>4, <1>5, <1>6, TypePartsAfter

LEMMA BusFits == ImuAssumption /\ TypeInv /\ (Error \/ Hang \/ Walk) => TypeInv'
<1> SUFFICES ASSUME ImuAssumption, TypeInv, Error \/ Hang \/ Walk PROVE TypeInv'
  OBVIOUS
<1>1. ServiceTypes /\ QueueTypes /\ LogicTypes /\ LoopTypes /\ SensorTypes /\ BoundTypes
  BY TypeParts
<1>2. CASE Error
  <2>1. LoopTypes' /\ SensorTypes'
    BY <1>1, <1>2, StillFits DEF Error, LoopTypes, loopVars
  <2>2. BoundTypes'
    BY <1>1, <1>2, EventFits DEF Error, Fault, BoundTypes
  <2>3. UNCHANGED <<waited, busyCnt, torn>>
    BY <1>2 DEF Error
  <2>4. CASE ResetAll
    BY <1>1, <2>1, <2>2, <2>3, <2>4, ResetFits, TypePartsAfter
  <2>5. CASE ~ResetAll
    <3>1. /\ transfer' = "none"
          /\ UNCHANGED <<state, rxQueue, txQueue, rxDone, txDone, registered, logicVars>>
      BY <1>2, <2>5 DEF Error
    <3>2. ServiceTypes'
      BY <1>1, <2>3, <3>1 DEF ServiceTypes
    <3> QED
      BY <1>1, <2>1, <2>2, <2>3, <3>1, <3>2, StillFits, TypePartsAfter
  <2> QED
    BY <2>4, <2>5
<1>3. CASE Hang
  <2>1. LoopTypes' /\ SensorTypes'
    BY <1>1, <1>3, StillFits DEF Hang, LoopTypes, loopVars
  <2>2. BoundTypes'
    BY <1>1, <1>3, EventFits DEF Hang, Fault, BoundTypes
  <2>3. ServiceTypes'
    BY <1>1, <1>3 DEF Hang, ServiceTypes, serviceVars
  <2>4. QueueTypes' /\ LogicTypes'
    BY <1>1, <1>3, StillFits DEF Hang, serviceVars
  <2> QED
    BY <2>1, <2>2, <2>3, <2>4, TypePartsAfter
<1>4. CASE Walk
  <2>1. LoopTypes'
    BY <1>1, <1>4 DEF Walk, LoopTypes, loopVars
  <2>2. BoundTypes'
    BY <1>1, <1>4, EventFits DEF Walk, BoundTypes
  <2>3. SensorTypes'
    <3>1. sensor' \in 0 .. Whole - 1
      BY <1>1, <1>4, AheadWalks DEF Walk, SensorTypes
    <3> QED
      BY <1>1, <1>4, <3>1 DEF Walk, SensorTypes
  <2>4. ServiceTypes' /\ QueueTypes' /\ LogicTypes'
    BY <1>1, <1>4, StillFits DEF Walk, serviceVars
  <2> QED
    BY <2>1, <2>2, <2>3, <2>4, TypePartsAfter
<1> QED
  BY <1>2, <1>3, <1>4

LEMMA RxDoneFits ==
  ASSUME ImuAssumption, ImuInv, I2CCallback, state = "reading", AllRead(Tail(rxQueue))
  PROVE  QueueTypes' /\ LogicTypes' /\ owed' \in BOOLEAN /\ registered' \in BOOLEAN
<1>1. ServiceTypes /\ QueueTypes /\ LogicTypes /\ LoopTypes /\ SensorTypes /\ BoundTypes
  BY TypeParts DEF ImuInv
<1>2. OnRxDone(Tail(rxQueue)) /\ UNCHANGED txQueue
  BY DEF I2CCallback
<1>3. owed' \in BOOLEAN
  BY <1>2 DEF OnRxDone
<1>4. registered' \in BOOLEAN
  BY <1>1, <1>2 DEF OnRxDone, ServiceTypes
<1>5. Tail(rxQueue) = <<>>
  BY DEF AllRead
<1>6. CASE initState = "wait_id" /\ buf[0].val # Lsm
  <2>1. rxQueue' = <<>> /\ ResetLogic /\ UNCHANGED <<testState, count, lastReg, step, torn>>
    BY <1>2, <1>5, <1>6 DEF OnRxDone
  <2>2. QueueTypes'
    BY <1>1, <1>2, <2>1 DEF QueueTypes
  <2>3. LogicTypes'
    BY <1>1, <2>1 DEF LogicTypes, ResetLogic
  <2> QED
    BY <1>3, <1>4, <2>2, <2>3
<1>7. CASE ~(initState = "wait_id" /\ buf[0].val # Lsm)
  <2>1. /\ initState' = InitNext /\ testState' = TestNext
        /\ count' = IF testState = "wait_read_out" THEN count + 1 ELSE count
        /\ rxQueue' = Tail(rxQueue) \o InitAgain \o TestAgain
    BY <1>2, <1>7 DEF OnRxDone
  <2>2. QueueTypes'
    <3>1. 0 \in 0 .. Axes - 1
      BY ImuAssumption
    <3>2. <<"status", 0>> \in Reads /\ <<"ctrl3", 0>> \in Reads
      BY <3>1 DEF Reads, Registers
    <3>3. InitAgain \in Seq(Reads) /\ TestAgain \in Seq(Reads) /\ Tail(rxQueue) \in Seq(Reads)
      <4>1. /\ <<>> \in Seq(Reads) /\ << <<"status", 0>> >> \in Seq(Reads)
            /\ << <<"ctrl3", 0>> >> \in Seq(Reads)
        BY <3>2
      <4>2. InitAgain = << <<"ctrl3", 0>> >> \/ InitAgain = <<>>
        BY DEF InitAgain
      <4>3. TestAgain = << <<"ctrl3", 0>> >> \/ TestAgain = << <<"status", 0>> >> \/ TestAgain = <<>>
        BY DEF TestAgain
      <4> QED
        BY <1>5, <4>1, <4>2, <4>3
    <3>4. Tail(rxQueue) \o InitAgain \in Seq(Reads)
      BY <3>3, EndOfQueue
    <3>5. Tail(rxQueue) \o InitAgain \o TestAgain \in Seq(Reads)
      BY <3>3, <3>4, EndOfQueue
    <3> QED
      BY <1>1, <1>2, <2>1, <3>5 DEF QueueTypes
  <2>3. count' \in 0 .. 2 * Measures /\ (testState' \notin {"verify", "done"} => count' < 2 * Measures)
    <3>1. count \in 0 .. 2 * Measures /\ (testState \notin {"verify", "done"} => count < 2 * Measures)
      BY <1>1 DEF LogicTypes
    <3>2. CASE testState = "wait_read_out"
      <4>1. count' = count + 1 /\ count < 2 * Measures /\ Measures \in Nat \ {0}
        BY <2>1, <3>1, <3>2, ImuAssumption
      <4>2. count + 1 = 2 * Measures => TestNext = "verify"
        <5>1. count + 1 = 2 * Measures => count + 1 # Measures
          BY <3>1, <4>1
        <5> QED
          BY <3>2, <5>1 DEF TestNext
      <4> QED
        BY <2>1, <3>1, <4>1, <4>2
    <3>3. CASE testState # "wait_read_out"
      <4>1. TestNext \notin {"verify", "done"} => testState \notin {"verify", "done"}
        BY <3>3 DEF TestNext
      <4> QED
        BY <2>1, <3>1, <3>3, <4>1
    <3> QED
      BY <3>2, <3>3
  <2>4. /\ InitNext \in {initState, "sw_reset", "reset_steps"}
        /\ TestNext \in {testState, "configure", "read_out", "enable", "verify", "check_da"}
        /\ LogicNow \in {logic, "idle"}
    BY DEF InitNext, TestNext, LogicNow
  <2>5. lastReg' \in 0 .. Whole - 1 /\ step' \in Nat /\ torn' \in BOOLEAN
        /\ logic' \in {logic, "idle", "get_step"}
    <3>1. CASE LogicNow = "wait_step"
      <4>1. /\ step' = step + Increment /\ lastReg' = Counter /\ logic' = "get_step"
            /\ torn' = (torn \/ buf[0].val \div B # buf[1].val \div B)
        BY <1>2, <1>7, <3>1 DEF OnRxDone
      <4>2. logic = "wait_step"
        BY <3>1 DEF LogicNow
      <4>3. Counter \in 0 .. Whole - 1 /\ Increment \in Nat
        BY <4>2, AllIsRead, CountedKeeps
      <4>4. torn' \in BOOLEAN
        BY <4>1
      <4> QED
        BY <1>1, <4>1, <4>3, <4>4 DEF LogicTypes
    <3>2. CASE LogicNow # "wait_step"
      <4>1. logic' = LogicNow /\ UNCHANGED <<lastReg, step, torn>>
        BY <1>2, <1>7, <3>2 DEF OnRxDone
      <4> QED
        BY <1>1, <2>4, <4>1 DEF LogicTypes
    <3> QED
      BY <3>1, <3>2
  <2>6. LogicTypes'
    BY <1>1, <2>1, <2>3, <2>4, <2>5 DEF LogicTypes
  <2> QED
    BY <1>3, <1>4, <2>2, <2>6
<1> QED
  BY <1>6, <1>7

LEMMA CallbackFits == ImuAssumption /\ ImuInv /\ I2CCallback => TypeInv'
<1> SUFFICES ASSUME ImuAssumption, ImuInv, I2CCallback PROVE TypeInv'
  OBVIOUS
<1>1. ServiceTypes /\ QueueTypes /\ LogicTypes /\ LoopTypes /\ SensorTypes /\ BoundTypes
  BY TypeParts DEF ImuInv
<1>2. /\ task' = "no" /\ state' = "idle"
      /\ UNCHANGED <<waited, busyCnt, transfer, buf, loopVars, turns, sensor, bounds>>
  BY DEF I2CCallback
<1>3. SensorTypes' /\ BoundTypes'
  BY <1>1, <1>2, StillFits DEF BoundTypes, bounds
<1>4. ASSUME owed' \in BOOLEAN PROVE LoopTypes'
  BY <1>1, <1>2, <1>4 DEF LoopTypes, loopVars
<1>5. ASSUME rxDone' \in BOOLEAN, txDone' \in BOOLEAN, registered' \in BOOLEAN PROVE ServiceTypes'
  BY <1>1, <1>2, <1>5 DEF ServiceTypes
<1>6. state \in {"reading", "writing", "init"}
  BY CallbackIs
<1>7. rxDone \in BOOLEAN /\ txDone \in BOOLEAN /\ registered \in BOOLEAN /\ owed \in BOOLEAN
  BY <1>1 DEF ServiceTypes, LoopTypes
<1>8. CASE state = "reading" /\ AllRead(Tail(rxQueue))
  <2>1. QueueTypes' /\ LogicTypes' /\ owed' \in BOOLEAN /\ registered' \in BOOLEAN
    BY <1>8, RxDoneFits
  <2>2. rxDone' = TRUE /\ UNCHANGED txDone
    BY <1>8 DEF I2CCallback
  <2> QED
    BY <1>3, <1>4, <1>5, <1>7, <2>1, <2>2, TypePartsAfter
<1>9. CASE state = "reading" /\ ~AllRead(Tail(rxQueue))
  <2>1. /\ rxQueue' = Tail(rxQueue)
        /\ UNCHANGED <<rxDone, txQueue, txDone, registered, logicVars, torn, owed>>
    BY <1>9 DEF I2CCallback
  <2>2. rxQueue # <<>>
    BY <1>9 DEF ImuInv, Safe, TaskInv
  <2>3. QueueTypes'
    BY <1>1, <2>1, <2>2, HeadTailProperties DEF QueueTypes
  <2> QED
    BY <1>1, <1>3, <1>4, <1>5, <1>7, <2>1, <2>3, StillFits, TypePartsAfter
<1>10. CASE state = "writing"
  <2>1. /\ txQueue' = Tail(txQueue) /\ txDone' \in {TRUE, txDone}
        /\ UNCHANGED <<rxQueue, rxDone, registered, torn, owed>>
        /\ OnTxDone \/ UNCHANGED logicVars
    BY <1>10 DEF I2CCallback, logicVars
  <2>2. txQueue # <<>>
    BY <1>10 DEF ImuInv, Safe, TaskInv
  <2>3. QueueTypes'
    BY <1>1, <2>1, <2>2, HeadTailProperties DEF QueueTypes
  <2>4. LogicTypes'
    <3>1. CASE OnTxDone
      <4>1. /\ logic' \in {logic, "get_step"} /\ initState' \in {initState, "configure", "done"}
            /\ testState' = testState \/ (testState \in {"wait_configure", "wait_enable"} /\ testState' = "wait")
            /\ UNCHANGED <<count, lastReg, step>>
        BY <3>1 DEF OnTxDone
      <4> QED
        BY <1>1, <2>1, <4>1 DEF LogicTypes
    <3>2. CASE UNCHANGED logicVars
      BY <1>1, <2>1, <3>2, StillFits
    <3> QED
      BY <2>1, <3>1, <3>2
  <2>5. txDone' \in BOOLEAN
    BY <1>7, <2>1
  <2> QED
    BY <1>3, <1>4, <1>5, <1>7, <2>1, <2>3, <2>4, <2>5, TypePartsAfter
<1>11. CASE state = "init"
  <2>1. UNCHANGED <<rxQueue, txQueue, rxDone, txDone, registered, logicVars, torn, owed>>
    BY <1>11 DEF I2CCallback
  <2> QED
    BY <1>1, <1>3, <1>4, <1>5, <1>7, <2>1, StillFits, TypePartsAfter
<1> QED
  BY <1>6, <1>8, <1>9, <1>10, <1>11

LEMMA TypesKeep == ImuAssumption /\ ImuInv /\ [Next]_imuVars => TypeInv'
<1> SUFFICES ASSUME ImuAssumption, ImuInv, [Next]_imuVars PROVE TypeInv'
  OBVIOUS
<1>1. TypeInv
  BY DEF ImuInv
<1>2. CASE Next
  BY <1>1, <1>2, ServiceFits, LogicFits, SelfTestFits, CallbackFits, CompleteFits, BusFits DEF Next
<1>3. CASE UNCHANGED imuVars
  <2>1. ServiceTypes' /\ QueueTypes' /\ LogicTypes' /\ SensorTypes'
    BY <1>1, <1>3, TypeParts, StillFits DEF imuVars, serviceVars
  <2>2. LoopTypes' /\ BoundTypes'
    BY <1>1, <1>3, TypeParts DEF imuVars, loopVars, bounds, LoopTypes, BoundTypes
  <2> QED
    BY <2>1, <2>2, TypePartsAfter
<1> QED
  BY <1>2, <1>3

-----------------------------------------------------------------------------
(* The theorems.                                                           *)

(* The invariant holds in every state that the badge can reach. *)
THEOREM ImuInvHolds == Spec => []ImuInv
<1>1. Init => ImuInv
  BY ImuAssumption, InitImuInv
<1>2. ImuInv /\ [Next]_imuVars => ImuInv'
  BY ImuAssumption, TypesKeep, SafeKeeps DEF ImuInv
<1> QED
  BY <1>1, <1>2, PTL DEF Spec

(* What the sensor's variables range over (ImuTypeOK without the room in   *)
(* the queues, which depends on how often a self-test is begun again). *)
THEOREM ImuTypesHold == Spec => []ImuTypes
<1>1. ImuInv => ImuTypes
  BY DEF ImuInv, TypeInv
<1> QED
  BY <1>1, ImuInvHolds, PTL

(* ImuLogic counts no step that was not taken, for any size of the counter *)
(* and of MaxIncrement, however often the bus fails and the sensor is set  *)
(* back: unless the counter carries between the reads of its two bytes. *)
THEOREM CountsRealSteps == Spec => []StepsAreReal
<1>1. ImuInv => StepsAreReal
  BY DEF ImuInv, Safe
<1> QED
  BY <1>1, ImuInvHolds, PTL

(* No action but the end of the last read takes an answer, and then _buf   *)
(* holds the registers that were asked for. *)
THEOREM AnswersAreAsked == Spec => AnswersFit
<1> DEFINE Fit ==
      /\ logic = "init" =>
           /\ initState = "wait_id" /\ initState' = "sw_reset" => Holds(0, "id")
           /\ initState = "wait_sw_reset" /\ initState' = "reset_steps" => Holds(0, "ctrl3")
      /\ logic = "wait_step" /\ logic' = "get_step" => Holds(0, "step_l") /\ Holds(1, "step_h")
      /\ logic \in Tests /\ logic' = logic =>
           /\ testState = "wait_sw_reset" /\ testState' = "configure" => Holds(0, "ctrl3")
           /\ testState = "wait_da" /\ testState' = "read_out" => Holds(0, "status")
           /\ testState = "wait_read_out" /\ testState' # "wait_read_out" =>
                \/ testState' = "sw_reset"
                \/ \A i \in 0 .. Axes - 1 : Holds(i, "out")
<1>1. ImuInv /\ [Next]_imuVars => [Fit]_imuVars
  <2> SUFFICES ASSUME ImuInv, [Next]_imuVars PROVE Fit \/ UNCHANGED imuVars
    OBVIOUS
  <2>1. CASE UNCHANGED imuVars
    BY <2>1
  <2>2. CASE ServiceRoutine
    <3>1. (ResetAll \/ UNCHANGED logicVars)
      BY <2>2 DEF ServiceRoutine, Prepare, PowerOn, Await, Begin, BusIsBusy, NothingQueued
    <3> QED
      BY <3>1 DEF ResetAll, ResetLogic, logicVars, Tests
  <2>3. CASE LogicRoutine
    <3>1. \/ ResetAll \/ UNCHANGED logicVars
          \/ logic = "init" /\ InitStep
          \/ logic \in Tests /\ TestStep
          \/ logic = "get_step" /\ GetStep
      BY <2>3 DEF LogicRoutine
    <3>2. CASE ResetAll \/ UNCHANGED logicVars
      BY <3>2 DEF ResetAll, ResetLogic, logicVars, Tests
    <3>3. CASE logic = "init" /\ InitStep
      BY <3>3 DEF InitStep, Tests
    <3>4. CASE logic \in Tests /\ TestStep
      BY <3>4 DEF TestStep, Tests
    <3>5. CASE logic = "get_step" /\ GetStep
      BY <3>5 DEF Tests
    <3> QED
      BY <3>1, <3>2, <3>3, <3>4, <3>5
  <2>4. CASE GyroSelfTest
    BY <2>4 DEF GyroSelfTest, Tests
  <2>5. CASE I2CCallback
    <3>1. state \in {"reading", "writing", "init"}
      BY <2>5, CallbackIs
    <3>2. CASE state = "reading" /\ AllRead(Tail(rxQueue))
      <4>1. /\ logic = "init" /\ initState = "wait_id" => Holds(0, "id")
            /\ logic = "init" /\ initState = "wait_sw_reset" => Holds(0, "ctrl3")
            /\ logic \in Tests /\ testState = "wait_sw_reset" => Holds(0, "ctrl3")
            /\ logic \in Tests /\ testState = "wait_da" => Holds(0, "status")
            /\ logic \in Tests /\ testState = "wait_read_out" => \A i \in 0 .. Axes - 1 : Holds(i, "out")
            /\ logic = "wait_step" => Holds(1, "step_h") /\ Holds(0, "step_l")
        BY <2>5, <3>2, ImuAssumption, AllIsRead DEF LowByteRead, Holds
      <4> QED
        BY <4>1
    <3>3. CASE UNCHANGED logicVars
      BY <3>3 DEF logicVars
    <3>4. CASE state = "writing" /\ OnTxDone
      <4>1. logic # "wait_step"
        BY <3>4 DEF ImuInv, Safe, CountInv
      <4>2. /\ initState' \in {initState, "configure", "done"}
            /\ testState \in {"wait_configure", "wait_enable"} \/ UNCHANGED testState
        BY <3>4 DEF OnTxDone
      <4> QED
        BY <4>1, <4>2
    <3>5. \/ state = "reading" /\ AllRead(Tail(rxQueue))
          \/ UNCHANGED logicVars
          \/ state = "writing" /\ OnTxDone
      BY <2>5, <3>1 DEF I2CCallback
    <3> QED
      BY <3>2, <3>3, <3>4, <3>5
  <2>6. CASE Complete \/ Hang \/ Walk
    <3>1. UNCHANGED logicVars
      BY <2>6 DEF Complete, Hang, Walk
    <3> QED
      BY <3>1 DEF logicVars
  <2>7. CASE Error
    BY <2>7 DEF Error, ResetAll, ResetLogic, logicVars, Tests
  <2> QED
    BY <2>1, <2>2, <2>3, <2>4, <2>5, <2>6, <2>7 DEF Next
<1>2. [][Fit]_imuVars => AnswersFit
  BY PTL DEF AnswersFit
<1> QED
  BY <1>1, <1>2, ImuInvHolds, PTL DEF Spec
-----------------------------------------------------------------------------
(* The room in the queues.                                                 *)

(* A time-out that comes between the interrupt at the end of a transfer    *)
(* and its task.  The task then takes the service from "init" to "idle",   *)
(* past Prepare, which would have emptied the queues. *)
LateReset == task # "no" /\ state # "init" /\ state' = "init"

RxLen == Len(rxQueue)
TxLen == Len(txQueue)

(* Where the logic and the bus are, and whether anything is queued then.   *)
PhaseRoom ==
  /\ state = "init" => task = "no"
  /\ state \in {"poweroff", "poweron"} => RxLen = 0 /\ TxLen = 0
  /\ state \in {"init", "poweroff", "poweron"} => initState = "check_id"
  /\ state = "reading" => TxLen = 0
  /\ initState = "wait_configure" => TxLen > 0 /\ ~txDone
  /\ logic = "idle" => initState # "wait_configure"
  /\ logic \in Tests \/ testState # "sw_reset" => piled > 0

(* Reads are added to an empty queue, or to one that holds what was left   *)
(* by OnRxDone or by a self-test that was begun again. *)
RxRoom ==
  /\ RxLen <= Axes + piled
  /\ logic = "init" /\ state # "init" =>
       /\ initState = "check_id" => RxLen = 0
       /\ initState \notin {"wait_id", "wait_sw_reset"} => RxLen <= piled
  /\ logic = "get_step" => RxLen <= piled
  /\ initState = "wait_configure" =>
       /\ RxLen <= piled
       /\ logic \in Tests => /\ testState \in {"sw_reset", "wait_sw_reset"}
                             /\ testState = "sw_reset" => RxLen < piled
  /\ logic \in Tests =>
       /\ testState = "sw_reset" => RxLen < Axes + piled
       /\ testState \notin {"sw_reset", "wait_sw_reset", "wait_da", "wait_read_out"} => RxLen <= 1

TxRoom ==
  /\ TxLen <= 2 + piled
  /\ logic = "init" /\ state # "init"
     /\ initState \in {"check_id", "sw_reset", "reset_steps", "configure"} => TxLen = 0
  /\ logic \in Tests =>
       /\ testState = "sw_reset" => TxLen < 2 + piled
       /\ testState \in {"configure", "enable", "verify"} => TxLen = 0

Room == PhaseRoom /\ RxRoom /\ TxRoom

(* What Room speaks of, but for the task. *)
roomVars == <<state, rxQueue, txQueue, txDone, logic, initState, testState, piled>>

LEMMA LengthsAre ==
  ASSUME ImuInv, ImuAssumption
  PROVE  /\ RxLen \in Nat /\ TxLen \in Nat /\ piled \in Nat /\ Axes \in Nat \ {0, 1}
         /\ RxLen = 0 <=> rxQueue = <<>>
         /\ TxLen = 0 <=> txQueue = <<>>
<1>1. rxQueue \in Seq(Reads) /\ txQueue \in Seq(Writes)
  BY TypeParts DEF ImuInv, QueueTypes
<1>2. piled \in Nat
  BY TypeParts, ImuAssumption DEF ImuInv, BoundTypes
<1>3. RxLen \in Nat /\ (RxLen = 0 <=> rxQueue = <<>>)
  BY <1>1, EmptySeq DEF RxLen
<1>4. TxLen \in Nat /\ (TxLen = 0 <=> txQueue = <<>>)
  BY <1>1, EmptySeq DEF TxLen
<1> QED
  BY <1>2, <1>3, <1>4, ImuAssumption

LEMMA SameLengths ==
  /\ UNCHANGED rxQueue => RxLen' = RxLen
  /\ UNCHANGED txQueue => TxLen' = TxLen
BY DEF RxLen, TxLen

(* What is queued makes the queues so much longer. *)
LEMMA LongerBy ==
  ASSUME ImuInv, ImuAssumption
  PROVE  /\ NoRead => RxLen' = RxLen
         /\ NoWrite => TxLen' = TxLen /\ txDone' = txDone
         /\ \A r \in Reads : Read(<<r>>) => RxLen' = RxLen + 1
         /\ \A r, s \in Reads : Read(<<r, s>>) => RxLen' = RxLen + 2
         /\ Read(Outs) => RxLen' = RxLen + Axes
         /\ \A r \in Writes : Write(<<r>>) => TxLen' = TxLen + 1 /\ ~txDone'
         /\ \A r, s \in Writes : Write(<<r, s>>) => TxLen' = TxLen + 2 /\ ~txDone'
<1>1. rxQueue \in Seq(Reads) /\ txQueue \in Seq(Writes)
  BY TypeParts DEF ImuInv, QueueTypes
<1>2. (NoRead => RxLen' = RxLen) /\ (NoWrite => TxLen' = TxLen /\ txDone' = txDone)
  BY DEF NoRead, NoWrite, RxLen, TxLen
<1>3. ASSUME NEW r \in Reads, Read(<<r>>) PROVE RxLen' = RxLen + 1
  <2>1. <<r>> \in Seq(Reads) /\ Len(<<r>>) = 1
    OBVIOUS
  <2>2. rxQueue' = rxQueue \o <<r>>
    BY <1>3 DEF Read
  <2> QED
    BY <1>1, <2>1, <2>2, ConcatProperties DEF RxLen
<1>4. ASSUME NEW r \in Reads, NEW s \in Reads, Read(<<r, s>>) PROVE RxLen' = RxLen + 2
  <2>1. <<r, s>> \in Seq(Reads) /\ Len(<<r, s>>) = 2
    OBVIOUS
  <2>2. rxQueue' = rxQueue \o <<r, s>>
    BY <1>4 DEF Read
  <2> QED
    BY <1>1, <2>1, <2>2, ConcatProperties DEF RxLen
<1>5. ASSUME Read(Outs) PROVE RxLen' = RxLen + Axes
  <2>1. Outs \in Seq(Reads) /\ Len(Outs) = Axes
    <3>1. Axes \in Nat
      BY ImuAssumption
    <3>2. \A i \in 1 .. Axes : <<"out", i - 1>> \in Reads
      BY <3>1 DEF Reads, Registers
    <3>3. Outs \in [1 .. Axes -> Reads]
      BY <3>2 DEF Outs
    <3> QED
      BY <3>1, <3>3, SeqDef, LenProperties
  <2>2. rxQueue' = rxQueue \o Outs
    BY <1>5 DEF Read
  <2> QED
    BY <1>1, <2>1, <2>2, ConcatProperties DEF RxLen
<1>6. ASSUME NEW r \in Writes, Write(<<r>>) PROVE TxLen' = TxLen + 1 /\ ~txDone'
  <2>1. <<r>> \in Seq(Writes) /\ Len(<<r>>) = 1
    OBVIOUS
  <2>2. txQueue' = txQueue \o <<r>> /\ ~txDone'
    BY <1>6 DEF Write
  <2> QED
    BY <1>1, <2>1, <2>2, ConcatProperties DEF TxLen
<1>7. ASSUME NEW r \in Writes, NEW s \in Writes, Write(<<r, s>>) PROVE TxLen' = TxLen + 2 /\ ~txDone'
  <2>1. <<r, s>> \in Seq(Writes) /\ Len(<<r, s>>) = 2
    OBVIOUS
  <2>2. txQueue' = txQueue \o <<r, s>> /\ ~txDone'
    BY <1>7 DEF Write
  <2> QED
    BY <1>1, <2>1, <2>2, ConcatProperties DEF TxLen
<1> QED
  BY <1>2, <1>3, <1>4, <1>5, <1>6, <1>7

LEMMA StillRoom ==
  ASSUME Room, UNCHANGED roomVars, state = "init" => task' = "no"
  PROVE  Room'
<1>1. RxLen' = RxLen /\ TxLen' = TxLen
  BY SameLengths DEF roomVars
<1>2. PhaseRoom'
  BY <1>1 DEF Room, PhaseRoom, roomVars
<1>3. RxRoom'
  BY <1>1 DEF Room, RxRoom, roomVars
<1>4. TxRoom'
  BY <1>1 DEF Room, TxRoom, roomVars
<1> QED
  BY <1>2, <1>3, <1>4 DEF Room

LEMMA ResetRoom ==
  ASSUME Room, ResetAll, ~LateReset, Turn \/ UNCHANGED task, UNCHANGED piled
  PROVE  Room'
<1>1. /\ state' = "init" /\ logic' = "init" /\ initState' = "check_id"
      /\ UNCHANGED <<rxQueue, txQueue, txDone, testState>>
  BY DEF ResetAll, ResetI2C, ResetLogic
<1>2. RxLen' = RxLen /\ TxLen' = TxLen
  BY <1>1, SameLengths
<1>3. task' = "no"
  <2>1. task = "no"
    BY <1>1 DEF LateReset, Room, PhaseRoom
  <2> QED
    BY <2>1 DEF Turn
<1>4. PhaseRoom'
  BY <1>1, <1>2, <1>3 DEF Room, PhaseRoom, Tests
<1>5. RxRoom'
  BY <1>1, <1>2 DEF Room, RxRoom, Tests
<1>6. TxRoom'
  BY <1>1, <1>2 DEF Room, TxRoom, Tests
<1> QED
  BY <1>4, <1>5, <1>6 DEF Room

LEMMA InitRoom == ImuAssumption /\ Init => Room
<1> SUFFICES ASSUME ImuAssumption, Init PROVE Room
  OBVIOUS
<1>1. RxLen = 0 /\ TxLen = 0
  <2>1. Len(<<>>) = 0
    OBVIOUS
  <2> QED
    BY <2>1 DEF Init, RxLen, TxLen
<1>2. PhaseRoom
  BY <1>1 DEF Init, PhaseRoom, Tests
<1>3. RxRoom
  BY <1>1, ImuAssumption DEF Init, RxRoom, Tests
<1>4. TxRoom
  BY <1>1 DEF Init, TxRoom, Tests
<1> QED
  BY <1>2, <1>3, <1>4 DEF Room

(* The service's routine: only Prepare and the resets change a queue or    *)
(* what the logic waits for. *)
LEMMA ServiceRoom ==
  ASSUME ImuAssumption, ImuInv, Room, ServiceRoutine, ~LateReset
  PROVE  Room'
<1>1. Turn /\ UNCHANGED piled
  BY DEF ServiceRoutine
<1>2. task = "no" => task' = "no"
  BY <1>1 DEF Turn
<1>3. state = "init" => task' = "no"
  BY <1>2 DEF Room, PhaseRoom
<1>4. /\ RxLen \in Nat /\ TxLen \in Nat /\ piled \in Nat /\ Axes \in Nat \ {0, 1}
      /\ RxLen = 0 <=> rxQueue = <<>>
      /\ TxLen = 0 <=> txQueue = <<>>
  BY ImuAssumption, LengthsAre
<1>5. CASE Prepare
  <2>1. /\ state = "init" /\ state' = "poweroff" /\ rxQueue' = <<>> /\ txQueue' = <<>>
        /\ UNCHANGED <<logic, initState, testState>>
    BY <1>5 DEF Prepare, logicVars
  <2>2. RxLen' = 0 /\ TxLen' = 0
    <3>1. Len(<<>>) = 0
      OBVIOUS
    <3> QED
      BY <2>1, <3>1 DEF RxLen, TxLen
  <2>3. PhaseRoom'
    BY <1>1, <2>1, <2>2 DEF Room, PhaseRoom, Tests
  <2>4. RxRoom'
    BY <1>1, <1>4, <2>1, <2>2 DEF Room, PhaseRoom, RxRoom, Tests
  <2>5. TxRoom'
    BY <1>1, <1>4, <2>1, <2>2 DEF Room, TxRoom, Tests
  <2> QED
    BY <2>3, <2>4, <2>5 DEF Room
<1>6. CASE PowerOn
  <2>1. /\ state \in {"poweroff", "poweron"} /\ state' \in {"poweron", "idle"}
        /\ UNCHANGED <<rxQueue, txQueue, txDone, logic, initState, testState>>
    BY <1>6 DEF PowerOn, logicVars
  <2>2. RxLen' = 0 /\ TxLen' = 0
    BY <2>1, SameLengths DEF Room, PhaseRoom
  <2>3. PhaseRoom'
    BY <1>1, <2>1, <2>2 DEF Room, PhaseRoom, Tests
  <2>4. RxRoom'
    BY <1>1, <1>4, <2>1, <2>2 DEF Room, PhaseRoom, RxRoom, Tests
  <2>5. TxRoom'
    BY <1>1, <1>4, <2>1, <2>2 DEF Room, TxRoom, Tests
  <2> QED
    BY <2>3, <2>4, <2>5 DEF Room
<1>7. CASE Await
  <2>1. CASE TooLong
    BY <1>1, <1>7, <2>1, ResetRoom DEF Await
  <2>2. CASE ~TooLong
    BY <1>1, <1>3, <1>7, <2>2, StillRoom DEF Await, roomVars, logicVars
  <2> QED
    BY <2>1, <2>2
<1>8. CASE Begin
  <2>1. CASE ResetAll
    BY <1>1, <2>1, ResetRoom
  <2>2. CASE ~ResetAll
    <3>1. /\ state = "idle" /\ state' = IF txQueue # <<>> THEN "writing" ELSE "reading"
          /\ UNCHANGED <<rxQueue, txQueue, txDone, logic, initState, testState>>
      BY <1>8, <2>2 DEF Begin, logicVars
    <3>2. RxLen' = RxLen /\ TxLen' = TxLen
      BY <3>1, SameLengths
    <3>3. PhaseRoom'
      BY <1>1, <1>4, <3>1, <3>2 DEF Room, PhaseRoom
    <3>4. RxRoom'
      BY <1>1, <3>1, <3>2 DEF Room, RxRoom
    <3>5. TxRoom'
      BY <1>1, <3>1, <3>2 DEF Room, TxRoom
    <3> QED
      BY <3>3, <3>4, <3>5 DEF Room
  <2> QED
    BY <2>1, <2>2
<1>9. CASE BusIsBusy
  <2>1. CASE busyCnt + 1 >= BusyLimit
    BY <1>1, <1>9, <2>1, ResetRoom DEF BusIsBusy
  <2>2. CASE ~(busyCnt + 1 >= BusyLimit)
    BY <1>1, <1>3, <1>9, <2>2, StillRoom DEF BusIsBusy, roomVars, logicVars
  <2> QED
    BY <2>1, <2>2
<1>10. CASE NothingQueued
  BY <1>1, <1>3, <1>10, StillRoom DEF NothingQueued, roomVars, serviceVars, logicVars
<1> QED
  BY <1>5, <1>6, <1>7, <1>8, <1>9, <1>10 DEF ServiceRoutine

(* The logic queues two writes at a time, and as many reads as a           *)
(* measurement takes. *)
LEMMA InitStepRoom ==
  ASSUME ImuAssumption, ImuInv, Room, state = "idle", logic = "init", InitStep,
         UNCHANGED <<state, piled>>
  PROVE  Room'
<1>1. /\ RxLen \in Nat /\ TxLen \in Nat /\ piled \in Nat /\ Axes \in Nat \ {0, 1}
  BY ImuAssumption, LengthsAre
<1>2. logic' = "init" /\ testState' = testState
  BY DEF InitStep
<1>3. \/ initState = "check_id" /\ initState' = "wait_id"
         /\ RxLen' = RxLen + 1 /\ TxLen' = TxLen /\ txDone' = txDone
      \/ initState = "sw_reset" /\ initState' = "wait_sw_reset"
         /\ RxLen' = RxLen + 1 /\ TxLen' = TxLen + 1 /\ ~txDone'
      \/ initState = "reset_steps" /\ initState' = "wait_reset_steps"
         /\ RxLen' = RxLen /\ TxLen' = TxLen + 2 /\ ~txDone'
      \/ initState = "configure" /\ initState' = "wait_configure"
         /\ RxLen' = RxLen /\ TxLen' = TxLen + 2 /\ ~txDone'
      \/ initState \notin {"check_id", "sw_reset", "reset_steps", "configure"} /\ initState' = initState
         /\ RxLen' = RxLen /\ TxLen' = TxLen /\ txDone' = txDone
  <2>1. 0 \in 0 .. Axes - 1
    BY <1>1
  <2>2. <<"id", 0>> \in Reads /\ <<"ctrl3", 0>> \in Reads
    BY <2>1 DEF Reads, Registers
  <2>3. "sw_reset" \in Writes /\ "reset_steps" \in Writes /\ "config" \in Writes
    BY DEF Writes
  <2>4. \/ initState = "check_id" /\ initState' = "wait_id" /\ Read(<< <<"id", 0>> >>) /\ NoWrite
        \/ initState = "sw_reset" /\ initState' = "wait_sw_reset"
           /\ Read(<< <<"ctrl3", 0>> >>) /\ Write(<<"sw_reset">>)
        \/ initState = "reset_steps" /\ initState' = "wait_reset_steps"
           /\ NoRead /\ Write(<<"reset_steps", "config">>)
        \/ initState = "configure" /\ initState' = "wait_configure"
           /\ NoRead /\ Write(<<"config", "config">>)
        \/ initState \notin {"check_id", "sw_reset", "reset_steps", "configure"}
           /\ NoRead /\ NoWrite /\ initState' = initState
    BY DEF InitStep
  <2>5. /\ NoRead => RxLen' = RxLen
        /\ NoWrite => TxLen' = TxLen /\ txDone' = txDone
        /\ Read(<< <<"id", 0>> >>) => RxLen' = RxLen + 1
        /\ Read(<< <<"ctrl3", 0>> >>) => RxLen' = RxLen + 1
        /\ Write(<<"sw_reset">>) => TxLen' = TxLen + 1 /\ ~txDone'
        /\ Write(<<"reset_steps", "config">>) => TxLen' = TxLen + 2 /\ ~txDone'
        /\ Write(<<"config", "config">>) => TxLen' = TxLen + 2 /\ ~txDone'
    BY ImuAssumption, <2>2, <2>3, LongerBy
  <2> QED
    BY <2>4, <2>5
<1>4. PhaseRoom'
  BY <1>1, <1>2, <1>3 DEF Room, PhaseRoom, Tests
<1>5. RxRoom'
  BY <1>1, <1>2, <1>3 DEF Room, RxRoom, Tests
<1>6. TxRoom'
  BY <1>1, <1>2, <1>3 DEF Room, TxRoom, Tests
<1> QED
  BY <1>4, <1>5, <1>6 DEF Room

LEMMA TestStepRoom ==
  ASSUME ImuAssumption, ImuInv, Room, state = "idle", logic \in Tests, TestStep,
         UNCHANGED <<state, piled>>
  PROVE  Room'
<1>1. /\ RxLen \in Nat /\ TxLen \in Nat /\ piled \in Nat /\ Axes \in Nat \ {0, 1}
  BY ImuAssumption, LengthsAre
<1>2. initState' = initState
  BY DEF TestStep
<1> DEFINE Stay == logic' = logic
           Queues(r, w) == /\ RxLen' = RxLen + r
                           /\ TxLen' = TxLen + w
                           /\ IF w = 0 THEN txDone' = txDone ELSE ~txDone'
<1>3. \/ testState = "sw_reset" /\ testState' = "wait_sw_reset" /\ Queues(1, 1) /\ Stay
      \/ testState = "configure" /\ testState' = "wait_configure" /\ Queues(0, 2) /\ Stay
      \/ testState = "wait" /\ testState' = "wait_more" /\ Queues(0, 0) /\ Stay
      \/ testState \in {"wait", "wait_more", "check_da"} /\ testState' = "wait_da" /\ Queues(1, 0) /\ Stay
      \/ testState = "read_out" /\ testState' = "wait_read_out" /\ Queues(Axes, 0) /\ Stay
      \/ testState = "enable" /\ testState' \in {"wait", "wait_enable"} /\ Queues(0, 1) /\ Stay
      \/ testState = "verify" /\ Queues(0, 2)
         /\ \/ logic' = "idle" /\ testState' = "done"
            \/ logic' = "st_acc" /\ testState' = "sw_reset"
      \/ testState \notin {"sw_reset", "configure", "wait", "wait_more", "check_da",
                           "read_out", "enable", "verify"}
         /\ Queues(0, 0) /\ testState' = testState /\ Stay
  <2>1. 0 \in 0 .. Axes - 1
    BY <1>1
  <2>2. <<"status", 0>> \in Reads /\ <<"ctrl3", 0>> \in Reads
    BY <2>1 DEF Reads, Registers
  <2>3. "sw_reset" \in Writes /\ "config" \in Writes
    BY DEF Writes
  <2>4. /\ NoRead => RxLen' = RxLen
        /\ NoWrite => TxLen' = TxLen /\ txDone' = txDone
        /\ Read(<< <<"status", 0>> >>) => RxLen' = RxLen + 1
        /\ Read(<< <<"ctrl3", 0>> >>) => RxLen' = RxLen + 1
        /\ Read(Outs) => RxLen' = RxLen + Axes
        /\ Write(<<"sw_reset">>) => TxLen' = TxLen + 1 /\ ~txDone'
        /\ Write(<<"config">>) => TxLen' = TxLen + 1 /\ ~txDone'
        /\ Write(<<"config", "config">>) => TxLen' = TxLen + 2 /\ ~txDone'
    BY ImuAssumption, <2>2, <2>3, LongerBy
  <2>5. /\ Read(<< <<"ctrl3", 0>> >>) /\ Write(<<"sw_reset">>) => Queues(1, 1)
        /\ NoRead /\ Write(<<"config", "config">>) => Queues(0, 2)
        /\ NoRead /\ NoWrite => Queues(0, 0)
        /\ Read(<< <<"status", 0>> >>) /\ NoWrite => Queues(1, 0)
        /\ Read(Outs) /\ NoWrite => Queues(Axes, 0)
        /\ NoRead /\ Write(<<"config">>) => Queues(0, 1)
    BY <1>1, <2>4
  <2> HIDE DEF Queues
  <2>6. \/ /\ testState = "sw_reset" /\ testState' = "wait_sw_reset"
           /\ Read(<< <<"ctrl3", 0>> >>) /\ Write(<<"sw_reset">>) /\ Stay
        \/ /\ testState = "configure" /\ testState' = "wait_configure"
           /\ NoRead /\ Write(<<"config", "config">>) /\ Stay
        \/ testState = "wait" /\ testState' = "wait_more" /\ NoRead /\ NoWrite /\ Stay
        \/ /\ testState \in {"wait", "wait_more", "check_da"} /\ testState' = "wait_da"
           /\ Read(<< <<"status", 0>> >>) /\ NoWrite /\ Stay
        \/ testState = "read_out" /\ testState' = "wait_read_out" /\ Read(Outs) /\ NoWrite /\ Stay
        \/ /\ testState = "enable" /\ testState' \in {"wait", "wait_enable"}
           /\ NoRead /\ Write(<<"config">>) /\ Stay
        \/ /\ testState = "verify" /\ NoRead /\ Write(<<"config", "config">>)
           /\ \/ logic' = "idle" /\ testState' = "done"
              \/ logic' = "st_acc" /\ testState' = "sw_reset"
        \/ /\ testState \notin {"sw_reset", "configure", "wait", "wait_more", "check_da",
                                "read_out", "enable", "verify"}
           /\ NoRead /\ NoWrite /\ testState' = testState /\ Stay
    BY DEF TestStep
  <2> HIDE DEF Stay
  <2> QED
    BY <2>5, <2>6
<1>4. piled > 0 /\ logic' \in Tests \cup {"idle"}
  BY <1>3 DEF Room, PhaseRoom, Tests
<1>5. PhaseRoom'
  BY <1>1, <1>2, <1>3, <1>4 DEF Room, PhaseRoom, RxRoom, Tests
<1>6. RxRoom'
  <2>1. RxLen' <= Axes + piled
    BY <1>1, <1>3, <1>4 DEF Room, RxRoom
  <2>2. /\ initState' = "wait_configure" =>
             /\ RxLen' <= piled
             /\ logic' \in Tests => /\ testState' \in {"sw_reset", "wait_sw_reset"}
                                    /\ testState' = "sw_reset" => RxLen' < piled
    BY <1>1, <1>2, <1>3, <1>4 DEF Room, RxRoom
  <2>3. /\ testState' = "sw_reset" => RxLen' < Axes + piled
        /\ testState' \notin {"sw_reset", "wait_sw_reset", "wait_da", "wait_read_out"} => RxLen' <= 1
    BY <1>1, <1>3, <1>4 DEF Room, RxRoom
  <2> QED
    BY <1>4, <2>1, <2>2, <2>3 DEF RxRoom, Tests
<1>7. TxRoom'
  <2>1. TxLen' <= 2 + piled
    BY <1>1, <1>3, <1>4 DEF Room, TxRoom
  <2>2. /\ testState' = "sw_reset" => TxLen' < 2 + piled
        /\ testState' \in {"configure", "enable", "verify"} => TxLen' = 0
    BY <1>1, <1>3, <1>4 DEF Room, TxRoom
  <2> QED
    BY <1>4, <2>1, <2>2 DEF TxRoom, Tests
<1> QED
  BY <1>5, <1>6, <1>7 DEF Room

LEMMA GetStepRoom ==
  ASSUME ImuAssumption, ImuInv, Room, state = "idle", logic = "get_step", GetStep,
         UNCHANGED <<state, piled>>
  PROVE  Room'
<1>1. /\ RxLen \in Nat /\ TxLen \in Nat /\ piled \in Nat /\ Axes \in Nat \ {0, 1}
  BY ImuAssumption, LengthsAre
<1>2. /\ logic' = "wait_step" /\ UNCHANGED <<initState, testState>>
      /\ Read(<< <<"step_l", 0>>, <<"step_h", 1>> >>) /\ NoWrite
  BY DEF GetStep
<1>3. RxLen' = RxLen + 2 /\ TxLen' = TxLen /\ txDone' = txDone
  <2>1. 0 \in 0 .. Axes - 1 /\ 1 \in 0 .. Axes - 1
    BY <1>1
  <2>2. <<"step_l", 0>> \in Reads /\ <<"step_h", 1>> \in Reads
    BY <2>1 DEF Reads, Registers
  <2> QED
    BY ImuAssumption, <1>2, <2>2, LongerBy
<1>4. initState = "done"
  BY DEF ImuInv, Safe, CountInv
<1>5. PhaseRoom'
  BY <1>2, <1>3, <1>4 DEF Room, PhaseRoom, Tests
<1>6. RxRoom'
  BY <1>1, <1>2, <1>3, <1>4 DEF Room, RxRoom, Tests
<1>7. TxRoom'
  BY <1>2, <1>3 DEF Room, TxRoom, Tests
<1> QED
  BY <1>5, <1>6, <1>7 DEF Room

LEMMA LogicRoom ==
  ASSUME ImuAssumption, ImuInv, Room, LogicRoutine, ~LateReset
  PROVE  Room'
<1>1. Turn /\ UNCHANGED piled
  BY DEF LogicRoutine, bounds
<1>2. state = "init" => task' = "no"
  BY <1>1 DEF Turn, Room, PhaseRoom
<1>3. CASE UNCHANGED <<serviceVars, halVars, logicVars>>
  BY <1>1, <1>2, <1>3, StillRoom DEF roomVars, serviceVars, logicVars
<1>4. CASE ResetAll
  BY <1>1, <1>4, ResetRoom
<1>5. CASE ~UNCHANGED <<serviceVars, halVars, logicVars>> /\ ~ResetAll
  <2>1. /\ state = "idle" /\ state' = state
        /\ \/ logic = "init" /\ InitStep
           \/ logic \in Tests /\ TestStep
           \/ logic = "get_step" /\ GetStep
    BY <1>5 DEF LogicRoutine
  <2> QED
    BY ImuAssumption, <1>1, <2>1, InitStepRoom, TestStepRoom, GetStepRoom
<1> QED
  BY <1>3, <1>4, <1>5

(* A self-test that is begun finds what the last one has queued. *)
LEMMA SelfTestRoom ==
  ASSUME ImuAssumption, ImuInv, Room, GyroSelfTest
  PROVE  Room'
<1>1. /\ RxLen \in Nat /\ TxLen \in Nat /\ piled \in Nat /\ Axes \in Nat \ {0, 1}
      /\ RxLen = 0 <=> rxQueue = <<>>
      /\ TxLen = 0 <=> txQueue = <<>>
  BY ImuAssumption, LengthsAre
<1>2. /\ piled' = IF RxLen = 0 /\ TxLen = 0 THEN 1 ELSE piled + 1
      /\ logic' = "st_gyro" /\ testState' = "sw_reset"
      /\ UNCHANGED <<state, rxQueue, txQueue, txDone, task, initState>>
  BY <1>1 DEF GyroSelfTest, serviceVars
<1>3. RxLen' = RxLen /\ TxLen' = TxLen
  BY <1>2, SameLengths
<1>4. PhaseRoom'
  BY <1>1, <1>2, <1>3 DEF Room, PhaseRoom
<1>5. RxRoom'
  BY <1>1, <1>2, <1>3 DEF Room, RxRoom
<1>6. TxRoom'
  BY <1>1, <1>2, <1>3 DEF Room, TxRoom
<1> QED
  BY <1>4, <1>5, <1>6 DEF Room

(* The end of a read that is not the last one. *)
LEMMA PopRoom ==
  ASSUME ImuAssumption, ImuInv, Room, I2CCallback, state = "reading", ~AllRead(Tail(rxQueue))
  PROVE  Room'
<1>1. /\ RxLen \in Nat /\ TxLen \in Nat /\ piled \in Nat /\ Axes \in Nat \ {0, 1}
      /\ RxLen = 0 <=> rxQueue = <<>>
  BY ImuAssumption, LengthsAre
<1>2. /\ task' = "no" /\ state' = "idle" /\ rxQueue' = Tail(rxQueue)
      /\ UNCHANGED <<txQueue, txDone, logic, initState, testState, piled>>
  BY DEF I2CCallback, logicVars, bounds
<1>3. RxLen > 0 /\ RxLen' = RxLen - 1 /\ TxLen' = TxLen
  <2>1. rxQueue \in Seq(Reads) /\ rxQueue # <<>>
    BY TypeParts DEF ImuInv, QueueTypes, Safe, TaskInv
  <2>2. Len(Tail(rxQueue)) = Len(rxQueue) - 1
    BY <2>1, HeadTailProperties
  <2>3. TxLen' = TxLen
    BY <1>2, SameLengths
  <2>4. RxLen > 0
    BY <1>1, <2>1
  <2> QED
    BY <1>2, <2>2, <2>3, <2>4 DEF RxLen
<1>4. PhaseRoom'
  BY <1>2, <1>3 DEF Room, PhaseRoom
<1>5. RxRoom'
  BY <1>1, <1>2, <1>3 DEF Room, RxRoom
<1>6. TxRoom'
  BY <1>2, <1>3 DEF Room, TxRoom
<1> QED
  BY <1>4, <1>5, <1>6 DEF Room

(* What OnRxDone reads again: once for the initialisation and once for the *)
(* self-test, where its state stays what it was. *)
LEMMA AgainIs ==
  ASSUME ImuAssumption
  PROVE  /\ Len(InitAgain) \in {0, 1} /\ Len(TestAgain) \in {0, 1}
         /\ InitAgain \in Seq(Reads) /\ TestAgain \in Seq(Reads)
         /\ Len(InitAgain) = 1 => initState = "wait_sw_reset" /\ InitNext = "wait_sw_reset"
         /\ Len(TestAgain) = 1 => testState \in {"wait_sw_reset", "wait_da"} /\ TestNext = testState
<1>1. Len(<<>>) = 0 /\ <<>> \in Seq(Reads)
  OBVIOUS
<1>2. \A r \in Reads : Len(<<r>>) = 1 /\ <<r>> \in Seq(Reads)
  OBVIOUS
<1>3. <<"ctrl3", 0>> \in Reads /\ <<"status", 0>> \in Reads
  <2>1. 0 \in 0 .. Axes - 1
    BY ImuAssumption
  <2> QED
    BY <2>1 DEF Reads, Registers
<1>4. \/ InitAgain = <<>>
      \/ /\ InitAgain = << <<"ctrl3", 0>> >>
         /\ initState = "wait_sw_reset" /\ InitNext = "wait_sw_reset"
  BY DEF InitAgain, InitNext
<1>5. \/ TestAgain = <<>>
      \/ /\ TestAgain \in { << <<"ctrl3", 0>> >>, << <<"status", 0>> >> }
         /\ testState \in {"wait_sw_reset", "wait_da"} /\ TestNext = testState
  BY DEF TestAgain, TestNext
<1>6. /\ Len(InitAgain) \in {0, 1} /\ InitAgain \in Seq(Reads)
      /\ Len(InitAgain) = 1 => initState = "wait_sw_reset" /\ InitNext = "wait_sw_reset"
  <2>1. CASE InitAgain = <<>>
    BY <1>1, <2>1
  <2>2. CASE InitAgain # <<>>
    BY <1>2, <1>3, <1>4, <2>2
  <2> QED
    BY <2>1, <2>2
<1>7. /\ Len(TestAgain) \in {0, 1} /\ TestAgain \in Seq(Reads)
      /\ Len(TestAgain) = 1 => testState \in {"wait_sw_reset", "wait_da"} /\ TestNext = testState
  <2>1. CASE TestAgain = <<>>
    BY <1>1, <2>1
  <2>2. CASE TestAgain # <<>>
    BY <1>2, <1>3, <1>5, <2>2
  <2> QED
    BY <2>1, <2>2
<1> QED
  BY <1>6, <1>7

(* The end of the last read: nothing but what OnRxDone reads again is left *)
(* to be done. *)
LEMMA RxDoneRoom ==
  ASSUME ImuAssumption, ImuInv, Room, I2CCallback, state = "reading", AllRead(Tail(rxQueue))
  PROVE  Room'
<1>1. /\ RxLen \in Nat /\ TxLen \in Nat /\ piled \in Nat /\ Axes \in Nat \ {0, 1}
      /\ RxLen = 0 <=> rxQueue = <<>>
  BY ImuAssumption, LengthsAre
<1>2. /\ task' = "no" /\ state' = "idle" /\ OnRxDone(Tail(rxQueue)) /\ Tail(rxQueue) = <<>>
      /\ UNCHANGED <<txQueue, txDone, piled>>
  BY DEF I2CCallback, AllRead, bounds
<1>3. TxLen = 0 /\ TxLen' = 0 /\ initState # "wait_configure" /\ LogicNow = logic
  BY <1>2, SameLengths DEF Room, PhaseRoom, LogicNow
<1>4. RxLen > 0
  BY <1>1 DEF ImuInv, Safe, TaskInv
<1>5. CASE initState = "wait_id" /\ buf[0].val # Lsm
  <2>1. /\ logic' = "init" /\ initState' = "check_id" /\ rxQueue' = <<>> /\ testState' = testState
    BY <1>2, <1>5 DEF OnRxDone, ResetLogic
  <2>2. RxLen' = 0
    <3>1. Len(<<>>) = 0
      OBVIOUS
    <3> QED
      BY <2>1, <3>1 DEF RxLen
  <2>3. PhaseRoom'
    BY <1>2, <1>3, <2>1 DEF Room, PhaseRoom, Tests
  <2>4. RxRoom'
    BY <1>1, <1>2, <2>1, <2>2 DEF RxRoom, Tests
  <2>5. TxRoom'
    BY <1>1, <1>2, <1>3, <2>1 DEF TxRoom, Tests
  <2> QED
    BY <2>3, <2>4, <2>5 DEF Room
<1>6. CASE ~(initState = "wait_id" /\ buf[0].val # Lsm)
  <2> DEFINE i == Len(InitAgain)
             t == Len(TestAgain)
  <2>1. /\ initState' = InitNext /\ testState' = TestNext
        /\ rxQueue' = <<>> \o InitAgain \o TestAgain
        /\ logic' = IF logic = "wait_step" THEN "get_step" ELSE logic
    BY <1>2, <1>3, <1>6 DEF OnRxDone
  <2>2. /\ i \in {0, 1} /\ t \in {0, 1}
        /\ i = 1 => initState = "wait_sw_reset" /\ InitNext = "wait_sw_reset"
        /\ t = 1 => testState \in {"wait_sw_reset", "wait_da"} /\ TestNext = testState
    BY ImuAssumption, AgainIs
  <2>3. RxLen' = i + t
    <3>1. /\ InitAgain \in Seq(Reads) /\ TestAgain \in Seq(Reads)
          /\ <<>> \in Seq(Reads) /\ Len(<<>>) = 0
      BY ImuAssumption, AgainIs
    <3>2. <<>> \o InitAgain \in Seq(Reads) /\ Len(<<>> \o InitAgain) = i
      BY <3>1, ConcatProperties
    <3>3. Len(<<>> \o InitAgain \o TestAgain) = i + t
      BY <3>1, <3>2, ConcatProperties
    <3> QED
      BY <2>1, <3>3 DEF RxLen
  <2> HIDE DEF i, t
  <2>4. /\ InitNext \in {initState, "sw_reset", "reset_steps"}
        /\ TestNext \in {testState, "configure", "read_out", "enable", "verify", "check_da"}
        /\ InitNext = "sw_reset" \/ InitNext = "reset_steps" =>
             initState \in {"wait_id", "wait_sw_reset", "sw_reset", "reset_steps"}
        /\ TestNext # "sw_reset" => testState # "sw_reset"
    BY DEF InitNext, TestNext
  <2>5. logic \in {"get_step", "wait_step"} => initState = "done"
    BY DEF ImuInv, Safe, CountInv
  <2>6. t = 1 => piled > 0
    BY <2>2 DEF Room, PhaseRoom
  <2>7. logic = "init" => initState # "check_id"
    BY <1>4 DEF Room, RxRoom
  <2>8. PhaseRoom'
    BY <1>2, <1>3, <2>1, <2>4 DEF Room, PhaseRoom, Tests
  <2>9. RxRoom'
    <3>1. RxLen' <= Axes + piled
      BY <1>1, <2>2, <2>3
    <3>2. logic' = "init" =>
            /\ initState' # "check_id"
            /\ initState' \notin {"wait_id", "wait_sw_reset"} => RxLen' <= piled
      BY <1>1, <2>1, <2>2, <2>3, <2>4, <2>6, <2>7
    <3>3. logic' = "get_step" => RxLen' <= piled
      BY <1>1, <2>1, <2>2, <2>3, <2>5, <2>6
    <3>4. initState' # "wait_configure"
      BY <1>3, <2>1, <2>4
    <3>5. /\ testState' = "sw_reset" => RxLen' < Axes + piled
          /\ testState' \notin {"sw_reset", "wait_sw_reset", "wait_da", "wait_read_out"} => RxLen' <= 1
      BY <1>1, <2>1, <2>2, <2>3, <2>4
    <3> QED
      BY <1>2, <3>1, <3>2, <3>3, <3>4, <3>5 DEF RxRoom
  <2>10. TxRoom'
    BY <1>1, <1>2, <1>3 DEF TxRoom
  <2> QED
    BY <2>8, <2>9, <2>10 DEF Room
<1> QED
  BY <1>5, <1>6

(* The end of a write. *)
LEMMA WrittenRoom ==
  ASSUME ImuAssumption, ImuInv, Room, I2CCallback, state = "writing"
  PROVE  Room'
<1>1. /\ RxLen \in Nat /\ TxLen \in Nat /\ piled \in Nat /\ Axes \in Nat \ {0, 1}
      /\ TxLen = 0 <=> txQueue = <<>>
  BY ImuAssumption, LengthsAre
<1>2. /\ task' = "no" /\ state' = "idle" /\ txQueue' = Tail(txQueue)
      /\ IF Tail(txQueue) = <<>> /\ ~txDone THEN OnTxDone /\ txDone' = TRUE
         ELSE UNCHANGED <<txDone, logicVars>>
      /\ UNCHANGED <<rxQueue, piled>>
  BY DEF I2CCallback, bounds
<1>3. /\ TxLen > 0 /\ TxLen' = TxLen - 1 /\ RxLen' = RxLen
      /\ TxLen' = 0 <=> Tail(txQueue) = <<>>
  <2>1. txQueue \in Seq(Writes) /\ txQueue # <<>>
    BY TypeParts DEF ImuInv, QueueTypes, Safe, TaskInv
  <2>2. Len(Tail(txQueue)) = Len(txQueue) - 1 /\ Tail(txQueue) \in Seq(Writes)
    BY <2>1, HeadTailProperties
  <2>3. Len(Tail(txQueue)) = 0 <=> Tail(txQueue) = <<>>
    BY <2>2, EmptySeq
  <2>4. RxLen' = RxLen
    BY <1>2, SameLengths
  <2>5. TxLen > 0
    BY <1>1, <2>1
  <2> QED
    BY <1>2, <2>2, <2>3, <2>4, <2>5 DEF TxLen
<1>4. \/ TxLen' = 0 /\ initState = "wait_reset_steps" /\ initState' = "configure"
         /\ UNCHANGED <<logic, testState>>
      \/ TxLen' = 0 /\ initState = "wait_configure" /\ initState' = "done" /\ logic' = "get_step"
         /\ UNCHANGED testState
      \/ TxLen' = 0 /\ initState # "wait_configure" /\ testState \in {"wait_configure", "wait_enable"}
         /\ testState' = "wait" /\ UNCHANGED <<logic, initState>>
      \/ /\ initState = "wait_configure" /\ ~txDone => TxLen' > 0
         /\ UNCHANGED <<logic, initState, testState>>
         /\ initState = "wait_configure" => UNCHANGED txDone
  <2>1. CASE Tail(txQueue) = <<>> /\ ~txDone
    BY <1>2, <1>3, <2>1 DEF OnTxDone
  <2>2. CASE ~(Tail(txQueue) = <<>> /\ ~txDone)
    BY <1>1, <1>2, <1>3, <2>2 DEF logicVars
  <2> QED
    BY <2>1, <2>2
<1>5. PhaseRoom'
  BY <1>1, <1>2, <1>3, <1>4 DEF Room, PhaseRoom, Tests
<1>6. RxRoom'
  BY <1>1, <1>2, <1>3, <1>4 DEF Room, RxRoom, Tests
<1>7. TxRoom'
  BY <1>1, <1>2, <1>3, <1>4 DEF Room, TxRoom, Tests
<1> QED
  BY <1>5, <1>6, <1>7 DEF Room

LEMMA RoomKeeps ==
  ImuAssumption /\ ImuInv /\ Room /\ [Next]_imuVars /\ [~LateReset]_imuVars => Room'
<1> SUFFICES ASSUME ImuAssumption, ImuInv, Room, [Next]_imuVars, [~LateReset]_imuVars PROVE Room'
  OBVIOUS
<1>1. CASE UNCHANGED imuVars
  <2>1. UNCHANGED roomVars /\ UNCHANGED task
    BY <1>1 DEF imuVars, roomVars, serviceVars, logicVars, bounds
  <2> QED
    BY <2>1, StillRoom DEF Room, PhaseRoom
<1>2. CASE ~UNCHANGED imuVars
  <2>1. ~LateReset /\ Next
    BY <1>2
  <2>2. CASE ServiceRoutine
    BY ImuAssumption, <2>1, <2>2, ServiceRoom
  <2>3. CASE LogicRoutine
    BY ImuAssumption, <2>1, <2>3, LogicRoom
  <2>4. CASE GyroSelfTest
    BY ImuAssumption, <2>4, SelfTestRoom
  <2>5. CASE I2CCallback
    <3>1. state \in {"reading", "writing"}
      BY <2>5, CallbackIs DEF Room, PhaseRoom
    <3> QED
      BY ImuAssumption, <2>5, <3>1, PopRoom, RxDoneRoom, WrittenRoom
  <2>6. CASE Complete
    <3>1. UNCHANGED roomVars
      BY <2>6 DEF Complete, roomVars, serviceVars, logicVars
    <3>2. state # "init"
      BY <2>6 DEF Complete, ImuInv, Safe, TaskInv
    <3> QED
      BY <3>1, <3>2, StillRoom
  <2>7. CASE Error
    <3>1. UNCHANGED <<task, piled, testState>>
      BY <2>7 DEF Error, ResetAll, logicVars
    <3>2. CASE registered
      BY <2>1, <2>7, <3>1, <3>2, ResetRoom DEF Error
    <3>3. CASE ~registered
      <4>1. UNCHANGED roomVars
        BY <2>7, <3>1, <3>3 DEF Error, roomVars, logicVars
      <4> QED
        BY <3>1, <4>1, StillRoom DEF Room, PhaseRoom
    <3> QED
      BY <3>2, <3>3
  <2>8. CASE Hang \/ Walk
    <3>1. UNCHANGED roomVars /\ UNCHANGED task
      BY <2>8 DEF Hang, Walk, roomVars, serviceVars, logicVars, bounds
    <3> QED
      BY <3>1, StillRoom DEF Room, PhaseRoom
  <2> QED
    BY <2>1, <2>2, <2>3, <2>4, <2>5, <2>6, <2>7, <2>8 DEF Next
<1> QED
  BY <1>1, <1>2

(* As long as no time-out comes between an interrupt and its task, the     *)
(* queues of ImuService hold what ImuLogic needs at a time (the reads of a *)
(* measurement, or two writes), and one item more for each self-test that  *)
(* was begun since one found them empty: whatever fails, and however often *)
(* the sensor is reset. *)
THEOREM QueuesStayShort ==
  Spec /\ [][~LateReset]_imuVars => [](Len(rxQueue) <= Axes + piled /\ Len(txQueue) <= 2 + piled)
<1>1. Init => ImuInv /\ Room
  BY ImuAssumption, InitImuInv, InitRoom
<1>2. (ImuInv /\ Room) /\ [Next]_imuVars /\ [~LateReset]_imuVars => (ImuInv /\ Room)'
  BY ImuAssumption, TypesKeep, SafeKeeps, RoomKeeps DEF ImuInv
<1>3. Room => Len(rxQueue) <= Axes + piled /\ Len(txQueue) <= 2 + piled
  BY DEF Room, RxRoom, TxRoom, RxLen, TxLen
<1> QED
  BY <1>1, <1>2, <1>3, PTL DEF Spec

(* ImuTypeOK: then QueueReadReg and QueueWriteReg, which assert that the   *)
(* queue is not full, find room in it, if the queues have more places than *)
(* a measurement has reads and self-tests are begun without finding them   *)
(* empty: three with the firmware's ten places and six reads, whatever     *)
(* else happens and however often. *)
THEOREM QueuesHaveRoom ==
  QueueSize > Axes + MaxPiled /\ Spec /\ [][~LateReset]_imuVars => []ImuTypeOK
<1> SUFFICES ASSUME QueueSize > Axes + MaxPiled
             PROVE  Spec /\ [][~LateReset]_imuVars => []ImuTypeOK
  OBVIOUS
<1> DEFINE Short == Len(rxQueue) <= Axes + piled /\ Len(txQueue) <= 2 + piled
<1>1. ImuInv /\ Short => ImuTypeOK
  <2> SUFFICES ASSUME ImuInv, Short PROVE ImuTypeOK
    OBVIOUS
  <2>1. RxLen \in Nat /\ TxLen \in Nat /\ piled \in Nat /\ Axes \in Nat \ {0, 1}
    BY ImuAssumption, LengthsAre
  <2>2. piled <= MaxPiled /\ MaxPiled \in Nat /\ QueueSize \in Nat
    BY ImuAssumption, TypeParts DEF ImuInv, BoundTypes
  <2>3. Len(rxQueue) < QueueSize /\ Len(txQueue) < QueueSize
    BY <2>1, <2>2 DEF RxLen, TxLen
  <2>4. ImuTypes
    BY DEF ImuInv, TypeInv
  <2> QED
    BY <2>3, <2>4 DEF ImuTypeOK
<1>2. Spec /\ [][~LateReset]_imuVars => []Short
  BY QueuesStayShort
<1> QED
  BY <1>1, <1>2, ImuInvHolds, PTL

=============================================================================
