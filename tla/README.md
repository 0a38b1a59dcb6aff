# Verification of the HITCON badge firmware

TLA+ models of the firmware in `src/fw/Core/Hitcon`, TLC runs that check them on
small instances and TLAPS proofs for every value of the constants.

- [1 The system](#1-the-system): inventory of the parts, what they keep and do
- [2 The modules](#2-the-modules): which module models which code, and how
- [3 The runs](#3-the-runs): what each run checks and shows, bounds, fairness
- [4 Disagreements found](#4-disagreements-found)
- [5 The proofs](#5-the-proofs)
- [6 Not modelled](#6-not-modelled)
- [7 Plan](#7-plan)

To check a run: `tlc -config nv_store.cfg MCNvStorage.tla`. To check the proofs of
a module: `tlapm StorageProofs.tla`, and so with every `*Proofs.tla`.

## 1 The system

The badge is an STM32F103 without an operating system. One main thread runs the
cooperative scheduler; the hardware calls back in interrupts (DMA and USB at
priority 0, the UART at 3). Nothing is locked, except that `Scheduler::Queue`
disables interrupts around its push. So there are three kinds of concurrency:
tasks interleave at their ends only, an interrupt may come between any two
instructions of a task, and two boards or a badge and a PC share nothing but
messages. RAM is lost at a reset; only the flash stays.

### 1.1 Storage

| Part | State | Operations | Interacts with |
|---|---|---|---|
| `FlashService` | state machine of 8 states, target address, buffer pointer, indices, count of words being programmed, time-out counter | `ProgramPage`, `ErasePage`, `ProgramOnly` (from tasks and from the USB interrupt), `Routine` every 20 ms, end-of-operation interrupt | HAL flash driver, `Suspender`; clients pass a pointer to a buffer it reads later |
| `Suspender` | number of blockers, suspended flag | `IncBlocker`, `DecBlocker`, `TrySuspend`, `TryResume` | IR (a packet on its way), XBoard (a peer connected) hold blockers; the interrupts of display and IR do nothing while suspended |
| `NvStorage` | RAM copy, snapshot buffer, dirty and force flags, next page, cycle counters, completion callback | `Init` (scan, migrate), `MarkDirty`, `ForceFlush`, `Routine` every 100 ms | all applications change the RAM copy; `FlashService` |
| `UsbLogic` | state that doubles as the meaning of the next report, script length and index, buffer of one report, new-data flag | `OnDataRecv` (USB interrupt), `WriteRoutine` (task), `RunScript`/`StopScript`/`Routine`, memory commands | `FlashService` page 0, `NvStorage` (name), scheduler, host |
| host tool (`sw/BadgeCommander/STM32HID.py`) | position in the protocol | clear, write script, set name | `UsbLogic` through HID reports and answers |

Hard: power loss at any point of a flush, of which each takes two erases and
some twenty words; two clients of one flash service, one of them in an
interrupt; an erase whose interrupt never comes; records of an older schema; a
host that takes an answer for more than it says. Correct means: a reset brings
back a value that was saved, whole and never older than the last completed
save; generations never tie; page 0 belongs to the script; the service never
gets stuck; interrupts are held back during an erase and never longer.

### 1.2 Scheduler (`Service/Sched`)

State: heap of ready tasks (by priority), heap of delayed ones (by wake time),
two rings for calls from interrupts, arrays of enabled and disabled periodic
tasks, the running task. Operations: three `Queue`s, `EnablePeriodic`,
`DisablePeriodic`, `Run`, `AutoRequeueCb`. Every other part runs on it. Hard: a
task that enables, disables or requeues itself while it runs; tasks disabled
while queued in any of four places; queues at their limit; calls from an
interrupt into functions that must not be. Correct means: an enabled task is
queued exactly once, a disabled one nowhere, an accepted call runs once, no
task runs early, the highest priority is not starved.

### 1.3 Board-to-board link (`Service/XBoardService`, `Logic/XBoardLogic`)

State: transmit ring with busy flag, receive ring, restart counter; ping flag,
pong flags, missed-pong count, peer. Operations: `QueueDataForTx`, transmit and
receive interrupts, `Routine` every 10 ms, `ParsePacket` every 20 ms,
`PingRoutine` every 200 ms. It calls the applications when a peer connects,
disconnects or sends a packet, and takes a blocker while connected. Hard: a ring
shared by an interrupt and a task, bytes lost or spoilt, resynchronisation on a
preamble that may occur in a payload, two unsynchronised clocks, unplugging and
plugging into something else. Correct means: bytes go out once and in order, a
packet that arrived whole is received once and in order whatever came before,
the parser never wedges, two connected boards find each other, stay connected
and let go when unplugged, with one blocker held exactly while connected.

### 1.4 Infrared (`IrService`, `IrLogic`, `IrController`)

State: `tx_state` (idle, waiting for quiet, collision back-off, header, body)
with a position, DMA double buffers both ways, receive state machine (start,
size, data, checksum, reset), retransmit slots. Operations: `SendBuffer`, DMA
interrupts, `PullRxDmaBuffer`, `PopulateTxDmaBuffer`, `Routine`,
`OnBufferReceived`, `SendPacket`, `Send2Game`. Hard: half buffers overrun by the
DMA, a receive task queued again while it still works on the last buffer,
collisions, blockers taken at the header and given back in a later bit, a packet
buffer overwritten while sent. Correct means: blockers balance, the
bytes of a packet are on the air once and in order, no received half is
overwritten while it is read, a packet once accepted is sent when the air is
quiet, and the flash gets its turn.

### 1.5 Signing and game (`EcLogic`, `HashService`, `SignedPacketService`, `GameController`, `GameScore`, `RandomPool`, `EntropyHub`, `NoiseSource`)

State: step and operands of a point multiplication split into tasks, hash
progress, packet slots with a state each, pool of entropy, phases of seeding.
Hard: one computation engine shared by users who are told to come back later,
`StopHash` against a callback, slots full. Correct means: each accepted request
ends in one callback, with its own data.

### 1.6 Sensors, display, buttons (`ImuService`, `ImuLogic`, `DisplayService`, `DisplayLogic`, `ButtonService`, `ButtonLogic`)

State: I2C queues and state with a time-out, self-test and step counting phases,
frame buffers, debounce counters and queues of button events. Hard: an I2C
interrupt against the time-out that resets the bus and clears the queues, DMA
half buffers. Correct means: every request is answered or the whole sequence
restarts; every press is reported once as short or long.

### 1.7 Applications (`BadgeController`, `App/*`)

State: the current application, a stored one, the state of each application (the
pet of `TamaApp`, the multiplayer games, the QR and vault dialogues). The
controller changes applications from button, cable and USB events. Hard: an
event from a peer or the cable in any state of an application, one application
ended by another's callback, two boards that each start, abort and finish a game
over a lossy link. A game's packet handler stays registered when the game is
left. Two pets battle by repeating one packet with their state; nothing is
acknowledged and each badge decides by itself who won. Correct means: the
periodic task of an application runs exactly while it is shown; no game is shown
that is over; a badge gets out of what it is in; a battle ends on both badges,
and they do not both win.

### 1.8 Off the badge (`base-station`, `backend`, `web`, `sw/provisioner`, `sw/serial-pc`, `sw/secret-mining`)

The base station bridges IR packets between serial port and HTTP backend, the
backend verifies packets and keeps the game in a database, the web shows it, the
provisioner writes firmware and secrets. Hard: lost or repeated packets between
badge, station and backend, answers matched by sequence numbers, concurrent
updates of one user's state.

## 2 The modules

| Module | Code | Extends |
|---|---|---|
| `FlashService` | `Service/FlashService.cc`, `Service/Suspender.cc`; external: flash controller | |
| `NvStorage` | `Logic/NvStorage.cc` | `FlashService` |
| `DurableStore` | abstract specification: what storage promises | |
| `UsbScript` | `Logic/UsbLogic.cc`, `sw/BadgeCommander/STM32HID.py` | `NvStorage` |
| `Heap` | `Service/Sched/Ds/Heap.h` | |
| `HeapQueue` | the heap with tasks entering, taken and cancelled | `Heap` |
| `Scheduler` | `Service/Sched/*` , `Util/CircularQueue.h` | `Heap` |
| `XBoardLink` | `Service/XBoardService.cc`, `Logic/XBoardLogic.cc` up to `ParsePacket` | |
| `XBoardPeers` | `Logic/XBoardLogic.cc` from `CheckPing` on, two or three boards | |
| `IrLink` | `Service/IrService.cc`, `Logic/IrLogic.cc`, with `Suspender` | |
| `BadgeApps` | `Logic/BadgeController.cc`, `App/MultiplayerGame.cc`, `SnakeApp.cc`, `TetrisApp.cc`, what the menus and `ShowNameApp.cc` do to the controller; two badges | |
| `PetBattle` | `App/TamaApp.cc`: the battle of two badges, and what shares state with it | |
| `ImuBus` | `Service/ImuService.cc`, `Logic/ImuLogic.cc`; external: sensor, I2C peripheral | |
| `MC*` | instances for TLC | the module they are named after |
| `StorageProofs` | proofs about `NvStorage` and `UsbScript` | `UsbScript`, `TLAPS` |
| `SchedulerProofs`, `IrLinkProofs`, `XBoardLinkProofs`, `XBoardPeersProofs`, `BadgeAppsProofs`, `PetBattleProofs`, `ImuBusProofs` | proofs | the module they are named after, `TLAPS` |

**Where the main thread is.** Each module with interrupts has a variable `mpc`.
Between two tasks it is `"idle"` (in `Scheduler`, `"loop"`); the code between two
values of `mpc` is one step, and labels are put where an interrupt that comes in
between makes a difference. Actions of interrupts do not look at `mpc`.

**Flash.** A page is a function from words to cells, each erased, garbage or the
image its word was copied from; a record is valid when all its words come from
the same image, which is what the checksum establishes. Words are programmed one
by one and the two 1 KB pages of a page are erased one by one, with an interrupt
or a reset possible in between. A client's buffer is read when a word is
programmed, not when the service is called (`mem` is kept by client). A
programming error leaves `pending` up, as the error callback is a no-op. The
end-of-erase interrupt may be lost (`EraseMayHang`), which the 1000 polls of
`FS_ERASE_WAIT` are there for.

**Storage.** `Boot` computes from the flash what `NvStorage::Init` leaves in RAM
and is used for the first boot and for `Reset`, which may happen in any state.
`NvRoutine`, `NvCheck`, `NvAddr`, `NvStart`, `NvFinish` are one run of
`NvStorage::Routine`, cut where the USB interrupt may come in: before
`ProgramPage` tests the state, between its test and `_addr`, between `_addr` and
the rest, before the assignments after it. Only the order of the generations
matters, so wrap-around of the 32-bit generation is not modelled (a badge that
flushes every 50 s needs 3000 years). Payloads are values of a small set.

**USB.** `OnDataRecv` is one step (it is an interrupt), dispatched as in the
code on the state, which the report's first byte sets when idle. The host reads
one answer after the clear command and before each report but the first; answers
it has not read are kept by its system. A report is one word, because one run of
`FS_PROGRAM` programs it whole. A name comes in four reports; `RecvNamePart` copies
one into the record in RAM, where any flush may pick it up, and stays in `SET_NAME`,
and `RecvNameEnd`, the last, sets the whole name, marks the storage and forces a
flush. The payload of a record is therefore a pair, the name and the rest, and a name
made of two is one value (`Mixed`). Applications leave the name as it is or set a
whole one (`AppsKeepNames`); a report may also cut into the copy of the snapshot. The
clear command may come anywhere in the main
thread; `EraseMayCutIn` = FALSE keeps it out of one place, between `_addr = ...` and
`_state = FS_UNLOCK` of `ProgramPage` (FlashService.cc:58-63), a window of a few
instructions in which it does harm (section 4).

**Scheduler.** Time is relative: `wake` holds the ticks left. `Dispatch` is
`DelayedHouseKeeping` and the choice of the task, `EndCallback`, `Requeue` and
`Return` are the rest of `Run`, with `AutoRequeueCb` cut after its test of
`enabled`. While a callback runs it may make up to `MaxCalls` calls. The heaps
are heaps, with the code's sift functions, so that the order among equals is the
code's. A loop of the code is a function of the number of its rounds (`Iterated`):
its body is a function on the loop's state that stays where the loop has ended
(`Climb`, `Sink`, `MoveOne`, `ReleaseOne`), taken as often as the loop may turn.
The calls are those that Scheduler.h allows. `UsbLogic::OnDataRecv` also calls
`EnablePeriodic` in the USB interrupt, which may cut into `Heap::Add`, `Heap::Remove`
or the loops of `DelayedHouseKeeping` at any instruction; that is not modelled
(section 4).

**Link.** One direction byte by byte. Seven preamble bytes `0x55` are one byte
`Pre`, the four of the checksum one byte `Crc` that holds what it was computed
from. The step `"kicked"` of the sender is the window between
`HAL_UART_Transmit_IT` and the assignment of `_tx_buffer_head`; the transmission
complete interrupt falls into it only if the main thread is held up for a byte
time (`KickMayStall`). Auxiliary variables: what was queued, what is in the ring
or on the line, which frames arrived whole, which were received.

**Peers.** Rounds are runs of `PingRoutine`. Clocks drift; `InTime` allows each
board at most `MaxRounds` rounds between two of the other's and none while a
packet is on its way twice, which follows from 200 ms periods, jitter below
80 ms and 30 ms to send and parse a packet. Three kinds of devices, a cable that
may be unplugged and plugged elsewhere, packets lost.

**Infrared.** A tick is the time the transmit DMA takes for half of its buffer, in
which it sends the header or one byte; the receive DMA takes two ticks for a half
of its own. An interrupt only queues a task. The transmit interrupts do not when it is
queued already (`tx_dma_queued_`); the receive interrupts do (IrService.cc:32-42, and
`Scheduler::Queue` does not ask), so `pulls` counts how often `PullRxDmaBuffer` is
queued. After a hold-up it runs twice on end: both runs take the half that is
full now, the one before is lost, and `rx_buffer_base` moves on twice.
`PopulateTxDmaBuffer`, `PullRxDmaBuffer`, `OnBufferRecvWrapper`,
`OnBufferReceived` and `Routine` are one action each, with the priorities the
code gives their tasks (`PullTurn`, `RunnerTurn`). Two assumptions bound how late
tasks may be: another task holds the main thread for `MaxHeld` ticks on end, and
the receiving tasks, which have the lowest priority of the five, catch up within
`RxSlack` ticks. The air is not a variable: what a pull or a run of the decoder
reads is chosen when it is read, quiet or not, and for the decoder any of the
outcomes the code has for the samples of one byte (`Samples`). What the code does
with a size bit that is neither 0 nor 1 (it leaves the rest of the half unread)
is in `Returns`. Auxiliary: whether a half was refilled late since the last
silence, and whether a collision was seen.

**Applications.** One action per button, packet and run of a periodic task, each
with everything it calls: `change_app` runs the exit of one application and the
entry of the next, a packet may start, abort or end a game whatever is shown, and
`RestoreApp` clears `stored_app` after the change. `EnablePeriodic` and
`DisablePeriodic` are modelled with the assertion they end in when the task is
enabled (or disabled) already, which a release build passes over: `failed` keeps
that it happened. The boards of the games are left out: a run of the game may or
may not end it. A packet is lost or reaches the other badge in order; the link
below is `XBoardLink`'s and `XBoardPeers`' business, of which `Connect` and
`Disconnect` are the callbacks.

**Battle.** `Routine` is `XbRoutine`: it sends the packet as it was and then moves
on. The other badge parses every 20 ms and this one sends every 500 ms, so a
packet is parsed or lost before the next is sent. `OnXBoardRecv` acts on a state
that differs from the last one seen. `MaxLost` packets in a row may be lost and
one routine may run `MaxLead` times between two runs of the other's. The single
player is there as far as it changes what the battle reads: training plays the
same reaction game, levels multiply the score, hunger and healing set the hit
points. `battles`, `battle` and `verdict` are history: which of a badge's battles
a score belongs to, and what each badge decided on which two scores.

**Motion sensor.** `ServiceRoutine` and `LogicRoutine` are the two periodic
routines, `I2CCallback` is the task the end of a transfer queues, with `OnRxDone`
and `OnTxDone`, which it calls. A transfer ends (`Complete`), fails (`Error`, the
error interrupt, which resets all by itself) or hangs (`Hang`) between two runs of
the service's routine; a hung one may still end. One routine may run between the
interrupt and its task, the one it interrupted. `HAL_I2C_Init` forgets the
callbacks (`registered`): a transfer that begins before `INIT` has run again ends
unheard. A register's value is one of two where the code tests one bit, and the
sensor's counter is kept as a number of which a read returns one byte. The
routines drift: the service's runs once or twice to one of the logic's
(`MaxTurns`). Auxiliary: steps taken, whether a carry fell between the two reads,
whether a read is owed a callback.

## 3 The runs

| Run | Specification | Checks | Distinct states |
|---|---|---|---|
| `nv_store` | `NvStorage!Spec` | `CleanMeansDurable`, `GenerationAboveFlash`, `SuspendedForErase`, refinement of `DurableStore` | 495 000 |
| `nv_live` | `NvStorage!FairSpec` | `ProgramsErasedCells`, `FlushCompletes` | 18 000 |
| `usb_store` | `UsbScript!UsbSpec` | `UsbTypeOK`, `ScriptPageReserved`, refinement of `DurableStore` by all but the name (`RestDurableSpec`) | 906 000 |
| `sched` | `Scheduler!FairSpec` | `EnabledIsScheduled`, `AcceptedRunsOnce`, `ReadyIsDue`, `HighestPriorityRuns` | 12 500 |
| `xlink` | `XBoardLink!FairSpec` | `LinkTypeOK`, `SentInOrder`, `NeverSkipsWhole`, `GotInOrder`, `TxDrains`, `RxDrains` | 199 000 |
| `xpeers` | `XBoardPeers!FairSpec` | `PeersTypeOK`, `PeerIsReal`, `BlockersMatchPeer`, `StaysConnected`, `PeersSettle` | 978 000 |
| `ir` | `IrLink!FairSpec` | `BlockersBalance`, `AirInOrder`, `ReceiverKeepsUp`, `PacketGoesOut`, `FlashGetsIn` | 421 000 |
| `games` | `BadgeApps!Spec` | `AppsTypeOK`, `TasksFollowApps`, `SnakeInFrontNotOver`, `StrandedByRestore` | 367 000 |
| `battle` | `PetBattle!FairSpec` | `PetTypeOK`, `VerdictsAgree`, `BattleEnds` | 685 000 |
| `imu` | `ImuBus!FairSpec` | `ImuTypeOK`, `StepsAreReal`, `AnswersFit`, `StepsKeepComing` | 641 000 |
| `heap_cancel`, `games_back` | | one property each that the code does not have, section 4 | |

**`nv_store`.** Four pages, so that the round robin over three of them passes the
reserved page and meets a page again; two words in a record (one more than what
tears it) in the first of two erase units; one word per run; one reset in any
state, also between two words or two erases; old records of both schemas, short
and full, the v0 one with a higher generation than the v1 ones; one blocker; up
to two flushes after the boot (`MaxGen`). What it shows: no order of writes,
flushes, blockers, lost erase interrupts and a reset loses or mixes records.
`CleanMeansDurable` shows that clearing the dirty flag when programming only
starts loses nothing. A second reset adds nothing new: `IInv` (proved,
section 5) holds in every state a reset can leave and every boot starts from it.

**`nv_live`.** The same without lost interrupts, three pages, and fairness. The
writes are over after `MaxGen`, the blockers are not.

**`usb_store`.** Three pages, the fewest that have a round robin besides page 0; two
scripts of 4 bytes, which the host sends in two reports each, or names of four reports,
or one of each, at any point of a flush; a reset; generations up to `MaxGen` = 3 before
a flush, enough for the round robin to come back to the page of the first record, where
what an earlier flush spoiled shows. With `MaxGen` = 4 the run passes too (3 639 000
states, too long to be repeated). Flushes that save half a name are among its states;
what `RestDurableSpec` promises is that they save the rest of the record whole and lose
nothing of it. The clear command does not come in the window of section 4
(`EraseMayCutIn` = FALSE). `ScriptPageReserved` is checked here and not in `nv_store`,
because what could send a record to page 0 is the round robin or a request built with
the script's. A length that is not a multiple of 8 is the worse case for what lies
beside the script: the test of `_program_index` does not see the last report
(UsbLogic.cc:156), the badge stays in `WRITING`, and the clear command of the second
script is programmed over the first.

**`sched`.** Three periodic tasks (one alone at the top, two equally urgent) and a
one-shot task queued from interrupts, rings of one place, heaps that can hold
all. Two calls per callback make a task disable and enable itself and another
one at once. The firmware's heap of 40 and 32 places and rings of 9 are larger
than the tasks it has at any time, but nothing checks it (`SchedulerAssumption`
says what is assumed); a ring that is full is in the run.

**`xlink`.** Two frames, rings of 4 and 7 bytes that are both shorter than two
frames, two bytes lost or spoilt anywhere, a payload that looks like the start of
a packet. Every way to lose the beginning, the middle or the end of a packet
before a whole one is in it.

**`xpeers`.** Two badges and a QR station, two events (plugging, losing), unplugging
free. `MaxStale` = 4 is tight: with 3 rounds TLC finds a counterexample, the
missed-pong count starting anew after a pong that was still in the queue.
`StaysConnected` promises nothing before a board is calm (`link`): before a round,
not the first since the cable was touched or a packet lost, has got a pong of the kind
at the other end. A weaker condition is not enough. With three pluggings within a
round (badge, station, the same badge) a board connects by a pong that was under way
before the last of them, has no pong of the new connection near, and jitter makes it
miss three; TLC finds that with three events, once calm is taken to begin with the
connection. As it is stated here the property holds with three events too (6 081 000
states without liveness, too long for a run that is repeated) and is proved for any
number (section 5).

**`ir`.** Packets of header, three bytes and checksum's worth: the shortest the code can
send, which is the worst case for the look for a collision after the release (see
section 5). Two pulls to a half of the receive buffer instead of four, so that the
buffer still wraps within a packet; one tick lost to another task, which is what makes a
populate task late, and queues a pull twice; one disturbance, which is enough for a
collision or for a header found in noise while a packet waits. What it shows: every
blocker is given back exactly once, whatever the air does, and a packet on the air is
whole unless a half was late, the flash was being erased, or a collision cut it.

**`imu`.** Bytes of two values, so that the counter carries and wraps; two
registers for a measurement instead of six and one measurement for each half of a
self-test instead of six; two runs until a transfer is given up, two busy flags
until a reset; 28 runs of the logic in one state, which is above what the longest
initialisation takes after a reset that met a self-test (with 20 the count comes
first, again and again; the code has 250). Two events of any kind: a step, a
failed, hung or refused transfer, a busy bus, a wrong or late answer, a self-test.
`MaxPiled`, how many self-tests begin without one finding the queues empty, is 2, the
number of the events.
What it shows: from every fault the badge gets back to counting, though a wrong
identity and a repeated read leave the service in a state nothing was written for;
what is left in the queues of an earlier phase is never taken for an answer; no
step is made up but by a carry.
The count of runs in one state also resets a sensor that answers: both reads are
over before the logic's next run, which finds `GET_STEP` every time, so the badge
switches its sensor off every 50 s (ImuLogic.cc:98); what was walked meanwhile is
lost, but not counted twice.

**`games`.** Two badges, symmetric; both games, so that a packet of one reaches a
badge that shows the other; two games chosen, two packets on their way to a
badge, one connection lost and one text shown. With these a badge can meet
START, ABORT, GAME_OVER and its acknowledgement in every application.

**`battle`.** Pictures of four frames instead of eight, and `MaxLost` + `MaxLead`
below that: the last packet of a battle is repeated for `Frames` runs, and the run
shows that this is enough without an acknowledgement. Scores one ordinary and one
critical, two levels, three entries and one upset (the application left, a level
gained, a training, hunger): the second entry of one badge may meet what is left
of the first battle on the other.

**Fairness.** Tasks are weakly fair because the scheduler runs each periodic task
(`sched` checks that an enabled task is queued and the most urgent one runs),
interrupts because the hardware raises them, `DecBlocker` because a packet ends
and a peer times out (`PeersSettle`), the reaction game because it ends by itself
after five rounds. Two kinds of strong fairness: `TrySuspend` in `nv_live`, polled
every 20 ms, is assumed to meet a moment without a blocker if there are such
moments again and again; `Routine` and `TryResume` in `ir` are assumed to get
the main thread although other tasks may take it time and again. Applications,
hosts, cables, noise, players and resets owe nothing, nor does an I2C transfer that
hangs. No lost interrupt in
`nv_live` and, in `FairSpec` of `XBoardLink`, no stalled kick.

**Deadlock** is checked in all passing runs but `games` and `battle`: there only
people and timers act, and what they may do is counted, so a state in which all
counts are used up and nothing is on its way has no step left.

## 4 Disagreements found

Each is a run with one property, taken from a comment, a document or an
assertion, that TLC refutes.

- `heap_cancel`: `Heap::Remove` moves the last item into the hole and only sifts
  down (Heap.h:83-85). If it came from another subtree it may be smaller than its
  new parent, and a task that `DisablePeriodic` removed leaves a heap whose top is,
  after further steps, not the most urgent task.
- `games_back`: `BackToMenu` asserts that the application that ends is the one
  shown (BadgeController.cc:103). A badge that has played Snake is in a menu or in
  Tetris when its peer aborts a game of Snake: the handler is still registered
  (MultiplayerGame.cc:23) and Snake ends an application that is not Snake.

More have no run of their own. Each shows with a few lines of a configuration
changed:

- "page 0 is reserved for badusb script" (NvStorage.cc:212): `ProgramPage` sets
  `_addr` and then `_state` (FlashService.cc:58, 63). When the host's clear command
  interrupts it in between, `ErasePage` finds the service idle and sets `_addr` to
  page 0, and the main thread goes on: the record is programmed into page 0, and
  `NvStorage` takes it for saved: a reset brings back the value before it. The round
  robin moves on although it got nothing newer; if that happens as often as there
  are spare pages (once with the run's three pages, six times running with the
  firmware's eight), the next flush erases the newest record there is.
  (`usb_store.cfg` with `EraseMayCutIn = TRUE`: `ScriptPageReserved` is violated, and
  with `MaxGen = 4` and `MaxSessions = 1` also `RestDurableSpec`.)
- The answer "program partial done" (UsbLogic.h:58-60) is sent before the words
  are programmed from the report's buffer, and the host's next report may
  overwrite it. (`usb_store.cfg` with `ScriptLens = {8}`, `Chunks = {c1, c2}`,
  `MaxSessions = 1`, `MaxResets = 0`: `ScriptFaithful` is violated.)
- "the callback will be called when all read operations are done"
  (ImuService.h:62): not for a read queued by the callback itself, because
  `_is_rx_done` is set after it (ImuService.cc:93-94). A sensor whose reset or
  data is not ready at once is therefore waited for until the logic's routine has
  found the same state 250 times. (`imu.cfg` with `CallbackWhenDone`.)
- "return the step count since last init" (ImuLogic.h:46): the two bytes of the
  sensor's counter are read 100 ms apart, and a carry in between makes up steps,
  up to `SHAKING_THRESHOLD * 2` of them at a time. (`imu.cfg` with `CountsSteps`.)
- `UsbLogic::OnDataRecv` calls `EnablePeriodic` in the USB interrupt
  (UsbLogic.cc:65, 73), which Scheduler.h:90 rules out. `WriteRoutine` disables
  its own task when it is done (UsbLogic.cc:145, 158); when the next command comes
  after `AutoRequeueCb`'s test of `enabled` and before `currentTask` is cleared,
  `EnablePeriodic` leaves the queueing to a requeue that is over: the task is
  enabled and queued nowhere, and never runs again. It may also come in the middle of
  `Heap::Add` or `Heap::Remove`. (Found by reading: no run or theorem has this call.)
- `OnDataRecv` copies a name report by report into the record that `NvStorage`
  flushes (UsbLogic.cc:50), and only the last report calls `SetName`. A flush between
  two reports saves a part of each name, and if the badge is reset before the next
  one, that is its name. (`usb_store.cfg` with `INVARIANT NameIsWhole`.)
- A name that is complete between `ProgramPage` and `storage_dirty_ = false`
  (NvStorage.cc:214-218) is marked dirty and unmarked at once: it is not flushed.
  (`usb_store.cfg` with `MaxResets = 0`, `MaxSessions = 1`, `INVARIANT
  MarkedIsFlushed`.)
- The host does not read the answer to a script's last report, and takes it for
  the answer to its next clear command. (`usb_store.cfg` with `AnswerMeansErased`.)
- The interrupt may come after `HAL_UART_Transmit_IT` and before `_tx_buffer_head`
  moves (XBoardService.cc:72-73), which sends the same byte twice and passes over
  another. (`xlink.cfg` with `SPECIFICATION Spec` and `KickMayStall = TRUE`:
  `SentInOrder` is violated.)

## 5 The proofs

### Storage

`StorageProofs` proves for every number of pages from 3 on, every record
length that fits the first erase unit, every number of words per run, resets,
blockers, values, old records and time-outs (`FlashAssumption`, `NvAssumption`):

| Theorem | Statement |
|---|---|
| `Invariance` | `Spec => []IInv` |
| `TypeCorrect` | `Spec => []TypeOK` |
| `ScriptPageIsReserved` | `Spec => []ScriptPageReserved` |
| `GenerationsRise` | `Spec => []GenerationAboveFlash` |
| `CleanIsDurable` | `Spec => []CleanMeansDurable` |
| `ErasesAreSuspended` | `Spec => []SuspendedForErase` |
| `StorageIsDurable` | `Spec => DurableSpec` |
| `OnlyErasedIsProgrammed` | `EraseMayHang = FALSE /\ Spec => []ProgramsErasedCells` |

The inductive invariant is `TypeOK /\ PhaseInv /\ FlashInv`. None of the
properties is inductive alone. That the recovered value is never lost needs that
the page being erased does not hold the newest record (`Spared`), which needs
that the page after the one last written is never the newest, which needs that
the records are ranked without ties (`Ranked`), which needs the generations; and
that a finished flush is the new newest record needs that the words programmed
so far come from one snapshot (`Written`). `PhaseInv` ties the program counter,
the state of the service and its request together, so that each action is
considered in the one phase it belongs to.

The lemmas come first: how a changed page changes the set of valid pages and
the newest record, what `Boot` makes of a flash. Then one theorem per
action and part of the invariant, then the temporal theorems. The refinement
maps every step to a step of `DurableStore` or a stutter: the last word of a
record is its `Commit`.

`ProgramsErasedCells` needs an invariant of its own beside `IInv` (`ErasedInv`): the
controller pages below `_erase_page_id` are erased, but for the one the controller is
at, and while words are programmed all from `_program_page_id` on are. Its
assumption, that no end-of-erase interrupt is lost, is the one of `nv_live`: after a
lost one the cells may be half erased and the programming error is real.

### Storage with the USB interrupt

`StorageProofs`, for every script, host and bound (`UsbAssumption`, with the
assumptions of the storage; end-of-erase interrupts may be lost):

| Theorem | Statement |
|---|---|
| `UsbTypesHold` | `UsbSpec => []UsbTypeOK` |
| `UsbInvHolds` | `EraseMayCutIn = FALSE /\ UsbSpec => []UsbInv` |
| `ScriptPageIsKept` | `EraseMayCutIn = FALSE /\ UsbSpec => []ScriptPageReserved` |
| `GenerationsRiseWithUsb` | `EraseMayCutIn = FALSE /\ UsbSpec => []GenerationAboveFlash` |
| `ScriptErasesAreSuspended` | `EraseMayCutIn = FALSE /\ UsbSpec => []SuspendedForErase` |
| `StorageIsDurableWithUsb` | `EraseMayCutIn = FALSE /\ UsbSpec => RestDurableSpec` |

`ScriptPageIsKept` and `StorageIsDurableWithUsb` are false without the assumption
(section 4), and it is used in one place only: in the proof that the service and the
main thread stay in step (`UsbPhaseStep`), where the clear command comes while the main
thread is at `"start"`. `IInv` is no invariant here, because `addr`, `data` and
`eraseOnly` may be the script's. `UsbInv` has instead that each request is one client's
(`Requests`): one for page 0 is the script's, any other the record's, but while the main
thread is at `"start"`, when the address is set and the rest may still be of an erase of
page 0 that came just before (the clear command is then lost, but nothing else is). What
`IInv` says of the flash holds for the record's requests (`UsbRanked`, `UsbSpared`,
`UsbWritten`), and a request of the script changes no record, since page 0 holds none.
`RestDurableSpec` is `DurableStore` for the payload without the name: a report of a name
changes the record in RAM, and perhaps the snapshot, in the name only, which is a
stutter there (`NameFacts`), so that it may come at any point of a flush. Of the name
nothing of the kind holds (section 4). A word of a script is told from a record's
because the assumption says that reports are not records; no page but 1 and above is
ever scanned for them.

### Scheduler

`SchedulerProofs`, for any tasks, priorities and intervals, any size of the ring, and
any number of pending runs and of calls of a callback. `SchedulerAssumption` asks that
each heap has a place for every task that may be in it at once. For `delayed` the code
sees to that: it has 32 places, like the array in which every periodic task starts.
For `tasks` it does not: the 40 places are enough because most tasks belong to
applications, of which one is shown at a time, and when they are not
`DelayedHouseKeeping` asserts (Scheduler.cpp:117, 146), which is the end of what is
modelled. `Periodic` and `OneShot` stand for the tasks in use at once.

| Theorem | Statement |
|---|---|
| `SchedulerTypes` | `Spec => [](SchedTypeOK /\ HeapsFit)` |
| `AcceptedTasksRunOnce` | `Spec => []AcceptedRunsOnce` |
| `ReadyTasksAreDue` | `Spec => []ReadyIsDue` |
| `EnabledTasksAreScheduled` | `Spec => []EnabledIsScheduled` |
| `TopOfOrdered`, `HeapAddOrders`, `HeapRemoveOrders` | the top of an ordered heap is the smallest; `Add` keeps the order; `Remove` keeps it if the last item is no smaller than the parent of the place it takes |
| `MostUrgentRunsFirst` | `Spec /\ [][OrderlyDisables]_schedVars => MostUrgentFirst` |

All of them are about the calls that Scheduler.h allows. That an interrupt enables a
periodic task (section 4) is not among them: it may cut into a heap operation, after
which neither the number of the items nor their order need be right.

The heaps are dealt with once, apart from the scheduler. `HeapAdd` and `HeapRemove`
exchange items and do nothing else, so that whatever they compare, the number of times
each item is in the heap (`Count`) changes by the one added or taken out. The
scheduler's invariant then speaks of the sum over the two heaps and the two rings
(`Places`): a task that moves from ring to heap or from one heap to the other leaves it
alone. That a periodic task is in one place at most, and a one-shot task in as many as
it is owed runs, leaves room: were a heap full when a task is moved to it, there would
be more tasks waiting than there are (a pigeonhole argument, `HeapsFit`; `Released`
drops a task when `tasks` is full, and that never happens). `QueuedAtMostOnce` is
what `EnabledIsScheduled` needs: a task that is running and will be queued by
`AutoRequeueCb` is queued nowhere, however its callback disables and enables it, as
`EnablePeriodic` does not queue the running task.

`ReadyIsDue` needs no order of the heap: `DelayedHouseKeeping` moves what it finds on
top and tests that one. But that it finds all that is due, and that `Run` takes a most
urgent task, does. `Heap::Remove` may break the order, because it never moves an item
up (section 4, `heap_cancel`). `MostUrgentRunsFirst` shows that this is the one cause
among those calls:
in a behaviour in which no `DisablePeriodic` takes a task out where the last item
is smaller than the parent of the freed place (`OrderlyDisables`), no task that is due
waits behind a later one, and `Run` takes one that is as urgent as any that is ready.
A heap of up to five items is always orderly in that sense, so the small instance of
`sched` cannot show the disorder and `heap_cancel` exists.

The provers have no induction over numbers that takes a predicate. What is needed is
that a set of numbers that holds 0 and with each number the next holds them all; that
comes from the least number not in it (`Least`), which the well-foundedness of `<` gives.
With it, what one round of a loop keeps the loop keeps, and a measure that grows in
every round gets to its bound (`SiftDown` ends within `Len(h)` rounds).

### Infrared

`IrLinkProofs` proves, for all packets of three bytes or more, every size of the
receive buffer, every delay and any amount of noise (`IrAssumption`):

| Theorem | Statement |
|---|---|
| `IrInvHolds` | `Spec => []IrInv` (types, blockers, and how far a packet can be) |
| `IrTypes` | `Spec => []IrTypeOK` |
| `BlockersAddUp` | `Spec => []BlockersBalance` |
| `SendsInOrder` | `Spec => AirInOrder` |
| `NoHalfIsOverrun` | `RxSlack + MaxHeld + 1 < 2 * Pulls /\ Spec => ReceiverKeepsUp` |

`BlockersBalance` alone is not inductive: the pull after the release sets the
state to COLLISION whatever it is by then (IrService.cc:98), and if the packet
were out already, its blocker given back, the next packet would give it back
again. `LookedInTime` bounds how far the transmitter can be when that pull runs:
it counts what was populated against the time of the receive DMA, and finds at
most the header and two bytes. A packet has three. `HeldInv` and `ErasingInv`
carry the count over ticks that another task has and over an erase.

`AirInOrder` is about the half the DMA plays, which `Routine` filled a tick before.
`AirInv` says what the other half holds (`HalvesInOrder`) and what was filled last
(`UpToLast`: as far as `_tx_buffer` was written out, or silence); that a half is
refilled which is not played (`RefillsOther`); and that after a collision silence is
written long before the air was quiet for the three pulls that let the next header
follow (`CutShort`). All of it holds until a tick comes before the half is
refilled (`late`), which the property excludes: a half that is refilled late is sent
twice or not at all, and of those packets nothing is promised.

`NoHalfIsOverrun` compares two clocks. A half of the receive buffer takes `2 * Pulls`
ticks. While the tasks of `IrLogic` are behind, `RxInv` keeps twice the pulls into the
next half, those that wait among them, below the ticks since the last half was full and
those of a hold-up: the pulls that a hold-up leaves waiting run on end after it, and each
moves the base on. So the next half may be taken for full up to `MaxHeld` ticks early, and
the tasks take up to `RxSlack` ticks (the model bounds both: nothing in the code does
but the load of the main thread). With the firmware's four pulls hold-up and lateness
may be six ticks together. The bound is exact where TLC was asked: `ReceiverKeepsUp` is
violated for (`Pulls`, `MaxHeld`, `RxSlack`) = (2, 2, 1), (3, 3, 2) and (3, 1, 4), and
holds for (2, 1, 1), (2, 0, 2), (3, 2, 2), (3, 1, 3) and (3, 3, 1).

### Link

`XBoardLinkProofs`, for every size of the rings that holds a packet, any packets and
any noise (`LinkAssumption`, `NoByteAssumption`). Where `KickMayStall = FALSE` is
assumed, the main thread is not held up for a byte time at one place; without that
the theorem is false (section 4):

| Theorem | Statement |
|---|---|
| `SenderInvHolds` | `KickMayStall = FALSE /\ Spec => []SenderInv` |
| `BytesInOrder` | `KickMayStall = FALSE /\ Spec => []SentInOrder` |
| `BusyMeansByte` | `_tx_busy` is set exactly while a byte is on the line (same assumption) |
| `LinkInvHolds`, `LinkTypesHold` | `Spec => []LinkInv`, `Spec => []LinkTypeOK` |
| `StreamInvHolds`, `NeverSkips` | `Spec => []StreamInv`, `Spec => []NeverSkipsWhole` |
| `OrderInvHolds` | `KickMayStall = FALSE /\ Spec => [](OrderInv /\ FreshInv)` |
| `ReceivedInOrder` | `KickMayStall = FALSE /\ Spec => []GotInOrder` |

`SentInOrder` says nothing of the bytes that wait. `RingInv` does: what is to be
sent is the byte on the line, if there is one, followed by the ring from `First`
to `tail`, where `First` is `head` but for the moment between `HAL_UART_Transmit_IT`
and the assignment of head, at which the byte at `head` is on the line already.
`SlotFacts` has all the arithmetic of the ring, with `SuccIs` in place of the
modulus.

`NeverSkipsWhole` speaks of packets that arrived whole. `StreamInv` follows one from
its first byte on: what arrived of it so far is the end of the receive queue
(`PartInv`), and once whole it stays there from its first byte to its last until it
is received (`WholeInv`). That each turn of the parser's loop leaves it in place or
takes it whole is `ParseStepIs` and the lemmas after it: what the parser passes over
before it cannot reach into it, because a skip passes over a byte, a preamble that
is not the packet's own, or a packet whose checksum is right. `LinkAssumption` asks
that no payload ends in 0x55 (a preamble in its middle is allowed): behind one that
does, a cut packet and the preamble of the next would run together. The packets the
applications send end in a field below that or in a checksum; the badge's own code
does not test it.

`GotInOrder` needs that the bytes in the receive queue, on the line and in the ring
are in the order of their packets, after all those received (`OrderInv`), and that a
packet received has no byte left that could be taken for its checksum (`FreshInv`).

### Peers

`XBoardPeersProofs`, for any number of boards, cables, rounds and events:

| Theorem | Statement |
|---|---|
| `PeersInvHolds` | `Spec => []PeersInv` |
| `PeersTypes` | `Spec => []PeersTypeOK` |
| `BlockersFollowPeer` | `Spec => []BlockersMatchPeer` |
| `NoSwap` | a board goes from one kind of peer to another only through having none |
| `RealInvHolds` | `Spec => []RealInv` |
| `PeersAreReal` | `Spec => []PeerIsReal` |
| `CalmInvHolds` | `Spec => []CalmInv`, if `MaxRounds <= 2` |
| `JitterNeverDisconnects` | `Spec => StaysConnected`, if `MaxRounds <= 2` |

`PeerIsReal` bounds for how many rounds a board keeps a peer that is gone. The
invariant says what each such round leaves behind: after the first no pong of the old
peer is on its way that another round would meet, after the second none at all and
none in the flags, and from then on every round counts one missed pong, so that
the count of rounds is at most the count of misses and two.

`StaysConnected` is about two clocks. `CalmInv` says, for each board and the one at the
other end, where the next pong is. A board that had a round since the cable was
touched has its last ping at the other board or on its way there, and all that was sent
since its last round is from that board (`Settling`). One that is calm keeps the peer it has
and has no pong of another kind anywhere; and either a pong for it is there or on its
way, or the ping is that will be answered (`Calm`). The count of misses says how near
the pong is: after one miss it is on its way, or the ping is parsed and a round of this board
has passed that the answer did not come in; after two it is parsed, or has a round
of this board behind it, or the other board let two rounds pass before it sent it
or has let two pass now. At the next round of this board none of the last three
is possible (`InTime`), so that the pong counts and there is no third miss. With
`MaxRounds = 3` the theorem is false: TLC finds the third miss.

### Applications

`BadgeAppsProofs`, for any two badges, games and bounds:

| Theorem | Statement |
|---|---|
| `AppsInvHolds` | `Spec => []AppsInv` |
| `AppsTypes` | `Spec => []AppsTypeOK` |
| `TasksFollow` | `Spec => []TasksFollowApps` |
| `SnakeInFront` | `Spec => []SnakeInFrontNotOver` |
| `OnlyRestoreStrands` | `Spec => StrandedByRestore` |

The invariant is a predicate of one badge (`Good`): its tasks follow its
application, Snake is in front only with a game that is not over, a stored
application is one that can be shown, a badge that shows a game has its handler
registered. `OnExit` leaves a badge with no application's task running (`Idle`),
`OnEntry` starts from that; so `ChangeApp` keeps `Good`, and every action is a
small change followed by `ChangeApp`. For `StrandedByRestore` a game for two needs
a peer when it is chosen, and a disconnection leaves the badge in `show_name`.

### Battle

`PetBattleProofs`, for two badges, any scores, levels, hit points and frames, and any
number of battles, lost packets and upsets:

| Theorem | Statement |
|---|---|
| `PetInvHolds` | `Spec => []PetInv` |
| `PetTypesHold` | `Spec => []PetTypeOK` |
| `NeverBothWin` | `Spec => []VerdictsAgree` |

`VerdictsAgree` compares two verdicts only if they are on the same two scores, and each
on the score that was sent. A badge that gains a level in between computes its score
again (TamaApp.cc:880), and one that enters again may decide on a score of the last
battle (TamaApp.cc:874): then both may win, and nothing here excludes it.

A badge decides on its own score and on a copy of the other's. `AgreeInv` says that
there is one table of scores, by badge and battle, with which all copies agree: in the
packet a badge sends, on the wire, in the packet last received and behind each
verdict. A score enters it in one step, and `XbRoutine` sends a score only in a battle
that has none yet. `CountInv` ties the battles to the entries of the app, which bounds
them.

### Motion sensor

`ImuBusProofs`, for every size of the step counter, number of axes and measurements
and length of the time-outs, any steps, faults and self-tests (`ImuAssumption`):

| Theorem | Statement |
|---|---|
| `ImuInvHolds` | `Spec => []ImuInv` |
| `ImuTypesHold` | `Spec => []ImuTypes` (`ImuTypeOK` without the room in the queues) |
| `CountsRealSteps` | `Spec => []StepsAreReal` |
| `AnswersAreAsked` | `Spec => AnswersFit` |
| `QueuesStayShort` | `Spec /\ [][~LateReset]_imuVars => [](Len(rxQueue) <= Axes + piled /\ Len(txQueue) <= 2 + piled)` |
| `QueuesHaveRoom` | `QueueSize > Axes + MaxPiled /\ Spec /\ [][~LateReset]_imuVars => []ImuTypeOK` |

That no step is made up is a matter of three counters: the sensor's, the last value
that `ImuLogic` saw, and the two bytes on their way between them. While steps are
counted, the total and what the sensor's counter is ahead of the last value, modulo its
width, are at most the steps taken (`CountInv`); the low byte, once read, lies between
the two (`LowByteRead`), so that taking it over moves steps from one part to the
other. Before that, from the moment the sensor was switched off, the total and the whole
counter are at most the steps taken (`InitInv`), and the two meet because the last
value is zeroed at a point of the initialisation that nothing passes by: a reset sends
it back to the start, and a wrong identity leaves no callback with which to get
past it (`registered`). Nothing sets the sensor's counter back in between, because
while steps are counted nothing is to be written.

For the answers, the invariant says what is last in the queue of reads (`AskInv`,
`StepAsked`, `OutsAsked`), whatever was left in it by a state that has ended, and that
the task at the end of a transfer finds the queues as the transfer left them or comes
after a reset (`TaskInv`). `OnRxDone` is called when the queue is empty, so the
register read last is the one that was asked for.

`Room` says what is queued in which state of the initialisation and of the self-test.
Only a self-test that is begun while another waits finds something in the queues, and
each adds one item to what one measurement needs. `piled` counts the self-tests begun
since one found both queues empty, and `MaxPiled` bounds only that: steps, faults and
self-tests that find the queues empty may come in any number (of the theorem;
`MaxEvents` bounds them for TLC). With the firmware's queue of ten and six reads to a
measurement there is room for three self-tests in a row. `LateReset` is a time-out of
the logic or an error between the interrupt at the end of a transfer and its task: the
task then takes the service from `"init"` to `"idle"` without `Prepare`, which would
have emptied the queues, and the initialisation starts anew on what is left. How often
that may happen depends on how long the main thread is held up; `imu` allows it, within
its bounds.

### What is model-checked only

`ImuTypeOK` when a time-out comes between an interrupt and its
task; `TopIsSmallest`, which the code violates; and all liveness (`HighestPriorityRuns`,
`BattleEnds`, `StepsKeepComing` and the others of section 3), which is out of the
prover's reach.

## 6 Not modelled

- Signing, game and scores, display, buttons below the controller:
  see the plan.
- The retransmission of `IrController` with `HashService`: its only caller in
  `SignedPacketService.cc:228` is compiled out.
- `ImuLogic`'s values of a self-test, `DUMMY_STEP`'s made-up steps, and
  `ProximityRoutine`, which computes a value nobody reads.
- `UsbLogic`'s memory commands and `RunScript`, which reports a wrong checksum and
  goes on (UsbLogic.cc:185); `UsbService` beyond the answers.
- Delayed one-shot tasks and the arguments of tasks in the scheduler.
- Applications: the boards of the games, the vault and QR dialogues, hatching and
  feeding a pet, the combo's contents.
- Cryptographic and numeric contents (`keccak`, `EcLogic` arithmetic, `crc32`,
  fonts), drawing, hardware design.
- Off the badge: `base-station`, `backend`, `web`, `sw/provisioner`.
- `ForceFlush`'s completion callback: `NvRoutine` calls it, but no run has a
  property about it (it may be called before what the caller changed is flushed).

The repository has some 157 500 lines of code, but most of them are vendored: the
STM32 HAL, CMSIS and USB stack in `src/fw/Drivers` and `src/fw/Middlewares`, and
generated tables (fonts, pictures). The badge's own logic in `src/fw/Core/Hitcon` is
a small part of that, so that a model of all of it would still stand for a small
share of the lines.

## 7 Plan

1. `EcQueue`: `EcLogic`, `SignedPacketService`, `EntropyHub`, `RandomPool` as one
   chain of requests and callbacks.
2. The rest of `TamaApp` with its storage, the other applications, and
   `ButtonLogic`'s queues below `BadgeApps`.
3. Proofs: `EcQueue` when there is one.
4. The base station's serial protocol.
