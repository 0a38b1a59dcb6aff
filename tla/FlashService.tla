---------------------------- MODULE FlashService ----------------------------
(***************************************************************************)
(* Service/FlashService.cc with the part of Service/Suspender.cc it uses   *)
(* and, external, the STM32F1 flash controller behind HAL_FLASHEx_Erase_IT *)
(* and HAL_FLASH_Program_IT.                                               *)
(*                                                                         *)
(* Two contexts run: the main thread (the cooperative scheduler's tasks)   *)
(* and interrupts.  mpc says where the main thread is: "idle" between two  *)
(* tasks, "program" inside the word loop of FlashService::Routine, or a    *)
(* label of a client module.  An action of a task needs mpc = "idle"; an   *)
(* action of an interrupt may happen in any state.                         *)
(*                                                                         *)
(* A page is a function from words to cells.  A cell is Erased, Garbage    *)
(* (an erase was cut short or has not finished) or the image the word was  *)
(* copied from: word i of image r is written r, so a page holds the image  *)
(* intact when all its cells are r, which is what the CRC of a record      *)
(* establishes.                                                            *)
(***************************************************************************)
EXTENDS Integers

CONSTANTS
  NPages,        (* FLASH_PAGE_COUNT, 8 in the firmware                    *)
  EraseUnit,     (* words in one 1 KB page of the controller               *)
  PerRun,        (* kProgramPerRun, 8 in the firmware                      *)
  EraseTimeout,  (* _wait_cnt of an erase, 1000 in the firmware            *)
  MaxBlockers,   (* bound on IncBlocker calls outstanding at once          *)
  EraseMayHang,  (* TRUE: the end-of-erase interrupt may be lost           *)
  Erased, Garbage

kErasePageCount == 2

ASSUME FlashAssumption ==
  /\ NPages \in Nat /\ NPages >= 3
  /\ EraseUnit \in Nat \ {0}
  /\ PerRun \in Nat \ {0}
  /\ EraseTimeout \in Nat
  /\ MaxBlockers \in Nat
  /\ EraseMayHang \in BOOLEAN
  /\ Erased # Garbage

Page  == 0 .. (NPages - 1)
Word  == 0 .. (kErasePageCount * EraseUnit - 1)

FlashState == {"IDLE", "UNLOCK", "SUSPEND_WAIT", "ERASE", "ERASE_WAIT",
               "RESUME_WAIT", "PROGRAM", "PROGRAM_WAIT"}

VARIABLES
  flash,      (* the contents of the flash: the only state a reset keeps   *)
  mem,        (* the buffers the clients pass by pointer, by client        *)
  fs,         (* _state                                                    *)
  addr,       (* the page _addr points at                                  *)
  data,       (* _data: whose buffer                                       *)
  dataLen,    (* _data_len                                                 *)
  eraseId,    (* _erase_page_id                                            *)
  progId,     (* _program_page_id                                          *)
  pending,    (* _program_pending_count_                                   *)
  waitCnt,    (* _wait_cnt                                                 *)
  eraseOnly,  (* _erase_only                                               *)
  proc,       (* pFlash.ProcedureOnGoing: "none", "erase", or "hung" when  *)
              (* the interrupt that would end the erase was lost           *)
  burst,      (* words left in the loop of one FS_PROGRAM run              *)
  blockers, suspended,  (* Suspender::blockers_, suspended_                *)
  mpc         (* where the main thread is                                  *)

fsVars == <<fs, addr, data, dataLen, eraseId, progId, pending, waitCnt,
            eraseOnly, burst>>
suspenderVars == <<blockers, suspended>>

IsBusy == fs # "IDLE"

(* Mutant of EraseWords: _erase_page_id is incremented before its use. *)
EraseWordsAfter(sub) == {w \in Word : w \div EraseUnit = sub + 1}

(* The words of the controller page number sub of a page. *)
EraseWords(sub) == {w \in Word : w \div EraseUnit = sub}

FlashReset ==
  /\ fs = "IDLE" /\ addr = 0 /\ data = "nv" /\ dataLen = 0
  /\ eraseId = 0 /\ progId = 0 /\ pending = 0 /\ waitCnt = 0
  /\ eraseOnly = FALSE /\ proc = "none" /\ burst = 0
  /\ blockers = 0 /\ suspended = FALSE

-----------------------------------------------------------------------------
(* What the clients call.                                                  *)

(* ProgramPage in the order its assignments run: the address first, then   *)
(* the rest.  The caller has tested _state = FS_IDLE.                      *)
ProgramPageAddr(p) == addr' = p

ProgramPageStart(client, len) ==
  /\ data' = client
  /\ dataLen' = len
  /\ fs' = "UNLOCK"
  /\ eraseId' = 0
  /\ progId' = 0
  /\ eraseOnly' = FALSE

(* Mutant of ErasePage: _addr keeps its value. *)
ErasePageSameAddr(p) ==
  IF IsBusy
    THEN UNCHANGED fsVars
    ELSE /\ fs' = "UNLOCK"
         /\ eraseId' = 0
         /\ eraseOnly' = TRUE
         /\ UNCHANGED <<addr, data, dataLen, progId, pending, waitCnt, burst>>

(* ErasePage: does nothing unless idle. *)
ErasePage(p) ==
  IF IsBusy
    THEN UNCHANGED fsVars
    ELSE /\ addr' = p
         /\ fs' = "UNLOCK"
         /\ eraseId' = 0
         /\ eraseOnly' = TRUE
         /\ UNCHANGED <<data, dataLen, progId, pending, waitCnt, burst>>

(* ProgramOnly: program without an erase, from a word offset. *)
ProgramOnly(p, offset, client, len) ==
  IF IsBusy
    THEN UNCHANGED fsVars
    ELSE /\ addr' = p
         /\ data' = client
         /\ progId' = offset
         /\ dataLen' = offset + len
         /\ fs' = "PROGRAM"
         /\ eraseOnly' = FALSE
         /\ UNCHANGED <<eraseId, pending, waitCnt, burst>>

-----------------------------------------------------------------------------
(* FlashService::Routine, one action per state.                            *)

Unlock ==
  /\ mpc = "idle"
  /\ fs = "UNLOCK"
  /\ fs' = "SUSPEND_WAIT"
  /\ UNCHANGED <<flash, mem, addr, data, dataLen, eraseId, progId, pending,
                 waitCnt, eraseOnly, proc, burst, suspenderVars, mpc>>

(* All controller pages of the page are erased. *)
ErasesDone ==
  /\ mpc = "idle"
  /\ fs = "SUSPEND_WAIT"
  /\ eraseId = kErasePageCount
  /\ fs' = IF eraseOnly THEN "IDLE" ELSE "PROGRAM"
  /\ UNCHANGED <<flash, mem, addr, data, dataLen, eraseId, progId, pending,
                 waitCnt, eraseOnly, proc, burst, suspenderVars, mpc>>

(* Suspender::TrySuspend refuses while a blocker is held. *)
TrySuspend ==
  /\ mpc = "idle"
  /\ fs = "SUSPEND_WAIT"
  /\ eraseId # kErasePageCount
  /\ blockers = 0
  /\ suspended' = TRUE
  /\ fs' = "ERASE"
  /\ UNCHANGED <<flash, mem, addr, data, dataLen, eraseId, progId, pending,
                 waitCnt, eraseOnly, proc, burst, blockers, mpc>>

(* HAL_FLASHEx_Erase_IT refuses while a procedure is on-going; the state   *)
(* has moved on by then.                                                   *)
StartErase ==
  /\ mpc = "idle"
  /\ fs = "ERASE"
  /\ eraseId' = eraseId + 1
  /\ fs' = "ERASE_WAIT"
  /\ waitCnt' = EraseTimeout
  /\ IF proc = "none"
       THEN /\ proc' = "erase"
            /\ flash' = [flash EXCEPT ![addr] =
                           [w \in Word |-> IF w \in EraseWords(eraseId)
                                             THEN Garbage ELSE @[w]]]
       ELSE UNCHANGED <<proc, flash>>
  /\ UNCHANGED <<mem, addr, data, dataLen, progId, pending, eraseOnly, burst,
                 suspenderVars, mpc>>

(* Mutant of PollErase: a time-out skips TryResume. *)
PollEraseNoResume ==
  /\ mpc = "idle"
  /\ fs = "ERASE_WAIT"
  /\ waitCnt = 0 => proc # "erase"
  /\ IF waitCnt = 0
       THEN fs' = "SUSPEND_WAIT" /\ UNCHANGED waitCnt
       ELSE waitCnt' = waitCnt - 1 /\ UNCHANGED fs
  /\ UNCHANGED <<flash, mem, addr, data, dataLen, eraseId, progId, pending,
                 eraseOnly, proc, burst, suspenderVars, mpc>>

(* An erase of the controller ends long before the time-out of 1000 polls  *)
(* of 20 ms, so the last poll finds it on-going only when its interrupt    *)
(* was lost.                                                               *)
PollErase ==
  /\ mpc = "idle"
  /\ fs = "ERASE_WAIT"
  /\ waitCnt = 0 => proc # "erase"
  /\ IF waitCnt = 0
       THEN fs' = "RESUME_WAIT" /\ UNCHANGED waitCnt
       ELSE waitCnt' = waitCnt - 1 /\ UNCHANGED fs
  /\ UNCHANGED <<flash, mem, addr, data, dataLen, eraseId, progId, pending,
                 eraseOnly, proc, burst, suspenderVars, mpc>>

Resume ==
  /\ mpc = "idle"
  /\ fs = "RESUME_WAIT"
  /\ suspended' = FALSE
  /\ fs' = "SUSPEND_WAIT"
  /\ UNCHANGED <<flash, mem, addr, data, dataLen, eraseId, progId, pending,
                 waitCnt, eraseOnly, proc, burst, blockers, mpc>>

(* FS_PROGRAM enters its loop of at most kProgramPerRun words.             *)
StartProgram ==
  /\ mpc = "idle"
  /\ fs = "PROGRAM"
  /\ pending' = 0
  /\ fs' = "PROGRAM_WAIT"
  /\ burst' = IF dataLen - progId < PerRun THEN dataLen - progId ELSE PerRun
  /\ mpc' = IF progId < dataLen THEN "program" ELSE mpc
  /\ UNCHANGED <<flash, mem, addr, data, dataLen, eraseId, progId, waitCnt,
                 eraseOnly, proc, suspenderVars>>

(* One word of the loop.  The code runs from the same flash, so the core   *)
(* stalls until the controller is done and the end-of-operation interrupt  *)
(* has been served: the count goes up and down again.  A cell that is not  *)
(* erased raises a programming error instead, which leaves the count up.   *)
ProgramWord ==
  /\ mpc = "program"
  /\ IF flash[addr][progId] = Erased
       THEN /\ flash' = [flash EXCEPT ![addr][progId] = mem[data]]
            /\ UNCHANGED pending
       ELSE /\ pending' = pending + 1
            /\ UNCHANGED flash
  /\ proc' = "none"
  /\ progId' = progId + 1
  /\ burst' = burst - 1
  /\ mpc' = IF burst = 1 THEN "idle" ELSE mpc
  /\ UNCHANGED <<mem, fs, addr, data, dataLen, eraseId, waitCnt, eraseOnly,
                 suspenderVars>>

(* Mutant of PollProgram: off by one at the end of the data. *)
PollProgramPastEnd ==
  /\ mpc = "idle"
  /\ fs = "PROGRAM_WAIT"
  /\ pending = 0
  /\ fs' = IF progId > dataLen THEN "IDLE" ELSE "PROGRAM"
  /\ UNCHANGED <<flash, mem, addr, data, dataLen, eraseId, progId, pending,
                 waitCnt, eraseOnly, proc, burst, suspenderVars, mpc>>

PollProgram ==
  /\ mpc = "idle"
  /\ fs = "PROGRAM_WAIT"
  /\ pending = 0
  /\ fs' = IF progId >= dataLen THEN "IDLE" ELSE "PROGRAM"
  /\ UNCHANGED <<flash, mem, addr, data, dataLen, eraseId, progId, pending,
                 waitCnt, eraseOnly, proc, burst, suspenderVars, mpc>>

FlashRoutine ==
  \/ Unlock \/ ErasesDone \/ TrySuspend \/ StartErase \/ PollErase
  \/ Resume \/ StartProgram \/ PollProgram

-----------------------------------------------------------------------------
(* The flash controller's interrupts.                                      *)

SetErased(sub) ==
  flash' = [flash EXCEPT ![addr] =
              [w \in Word |-> IF w \in EraseWords(sub) THEN Erased ELSE @[w]]]

(* The erase ends and HAL_FLASH_IRQHandler calls EndOperationCallback. *)
EraseEnds ==
  /\ proc = "erase"
  /\ SetErased(eraseId - 1)
  /\ proc' = "none"
  /\ fs' = IF fs = "ERASE_WAIT" THEN "RESUME_WAIT" ELSE fs
  /\ UNCHANGED <<mem, addr, data, dataLen, eraseId, progId, pending, waitCnt,
                 eraseOnly, burst, suspenderVars, mpc>>

(* The interrupt is lost: the procedure stays on-going for the HAL and the *)
(* cells are erased or not.                                                *)
EraseHangs ==
  /\ EraseMayHang
  /\ proc = "erase"
  /\ \/ SetErased(eraseId - 1)
     \/ UNCHANGED flash
  /\ proc' = "hung"
  /\ UNCHANGED <<mem, fsVars, suspenderVars, mpc>>

(* Blockers of the suspender: an IR packet being sent or received, a peer  *)
(* board connected.  Nothing keeps a task from taking one while suspended. *)
IncBlocker ==
  /\ mpc = "idle"
  /\ blockers < MaxBlockers
  /\ blockers' = blockers + 1
  /\ UNCHANGED <<flash, mem, fsVars, proc, suspended, mpc>>

DecBlocker ==
  /\ blockers > 0
  /\ blockers' = blockers - 1
  /\ UNCHANGED <<flash, mem, fsVars, proc, suspended, mpc>>

FlashNext ==
  \/ FlashRoutine \/ ProgramWord
  \/ EraseEnds \/ EraseHangs
  \/ IncBlocker \/ DecBlocker
=============================================================================
