------------------------------ MODULE NvStorage ------------------------------
(***************************************************************************)
(* Logic/NvStorage.cc over FlashService: the record of the badge's owner   *)
(* kept in the pages 1 .. NPages - 1 in round robin, and what a reset at   *)
(* any point finds there.                                                  *)
(*                                                                         *)
(* NvStorage::Routine and the ForceFlushInternal and ProgramPage calls it  *)
(* makes are cut where an interrupt may come in between: the labels of mpc *)
(* are "check" (before ProgramPage tests the state), "addr" (before it     *)
(* sets _addr), "start" (before it sets the rest) and "finish" (after it   *)
(* returned true).                                                         *)
(***************************************************************************)
EXTENDS FlashService

CONSTANTS
  Val,           (* the payloads: name, scores, pet                        *)
  DefaultVal,    (* the zeroed payload of a badge without a record         *)
  OldRecords,    (* records that earlier firmware may have left            *)
  RecLen,        (* words in a record, 21 in the firmware                  *)
  WarmUp,        (* routine runs before the first flush, 30                *)
  MinInterval,   (* kMinFlushInterval, 500                                 *)
  MaxGen,        (* bound on the generation up to which apps still write   *)
  MaxResets      (* bound on the number of resets                          *)

(* schema 0 is nv_v0::content_t with its version as the generation; a      *)
(* short record has a content_size below kV1PayloadSize.                   *)
Rec == [schema : {0, 1}, gen : Nat \ {0}, short : BOOLEAN, val : Val]

ASSUME NvAssumption ==
  /\ DefaultVal \in Val
  /\ Erased \notin Rec /\ Garbage \notin Rec
  /\ OldRecords \subseteq Rec
  /\ \A r \in OldRecords : r.gen <= MaxGen
  /\ RecLen \in 1 .. EraseUnit
  /\ WarmUp \in Nat
  /\ MinInterval \in Nat \ {0}
  /\ MaxGen \in Nat
  /\ MaxResets \in Nat

VARIABLES
  content,    (* content_: its generation and payload                      *)
  dirty,      (* storage_dirty_                                            *)
  force,      (* force_flush                                               *)
  nextPage,   (* next_available_page                                       *)
  cycles,     (* current_cycle up to WarmUp                                *)
  since,      (* current_cycle - last_flush_cycle up to MinInterval        *)
  done,       (* on_done_cb: "none", "waiting", or "called" once it was    *)
  resets      (* number of resets so far                                   *)

nvVars == <<content, dirty, force, nextPage, cycles, since, done>>
flashVars == <<flash, mem, fsVars, proc, suspenderVars, mpc>>
vars == <<flashVars, nvVars, resets>>

-----------------------------------------------------------------------------
(* NvStorage::Init as a function of the flash.                             *)

NvPage  == Page \ {0}
RecWord == 0 .. (RecLen - 1)

(* ValidateV1 or ValidateV0: the checksum matches the words it covers.     *)
ValidPages(f) ==
  {p \in NvPage : f[p][0] \in Rec /\ \A w \in RecWord : f[p][w] = f[p][0]}

RecordAt(f, p) == f[p][0]

(* Mutant of Newer: the schema is not looked at. *)
NewerByGeneration(r, s) == r.gen > s.gen

(* v1 beats v0, then the higher generation. *)
Newer(r, s) ==
  \/ r.schema > s.schema
  \/ r.schema = s.schema /\ r.gen > s.gen

(* The scan keeps the first of equals. *)
BestPage(f) ==
  CHOOSE p \in ValidPages(f) :
    \A q \in ValidPages(f) \ {p} :
      \/ Newer(RecordAt(f, p), RecordAt(f, q))
      \/ ~ Newer(RecordAt(f, q), RecordAt(f, p)) /\ p < q

Recovered(f) ==
  IF ValidPages(f) = {} THEN DefaultVal ELSE RecordAt(f, BestPage(f)).val

(* Mutant of BootContent: without the last line of Init. *)
BootContentSameGen(f) ==
  LET best == RecordAt(f, BestPage(f))
  IN  [gen |-> IF ValidPages(f) = {} \/ best.schema = 0 THEN 1 ELSE best.gen,
       val |-> Recovered(f)]

(* Migration restarts the generation at 1; the last line of Init then      *)
(* raises it above everything on the flash.                                *)
BootContent(f) ==
  LET best == RecordAt(f, BestPage(f))
  IN  [gen |-> IF ValidPages(f) = {} \/ best.schema = 0 THEN 2 ELSE best.gen + 1,
       val |-> Recovered(f)]

BootDirty(f) ==
  \/ ValidPages(f) = {}
  \/ RecordAt(f, BestPage(f)).schema = 0
  \/ RecordAt(f, BestPage(f)).short

(* Mutant of BootNextPage: the page of the newest record itself. *)
BootNextPageBest(f) == IF ValidPages(f) = {} THEN 0 ELSE BestPage(f)

BootNextPage(f) ==
  IF ValidPages(f) = {} THEN 0 ELSE (BestPage(f) + 1) % NPages

(* What RAM holds once FlashService and NvStorage are initialised. *)
Boot ==
  /\ FlashReset
  /\ mpc = "idle"
  /\ content = BootContent(flash)
  /\ dirty = BootDirty(flash)
  /\ force = (ValidPages(flash) = {})
  /\ nextPage = BootNextPage(flash)
  /\ cycles = 0 /\ since = 0
  /\ done = "none"

-----------------------------------------------------------------------------
(* The flash of a badge that leaves the factory or was flashed with this   *)
(* firmware after an earlier one: pages blank or holding a whole record,   *)
(* no two of the same version.                                             *)
PageImages == {[w \in Word |-> IF w \in RecWord THEN r ELSE Erased] : r \in OldRecords}
                \cup {[w \in Word |-> Erased]}

Distinct(f) ==
  \A p, q \in ValidPages(f) :
    p # q => \/ Newer(RecordAt(f, p), RecordAt(f, q))
             \/ Newer(RecordAt(f, q), RecordAt(f, p))

(* write_buffer_ is zeroed, whatever the client. *)
ZeroRecord == [schema |-> 1, gen |-> 1, short |-> FALSE, val |-> DefaultVal]

Init ==
  /\ flash \in [Page -> PageImages]
  /\ flash[0] = [w \in Word |-> Erased]
  /\ Distinct(flash)
  /\ mem = [c \in {"nv", "script"} |-> ZeroRecord]
  /\ Boot
  /\ resets = 0

-----------------------------------------------------------------------------
(* NvStorage::Routine.                                                     *)

(* What ForceFlushInternal copies to write_buffer_. *)
Snapshot == [schema |-> 1, gen |-> content.gen, short |-> FALSE, val |-> content.val]

FlushDue == (force \/ since' >= MinInterval) /\ cycles' >= WarmUp

(* Mutant of NextTarget: page 0 is not skipped. *)
NextTargetAny == nextPage

(* The page a flush takes: page 0 is skipped. *)
NextTarget == IF nextPage = 0 THEN 1 ELSE nextPage

(* The entry of Routine up to the call of ProgramPage, or to the end when  *)
(* ForceFlushInternal returns early, which clears force_flush as well.     *)
NvRoutine ==
  /\ mpc = "idle"
  /\ cycles' = IF cycles < WarmUp THEN cycles + 1 ELSE cycles
  /\ since' = IF since < MinInterval THEN since + 1 ELSE since
  /\ done' = IF done = "waiting" /\ ~ force /\ ~ IsBusy THEN "called" ELSE done
  /\ \/ /\ FlushDue /\ dirty /\ ~ IsBusy
        /\ mem' = [mem EXCEPT !["nv"] = Snapshot]
        /\ nextPage' = NextTarget
        /\ mpc' = "check"
        /\ UNCHANGED force
     \/ /\ FlushDue /\ (~ dirty \/ IsBusy)
        /\ force' = FALSE
        /\ UNCHANGED <<mem, nextPage, mpc>>
     \/ /\ ~ FlushDue
        /\ UNCHANGED <<mem, nextPage, mpc, force>>
  /\ UNCHANGED <<flash, fsVars, proc, suspenderVars, content, dirty, resets>>

(* ProgramPage tests the state again. *)
NvCheck ==
  /\ mpc = "check"
  /\ IF IsBusy
       THEN mpc' = "idle" /\ force' = FALSE
       ELSE mpc' = "addr" /\ UNCHANGED force
  /\ UNCHANGED <<flash, mem, fsVars, proc, suspenderVars, content, dirty,
                 nextPage, cycles, since, done, resets>>

NvAddr ==
  /\ mpc = "addr"
  /\ ProgramPageAddr(nextPage)
  /\ mpc' = "start"
  /\ UNCHANGED <<flash, mem, fs, data, dataLen, eraseId, progId, pending,
                 waitCnt, eraseOnly, burst, proc, suspenderVars, nvVars, resets>>

NvStart ==
  /\ mpc = "start"
  /\ ProgramPageStart("nv", RecLen)
  /\ mpc' = "finish"
  /\ UNCHANGED <<flash, mem, addr, pending, waitCnt, burst, proc,
                 suspenderVars, nvVars, resets>>

NvFinish ==
  /\ mpc = "finish"
  /\ dirty' = FALSE
  /\ nextPage' = (nextPage + 1) % NPages
  /\ content' = [content EXCEPT !.gen = @ + 1]
  /\ since' = 0
  /\ force' = FALSE
  /\ mpc' = "idle"
  /\ UNCHANGED <<flash, mem, fsVars, proc, suspenderVars, cycles, done, resets>>

-----------------------------------------------------------------------------
(* The applications.                                                       *)

(* Modify GetCurrentStorage() and call MarkDirty. *)
AppWrite(v) ==
  /\ mpc = "idle"
  /\ content.gen < MaxGen
  /\ content' = [content EXCEPT !.val = v]
  /\ dirty' = TRUE
  /\ UNCHANGED <<flashVars, force, nextPage, cycles, since, done, resets>>

ForceFlush ==
  /\ mpc = "idle"
  /\ force' = TRUE
  /\ done' = "waiting"
  /\ UNCHANGED <<flashVars, content, dirty, nextPage, cycles, since, resets>>

(* Power loss or a reset, at any point: only the flash survives. *)
Reset ==
  /\ resets < MaxResets
  /\ resets' = resets + 1
  /\ UNCHANGED flash
  /\ mem' = [c \in {"nv", "script"} |-> ZeroRecord]
  /\ fs' = "IDLE" /\ addr' = 0 /\ data' = "nv" /\ dataLen' = 0
  /\ eraseId' = 0 /\ progId' = 0 /\ pending' = 0 /\ waitCnt' = 0
  /\ eraseOnly' = FALSE /\ proc' = "none" /\ burst' = 0
  /\ blockers' = 0 /\ suspended' = FALSE
  /\ mpc' = "idle"
  /\ content' = BootContent(flash)
  /\ dirty' = BootDirty(flash)
  /\ force' = (ValidPages(flash) = {})
  /\ nextPage' = BootNextPage(flash)
  /\ cycles' = 0 /\ since' = 0
  /\ done' = "none"

NvNext ==
  \/ NvRoutine \/ NvCheck \/ NvAddr \/ NvStart \/ NvFinish
  \/ \E v \in Val : AppWrite(v)
  \/ ForceFlush

Next ==
  \/ FlashNext /\ UNCHANGED <<nvVars, resets>>
  \/ NvNext
  \/ Reset

Spec == Init /\ [][Next]_vars

(* The scheduler runs every task that is due and the controller raises its *)
(* interrupts; blockers are released, and the 20 ms poll of TrySuspend     *)
(* meets a moment without one again and again.  The applications, the      *)
(* blockers taken and the resets owe nothing.                              *)
Fairness ==
  /\ WF_vars((FlashRoutine \/ ProgramWord) /\ UNCHANGED <<nvVars, resets>>)
  /\ SF_vars(TrySuspend /\ UNCHANGED <<nvVars, resets>>)
  /\ WF_vars(EraseEnds /\ UNCHANGED <<nvVars, resets>>)
  /\ WF_vars(DecBlocker /\ UNCHANGED <<nvVars, resets>>)
  /\ WF_vars(NvRoutine)
  /\ WF_vars(NvCheck \/ NvAddr \/ NvStart \/ NvFinish)

FairSpec == Spec /\ Fairness

-----------------------------------------------------------------------------
(* The types of the variables, in three groups. *)
Cell == Rec \cup {Erased, Garbage}

StoreTypeOK ==
  /\ flash \in [Page -> [Word -> Cell]]
  /\ mem \in [{"nv", "script"} -> Rec]
  /\ resets \in 0 .. MaxResets
  /\ mpc \in {"idle", "program", "check", "addr", "start", "finish"}

ServiceTypeOK ==
  /\ fs \in FlashState
  /\ addr \in Page
  /\ data \in {"nv", "script"}
  /\ dataLen \in Nat /\ progId \in Nat /\ pending \in Nat /\ burst \in Nat
  /\ eraseId \in 0 .. kErasePageCount
  /\ waitCnt \in 0 .. EraseTimeout
  /\ eraseOnly \in BOOLEAN
  /\ proc \in {"none", "erase", "hung"}
  /\ blockers \in 0 .. MaxBlockers
  /\ suspended \in BOOLEAN

NvTypeOK ==
  /\ content \in [gen : Nat \ {0}, val : Val]
  /\ dirty \in BOOLEAN /\ force \in BOOLEAN
  /\ nextPage \in Page
  /\ cycles \in 0 .. WarmUp
  /\ since \in 0 .. MinInterval
  /\ done \in {"none", "waiting", "called"}

TypeOK == StoreTypeOK /\ ServiceTypeOK /\ NvTypeOK

(* A reset always brings back the last value whose save completed, or the  *)
(* one being saved, never an older one and never a mix of two: erasing the *)
(* round-robin victim cannot take the newest record with it.               *)
Durable == INSTANCE DurableStore
             WITH durable <- Recovered(flash), ram <- content.val,
                  staged <- mem["nv"].val

DurableSpec == Durable!Spec

(* Between two tasks, storage that is not dirty and not being flushed is   *)
(* on the flash: clearing storage_dirty_ when the programming only starts  *)
(* loses no update.                                                        *)
CleanMeansDurable ==
  mpc = "idle" /\ ~ dirty /\ ~ IsBusy => Recovered(flash) = content.val

(* The next flush writes a strictly higher version than any record on the  *)
(* flash, also after a reset in the middle of a flush, so no two records   *)
(* ever tie.                                                               *)
GenerationAboveFlash ==
  /\ Distinct(flash)
  /\ \A p \in ValidPages(flash) : Newer(Snapshot, RecordAt(flash, p))

(* Page 0 is reserved for the BadUSB script: no record is written there. *)
ScriptPageReserved == \A w \in Word : flash[0][w] \notin Rec

(* The controller erases only while the display and IR interrupts are held *)
(* back, and a lost interrupt does not leave them held back: TrySuspend    *)
(* and TryResume never meet the state their assertions exclude.            *)
SuspendedForErase ==
  /\ proc = "erase" => suspended
  /\ suspended <=> fs \in {"ERASE", "ERASE_WAIT", "RESUME_WAIT"}

(* Words are programmed only where the page is erased: the controller      *)
(* raises no programming error, which would leave the count of pending     *)
(* words above zero and the service busy for ever.                         *)
ProgramsErasedCells == pending = 0

(* What an application changed reaches the flash: through the interval,    *)
(* the suspender's blockers, two erases and the programming runs.          *)
FlushCompletes ==
  dirty ~> ~ dirty /\ ~ IsBusy /\ Recovered(flash) = content.val

-----------------------------------------------------------------------------
(* The inductive invariant behind the properties above, in two parts.      *)

(* No older record ties with the one in page p. *)
Newest(f, p) ==
  /\ p \in ValidPages(f)
  /\ \A q \in ValidPages(f) \ {p} : Newer(RecordAt(f, p), RecordAt(f, q))

Erasing == {"UNLOCK", "SUSPEND_WAIT", "ERASE", "ERASE_WAIT", "RESUME_WAIT"}

(* How the program counters, the state of the flash service and the        *)
(* request it is working on go together.                                   *)
PhaseInv ==
  /\ data = "nv" /\ ~ eraseOnly
  /\ mpc \in {"check", "addr", "start"} => fs = "IDLE"
  /\ mpc = "finish" => fs = "UNLOCK"
  /\ mpc \in {"start", "finish"} => addr = nextPage
  /\ mpc \in {"check", "addr", "start", "finish"} =>
       nextPage # 0 /\ mem["nv"] = Snapshot
  /\ mpc = "program" => fs = "PROGRAM_WAIT" /\ 1 <= burst /\ progId + burst <= dataLen
  /\ fs = "ERASE" => eraseId < kErasePageCount
  /\ fs # "IDLE" => addr # 0 /\ dataLen = RecLen /\ progId <= dataLen
  /\ fs \in Erasing => progId = 0
  /\ fs # "PROGRAM_WAIT" => pending = 0
  /\ fs # "IDLE" /\ mpc # "finish" =>
       /\ NextTarget # addr
       /\ mem["nv"].schema = 1
       /\ mem["nv"].gen < content.gen
       /\ dirty \/ mem["nv"].val = content.val
  /\ proc = "erase" => fs = "ERASE_WAIT"
  /\ suspended <=> fs \in {"ERASE", "ERASE_WAIT", "RESUME_WAIT"}

(* The records on the flash are ranked without ties, below the next one    *)
(* and the one being written. *)
Ranked ==
  /\ Distinct(flash)
  /\ ValidPages(flash) # {} => \E p \in NvPage : Newest(flash, p)
  /\ \A p \in ValidPages(flash) : Newer(Snapshot, RecordAt(flash, p))
  /\ fs # "IDLE" =>
       \A q \in ValidPages(flash) \ {addr} : Newer(mem["nv"], RecordAt(flash, q))

(* The newest record is never in the page being erased or erased next.     *)
Spared ==
  /\ fs \in Erasing => ~ Newest(flash, addr)
  /\ fs = "IDLE" => ~ Newest(flash, NextTarget)

(* The words programmed so far are those of the snapshot, and once the     *)
(* flash is idle the snapshot is there.                                    *)
Written ==
  /\ fs \in {"PROGRAM", "PROGRAM_WAIT"} /\ pending = 0 =>
       \A w \in 0 .. (progId - 1) : flash[addr][w] = mem["nv"]
  /\ mpc = "idle" /\ fs = "IDLE" /\ ~ dirty => Recovered(flash) = content.val

FlashInv == ScriptPageReserved /\ Ranked /\ Spared /\ Written

IInv == TypeOK /\ PhaseInv /\ FlashInv
=============================================================================
