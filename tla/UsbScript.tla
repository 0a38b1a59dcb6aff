------------------------------ MODULE UsbScript ------------------------------
(***************************************************************************)
(* Logic/UsbLogic.cc as the second client of FlashService, beside          *)
(* NvStorage: the host clears and writes the BadUSB script in page 0 and   *)
(* sets the badge's name.  OnDataRecv runs in the USB interrupt, at any    *)
(* point of the main thread; WriteRoutine is a periodic task.              *)
(*                                                                         *)
(* The host is sw/BadgeCommander/STM32HID.py: it reads an answer after the *)
(* clear command and after each report of a script but the last, and sends *)
(* the reports of a name without waiting.  Answers it has not read wait in *)
(* the operating system.  A report of REPORT_LEN - 1 = 8 bytes is one word *)
(* here, since one run of FS_PROGRAM programs it whole; indices stay in    *)
(* bytes as in the code.                                                   *)
(*                                                                         *)
(* The payload of a record is a pair here: what the applications keep in   *)
(* it and the owner's name, which each report overwrites in place.         *)
(***************************************************************************)
EXTENDS NvStorage, Sequences

CONSTANTS
  Rests,       (* the payload of a record without the name                 *)
  Names,       (* the names a record may hold                              *)
  Mixed,       (* the name made of parts of two                            *)
  Chunks,      (* the contents a report of a script may have               *)
  ScriptLens,  (* the script lengths the host writes, in bytes             *)
  MaxSessions, (* bound on the scripts and names sent                      *)
  MaxAnswers,  (* answers the host's system keeps; more are dropped        *)
  EraseMayCutIn (* TRUE: the clear command may come while ProgramPage has  *)
               (* set _addr but not yet _state                             *)

ScriptPage == 0
ReportBytes == 8
NameLen == 22      (* ShowNameApp::NAME_LEN                                *)
NameReports == 4   (* set_name sends 32 bytes, eight at a time             *)

WholeNames == Names \ {Mixed}

ASSUME UsbAssumption ==
  /\ Val = Rests \X Names
  /\ Mixed \in Names /\ DefaultVal[2] # Mixed
  /\ \A r \in OldRecords : r.val[2] # Mixed
  /\ Chunks # {}
  /\ ScriptLens \subseteq Nat \ {0}
  /\ MaxSessions \in Nat
  /\ MaxAnswers \in Nat \ {0}
  /\ Chunks \cap Rec = {}
  /\ EraseMayCutIn \in BOOLEAN

VARIABLES
  us,         (* UsbLogic::_state                                          *)
  scriptLen,  (* _script_len                                               *)
  progIndex,  (* _program_index                                            *)
  newData,    (* _new_data                                                 *)
  nameIndex,  (* name_index, which is kept from one call to the next       *)
  writing,    (* _write_routine_task is enabled                            *)
  answers,    (* ACTION_DONE reports that wait for the host                *)
  host,       (* where the host program is                                 *)
  hostLen,    (* the length of the script it is sending                    *)
  sent,       (* the reports of that script sent so far                    *)
  named,      (* the reports of a name sent so far                         *)
  sessions    (* scripts and names begun                                   *)

logicVars == <<us, scriptLen, progIndex, newData, nameIndex, writing>>
hostVars  == <<host, hostLen, sent, named, sessions>>
usbVars   == <<logicVars, answers, hostVars>>
allVars   == <<vars, usbVars>>

UsbBoot ==
  /\ us = "IDLE" /\ scriptLen = 0 /\ progIndex = 0 /\ nameIndex = 0
  /\ newData = FALSE /\ writing = FALSE /\ answers = 0

UsbInit ==
  /\ Init
  /\ UsbBoot
  /\ host = "idle" /\ hostLen = 0 /\ sent = <<>> /\ named = 0 /\ sessions = 0

(* send_badusb_script: the header of 7 bytes and the padded script.        *)
Reports(len) ==
  (7 + len + (4 - (len % 4)) + ReportBytes - 1) \div ReportBytes

-----------------------------------------------------------------------------
(* UsbLogic::OnDataRecv, in the USB interrupt.  A report is a command only *)
(* when the state is idle; otherwise the state says what it is.            *)

RecvErase ==
  /\ EraseMayCutIn \/ mpc # "start"
  /\ us' = IF IsBusy THEN "ERASE" ELSE "WAIT_ERASE"
  /\ ErasePage(ScriptPage)
  /\ writing' = TRUE
  /\ UNCHANGED <<flash, mem, proc, suspenderVars, mpc, nvVars, resets,
                 scriptLen, progIndex, newData, nameIndex>>

RecvStartWrite(len, chunk) ==
  /\ us' = "WRITING"
  /\ scriptLen' = len
  /\ progIndex' = 0
  /\ mem' = [mem EXCEPT !["script"] = chunk]
  /\ newData' = TRUE
  /\ writing' = TRUE
  /\ UNCHANGED <<flash, fsVars, proc, suspenderVars, mpc, nvVars, resets, nameIndex>>

RecvWriting(chunk) ==
  /\ mem' = [mem EXCEPT !["script"] = chunk]
  /\ newData' = TRUE
  /\ UNCHANGED <<flash, fsVars, proc, suspenderVars, mpc, nvVars, resets,
                 us, scriptLen, progIndex, nameIndex, writing>>

(* The name in the record in RAM becomes n.  Between Routine's test and    *)
(* ProgramPage's the interrupt may cut into the memcpy of the snapshot,    *)
(* which then has the old name, the new one or a part of each.             *)
NameInPlace(n) ==
  /\ content' = [content EXCEPT !.val = <<@[1], n>>]
  /\ \/ UNCHANGED mem
     \/ /\ mpc = "check"
        /\ \E m \in {n, Mixed} : mem' = [mem EXCEPT !["nv"].val = <<@[1], m>>]

(* nameIndex after a report of a name is copied. *)
NameCopied ==
  nameIndex + (IF ReportBytes < NameLen - nameIndex THEN ReportBytes ELSE NameLen - nameIndex) - 1

(* A report of a name that is not the last: nothing is marked yet. *)
RecvNamePart ==
  /\ NameCopied < NameLen - 1
  /\ NameInPlace(Mixed)
  /\ us' = "SET_NAME"
  /\ nameIndex' = NameCopied
  /\ UNCHANGED <<dirty, force, done>>

(* The last report of a name: SetName stores it, marks the storage dirty   *)
(* and calls ForceFlush without a callback.                                *)
RecvNameEnd ==
  /\ NameCopied >= NameLen - 1
  /\ \E n \in WholeNames : NameInPlace(n)
  /\ dirty' = TRUE /\ force' = TRUE /\ done' = "none"
  /\ us' = "IDLE"
  /\ nameIndex' = 0

RecvName ==
  /\ RecvNamePart \/ RecvNameEnd
  /\ UNCHANGED <<flash, fsVars, proc, suspenderVars, mpc, nextPage, cycles, since, resets,
                 scriptLen, progIndex, newData, writing>>

RecvIgnored == UNCHANGED <<vars, logicVars>>

(* A first byte that is no command becomes the state all the same, and no  *)
(* case of a later call leaves it. *)
RecvUnknown ==
  /\ us' = "UNKNOWN"
  /\ UNCHANGED <<vars, scriptLen, progIndex, newData, nameIndex, writing>>

(* A report dispatched on the state.  Its first byte names the command; it *)
(* is zero in the last report of a name ("PAD"), and has any value in the  *)
(* other reports of a script or a name ("DATA").                           *)
OnDataRecv(cmd, len, chunk) ==
  \/ us = "IDLE" /\ cmd \in {"CLEAR", "DATA"} /\ RecvErase
  \/ us = "IDLE" /\ cmd \in {"WRITE", "DATA"} /\ RecvStartWrite(len, chunk)
  \/ us = "IDLE" /\ cmd \in {"NAME", "DATA"} /\ RecvName
  \/ us = "IDLE" /\ cmd = "DATA" /\ RecvUnknown
  \/ us = "IDLE" /\ cmd \in {"PAD", "DATA"} /\ RecvIgnored
  \/ us = "SET_NAME" /\ RecvName
  \/ us = "ERASE" /\ RecvErase
  \/ us = "WRITING" /\ RecvWriting(chunk)
  \/ us \in {"WAIT_ERASE", "UNKNOWN"} /\ RecvIgnored

-----------------------------------------------------------------------------
(* UsbLogic::WriteRoutine, a task of the main thread.                      *)

(* SendCustomReport(ACTION_DONE). *)
Answer == answers' = IF answers < MaxAnswers THEN answers + 1 ELSE answers

(* ErasePage once the flash is free. *)
WriteErase ==
  /\ us = "ERASE"
  /\ ~ IsBusy
  /\ us' = "WAIT_ERASE"
  /\ ErasePage(ScriptPage)
  /\ UNCHANGED <<scriptLen, progIndex, newData, nameIndex, writing, answers>>

WriteErased ==
  /\ us = "WAIT_ERASE"
  /\ ~ IsBusy
  /\ us' = "IDLE"
  /\ writing' = FALSE
  /\ Answer
  /\ UNCHANGED <<fsVars, scriptLen, progIndex, newData, nameIndex>>

(* Mutant of WriteChunk: the end of the script is not noticed. *)
WriteChunkEndless ==
  /\ us = "WRITING"
  /\ ~ IsBusy
  /\ newData
  /\ Answer
  /\ ProgramOnly(ScriptPage, progIndex \div ReportBytes, "script", 1)
  /\ progIndex' = progIndex + ReportBytes
  /\ newData' = FALSE
  /\ UNCHANGED <<us, writing, scriptLen, nameIndex>>

(* The report is answered first, then handed over to be programmed. *)
WriteChunk ==
  /\ us = "WRITING"
  /\ ~ IsBusy
  /\ newData
  /\ Answer
  /\ ProgramOnly(ScriptPage, progIndex \div ReportBytes, "script", 1)
  /\ IF progIndex >= scriptLen + ReportBytes
       THEN us' = "IDLE" /\ writing' = FALSE
       ELSE UNCHANGED <<us, writing>>
  /\ progIndex' = progIndex + ReportBytes
  /\ newData' = FALSE
  /\ UNCHANGED <<scriptLen, nameIndex>>

WriteRoutine ==
  /\ mpc = "idle"
  /\ writing
  /\ WriteErase \/ WriteErased \/ WriteChunk
  /\ UNCHANGED <<flash, mem, proc, suspenderVars, mpc, nvVars, resets, hostVars>>

-----------------------------------------------------------------------------
(* The host.                                                               *)

HostClear ==
  /\ host = "idle" /\ named = 0
  /\ sessions < MaxSessions
  /\ OnDataRecv("CLEAR", 0, CHOOSE c \in Chunks : TRUE)
  /\ host' = "clearing"
  /\ UNCHANGED <<answers, hostLen, sent, named, sessions>>

(* The blocking read of an answer. *)
ReadAnswer == answers > 0 /\ answers' = answers - 1

HostStart ==
  /\ host = "clearing"
  /\ ReadAnswer
  /\ host' = "writing"
  /\ sessions' = sessions + 1
  /\ UNCHANGED named
  /\ \E len \in ScriptLens, c \in Chunks :
       /\ hostLen' = len
       /\ sent' = <<c>>
       /\ OnDataRecv("WRITE", len, c)

HostNext ==
  /\ host = "writing"
  /\ ReadAnswer
  /\ \E len \in ScriptLens, c \in Chunks :
       /\ sent' = Append(sent, c)
       /\ OnDataRecv("DATA", len, c)
  /\ host' = IF Len(sent') < Reports(hostLen) THEN host ELSE "idle"
  /\ UNCHANGED <<hostLen, named, sessions>>

(* set_name: three reports hold the name, the fourth is padding. *)
HostName ==
  /\ host = "idle"
  /\ named = 0 => sessions < MaxSessions
  /\ sessions' = IF named = 0 THEN sessions + 1 ELSE sessions
  /\ \E len \in ScriptLens, c \in Chunks :
       OnDataRecv(CASE named = 0 -> "NAME"
                    [] named = NameReports - 1 -> "PAD"
                    [] OTHER -> "DATA", len, c)
  /\ named' = (named + 1) % NameReports
  /\ UNCHANGED <<answers, host, hostLen, sent>>

(* A reset also ends the host's session. *)
UsbReset ==
  /\ Reset
  /\ us' = "IDLE" /\ scriptLen' = 0 /\ progIndex' = 0 /\ nameIndex' = 0
  /\ newData' = FALSE /\ writing' = FALSE /\ answers' = 0
  /\ host' = "idle" /\ hostLen' = 0 /\ sent' = <<>> /\ named' = 0
  /\ UNCHANGED sessions

(* The applications leave the name alone or set a whole one. *)
AppsKeepNames == content'.val[2] \in WholeNames \cup {content.val[2]}

UsbNext ==
  \/ FlashNext /\ UNCHANGED <<nvVars, resets, usbVars>>
  \/ NvNext /\ AppsKeepNames /\ UNCHANGED usbVars
  \/ UsbReset
  \/ WriteRoutine
  \/ HostClear \/ HostStart \/ HostNext \/ HostName

UsbSpec == UsbInit /\ [][UsbNext]_allVars

-----------------------------------------------------------------------------
(* The types of the variables this module adds; while a script is being    *)
(* written the index stays within the script and its header, and a name is *)
(* begun exactly while the state says so.                                  *)
UsbTypeOK ==
  /\ us \in {"IDLE", "ERASE", "WRITING", "WAIT_ERASE", "SET_NAME", "UNKNOWN"}
  /\ nameIndex \in 0 .. NameLen - 2
  /\ us = "SET_NAME" <=> nameIndex > 0
  /\ scriptLen \in ScriptLens \cup {0}
  /\ hostLen \in ScriptLens \cup {0}
  /\ progIndex \in Nat
  /\ us = "WRITING" => progIndex < scriptLen + 2 * ReportBytes
  /\ newData \in BOOLEAN /\ writing \in BOOLEAN
  /\ answers \in 0 .. MaxAnswers
  /\ host \in {"idle", "clearing", "writing"}
  /\ sent \in Seq(Chunks)
  /\ named \in 0 .. NameReports - 1
  /\ sessions \in 0 .. MaxSessions

(* What the storage promises beside the USB interrupt: everything but the  *)
(* name is saved and recovered as DurableStore says, at whatever point of  *)
(* a flush the host's reports come.                                        *)
RestDurable == INSTANCE DurableStore
                 WITH Val <- Rests, durable <- Recovered(flash)[1],
                      ram <- content.val[1], staged <- mem["nv"].val[1]

RestDurableSpec == RestDurable!Spec

(* It does not hold for the name: a flush between two reports of a name    *)
(* saves a part of each, and a reset recovers it.                          *)
NameIsWhole == Recovered(flash)[2] # Mixed

(* UsbLogic.h: the badge answers when an action is done, "e.g. program     *)
(* partial done": what it has programmed so far is what the host has sent. *)
ScriptFaithful ==
  us = "WRITING" /\ ~ IsBusy =>
    \A i \in 1 .. (progIndex \div ReportBytes) : flash[ScriptPage][i - 1] = sent[i]

(* The same comment for the clear command: the answer the host waits for   *)
(* before it sends a script says that page 0 is erased and the badge takes *)
(* the next report for a command.                                          *)
AnswerMeansErased == host = "clearing" /\ answers > 0 => us = "IDLE"

(* What MarkDirty marks is flushed: storage that is clean and idle between *)
(* two tasks, with no name begun, holds on flash what it holds in RAM,     *)
(* though the USB interrupt marks it in the middle of a flush.             *)
MarkedIsFlushed == us # "SET_NAME" => CleanMeansDurable
=============================================================================
