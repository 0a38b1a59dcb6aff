----------------------------- MODULE XBoardLink -----------------------------
(***************************************************************************)
(* One direction of the cable between two boards, byte by byte:            *)
(* XBoardLogic::QueueDataForTx and XBoardService on the board that sends,  *)
(* XBoardService and XBoardLogic::ParsePacket on the board that receives.  *)
(*                                                                         *)
(* On each board the main thread and the UART interrupt share a ring.      *)
(* mpc is where the main thread of the sender is: "idle", "queue" inside   *)
(* the loop of XBoardService::QueueDataForTx, "kicked" in Routine between  *)
(* HAL_UART_Transmit_IT and the assignment of _tx_buffer_head.  parsing    *)
(* says that the receiver is inside the loop of ParsePacket, of which each *)
(* turn is a step.                                                         *)
(*                                                                         *)
(* A frame is a preamble (Pre for its seven bytes 0x55, Sfd for the last   *)
(* one), Info for id, len and type, Crc for the four bytes of the checksum *)
(* and its payload.  A Crc is the content it was computed from, so that it *)
(* matches no other.  Every byte carries, for the properties only, the     *)
(* frame f it was queued for and its place i in it.                        *)
(***************************************************************************)
EXTENDS Integers, SequencesExt

CONSTANTS
  Payloads,      (* payloads of applications, sequences of Pre and Data    *)
  PayloadMax,    (* PKT_PAYLOAD_LEN_MAX: a payload is shorter              *)
  TxSize,        (* kTxBufferSize: the ring holds one less                 *)
  RxSize,        (* RX_BUF_SZ: the ring holds one less                     *)
  BytesPerRun,   (* bytes ParsePacket skips in one run, 16                 *)
  RestartAfter,  (* _rx_stopped_count before reception is restarted, 10    *)
  MaxFrames,     (* bound on the packets queued                            *)
  MaxNoise,      (* bound on the bytes the cable spoils                    *)
  KickMayStall,  (* TRUE: interrupts of higher priority may hold the main  *)
                 (* thread for a byte time, 350 us, at "kicked"            *)
  NoByte

HeaderLen   == 4
PreambleLen == 2

Pre  == [k |-> "pre"]
Sfd  == [k |-> "sfd"]
Data == [k |-> "data"]
Junk == [k |-> "junk"]
Info(c) == [k |-> "info", type |-> c.type, len |-> Len(c.pay)]
Crc(c)  == [k |-> "crc", of |-> c]

Content == [type : {"app"}, pay : Payloads] \cup {[type |-> "ping", pay |-> <<>>]}

(* What Frame, the payload and the checksum look like on the cable. *)
FrameBytes(c) == <<Pre, Sfd, Info(c), Crc(c)>> \o c.pay

ASSUME LinkAssumption ==
  /\ Payloads \subseteq Seq({Pre, Data})
  /\ \A p \in Payloads : p # <<>> /\ Len(p) < PayloadMax /\ p[Len(p)] = Data
  /\ PayloadMax \in Nat \ {0}
  /\ TxSize \in Nat \ {0, 1}
  /\ RxSize \in Nat /\ RxSize > HeaderLen + PayloadMax - 1
  /\ BytesPerRun \in Nat \ {0}
  /\ RestartAfter \in Nat /\ MaxFrames \in Nat /\ MaxNoise \in Nat
  /\ KickMayStall \in BOOLEAN

VARIABLES
  txBuf, head, tail,  (* _tx_buffer, _tx_buffer_head, _tx_buffer_tail      *)
  busy,               (* _tx_busy                                          *)
  line,               (* the byte the UART is sending                      *)
  mpc,
  rest,               (* the bytes of the packet not yet in the ring       *)
  rxq,                (* XBoardLogic::rx_queue                             *)
  rxOn,               (* RxState is BUSY_RX                                *)
  stopped,            (* _rx_stopped_count                                 *)
  parsing, parsed,    (* bytes_processed                                   *)
  noise,              (* bytes spoilt so far                               *)
  queued,             (* auxiliary: the contents of the frames queued      *)
  toSend,             (* auxiliary: the bytes in the ring or on the line   *)
  got,                (* auxiliary: the frames received, by number         *)
  last,               (* auxiliary: the byte that arrived last, if it and  *)
                      (* the bytes before it arrived as sent               *)
  whole               (* auxiliary: the frames that arrived as sent        *)

txVars == <<txBuf, head, tail, busy, mpc, rest>>
rxVars == <<rxq, rxOn, stopped, noise, last, whole>>
parseVars == <<parsing, parsed, got>>
linkVars == <<txVars, line, rxVars, parseVars, queued, toSend>>

Init ==
  /\ txBuf = [i \in 0 .. (TxSize - 1) |-> NoByte]
  /\ head = 0 /\ tail = 0 /\ busy = FALSE /\ line = NoByte
  /\ mpc = "idle" /\ rest = <<>>
  /\ rxq = <<>> /\ rxOn = TRUE /\ stopped = 0
  /\ parsing = FALSE /\ parsed = 0
  /\ noise = 0 /\ queued = <<>> /\ toSend = <<>>
  /\ got = <<>> /\ last = [f |-> 0, i |-> 0] /\ whole = {}

Succ(i) == (i + 1) % TxSize

-----------------------------------------------------------------------------
(* The main thread of the sender.                                          *)

(* XBoardLogic::QueueDataForTx, SendPing or SendPeerPong. *)
QueuePacket(c) ==
  /\ mpc = "idle"
  /\ Len(queued) < MaxFrames
  /\ queued' = Append(queued, c)
  /\ rest' = [i \in 1 .. Len(FrameBytes(c)) |->
                [v |-> FrameBytes(c)[i], f |-> Len(queued) + 1, i |-> i]]
  /\ mpc' = "queue"
  /\ UNCHANGED <<txBuf, head, tail, busy, line, rxVars, parseVars, toSend>>

(* One turn of the loop in XBoardService::QueueDataForTx: what does not    *)
(* fit is dropped. *)
QueueByte ==
  /\ mpc = "queue"
  /\ IF Succ(tail) = head
       THEN rest' = <<>> /\ UNCHANGED <<txBuf, tail, toSend>>
       ELSE /\ txBuf' = [txBuf EXCEPT ![tail] = Head(rest)]
            /\ tail' = Succ(tail)
            /\ toSend' = Append(toSend, Head(rest))
            /\ rest' = Tail(rest)
  /\ mpc' = IF rest' = <<>> THEN "idle" ELSE mpc
  /\ UNCHANGED <<head, busy, line, rxVars, parseVars, queued>>

(* HAL_UART_Transmit_IT refuses while a byte is being sent. *)
Transmit(b, l) == IF l = NoByte THEN b ELSE l

(* Mutant of Kick: does not look at _tx_busy. *)
KickBusy ==
  /\ mpc = "idle"
  /\ head # tail
  /\ busy' = TRUE
  /\ line' = Transmit(txBuf[head], line)
  /\ mpc' = "kicked"
  /\ UNCHANGED <<txBuf, head, tail, rest, rxVars, parseVars, queued, toSend>>

(* Routine starts the transmission of a byte when none is going on. *)
Kick ==
  /\ mpc = "idle"
  /\ head # tail /\ ~ busy
  /\ busy' = TRUE
  /\ line' = Transmit(txBuf[head], line)
  /\ mpc' = "kicked"
  /\ UNCHANGED <<txBuf, head, tail, rest, rxVars, parseVars, queued, toSend>>

Kicked ==
  /\ mpc = "kicked"
  /\ head' = Succ(head)
  /\ mpc' = "idle"
  /\ UNCHANGED <<txBuf, tail, busy, rest, line, rxVars, parseVars, queued, toSend>>

-----------------------------------------------------------------------------
(* A byte arrives, as v: NotifyRxFinish and OnByteArrive in the interrupt  *)
(* of the receiver.                                                        *)

Follows(b) == b.i = 1 \/ (b.f = last.f /\ b.i = last.i + 1)

(* Mutant of Arrive: a full ring takes one byte more. *)
ArriveFull(b, v) ==
  IF ~ rxOn \/ Len(rxq) = RxSize
    THEN /\ last' = [f |-> 0, i |-> 0]
         /\ UNCHANGED <<rxq, whole>>
    ELSE /\ rxq' = Append(rxq, [b EXCEPT !.v = v])
         /\ UNCHANGED <<last, whole>>

Arrive(b, v) ==
  IF ~ rxOn \/ Len(rxq) = RxSize - 1
    THEN /\ last' = [f |-> 0, i |-> 0]
         /\ UNCHANGED <<rxq, whole>>
    ELSE /\ rxq' = Append(rxq, [b EXCEPT !.v = v])
         /\ last' = IF v = b.v /\ Follows(b) THEN [f |-> b.f, i |-> b.i]
                    ELSE [f |-> 0, i |-> 0]
         /\ whole' = IF last'.f # 0 /\ b.i = Len(FrameBytes(queued[b.f]))
                       THEN whole \cup {b.f} ELSE whole

Spoil ==
  /\ noise < MaxNoise
  /\ noise' = noise + 1

(* The byte on the line reaches the other board as it is, spoilt or not at *)
(* all; a byte that overruns the receiver stops the reception.             *)
Deliver(b) ==
  \/ Arrive(b, b.v) /\ UNCHANGED <<noise, rxOn>>
  \/ Spoil /\ Arrive(b, Junk) /\ UNCHANGED rxOn
  \/ /\ Spoil
     /\ last' = [f |-> 0, i |-> 0]
     /\ rxOn' \in {rxOn, FALSE}
     /\ UNCHANGED <<rxq, whole>>

(* Mutant of TxFinish: _tx_busy stays set. *)
TxFinishBusy ==
  /\ line # NoByte
  /\ mpc = "kicked" => KickMayStall
  /\ Deliver(line)
  /\ toSend' = Tail(toSend)
  /\ line' = IF head # tail THEN txBuf[head] ELSE NoByte
  /\ head' = IF head # tail THEN Succ(head) ELSE head
  /\ UNCHANGED <<txBuf, tail, busy, mpc, rest, stopped, parseVars, queued>>

(* The UART has sent the byte: NotifyTxFinish in the interrupt of the      *)
(* sender takes the next one from the ring. *)
TxFinish ==
  /\ line # NoByte
  /\ mpc = "kicked" => KickMayStall
  /\ Deliver(line)
  /\ toSend' = Tail(toSend)
  /\ busy' = (head # tail)
  /\ line' = IF head # tail THEN txBuf[head] ELSE NoByte
  /\ head' = IF head # tail THEN Succ(head) ELSE head
  /\ UNCHANGED <<txBuf, tail, mpc, rest, stopped, parseVars, queued>>

(* The receiver's Routine watches over the reception. *)
WatchRx ==
  /\ rxOn' = (rxOn \/ stopped >= RestartAfter)
  /\ stopped' = IF rxOn' THEN 0 ELSE stopped + 1
  /\ UNCHANGED <<rxq, noise, last, whole, txVars, line, parseVars, queued, toSend>>

-----------------------------------------------------------------------------
(* XBoardLogic::ParsePacket on the receiver.                               *)

(* What the byte in the place of len says: 0x55 is above the limit, 0xD5   *)
(* more than the queue holds, any other may have any value. *)
LenOf(v) ==
  CASE v.k = "info" -> {v.len}
    [] v.k = "pre"  -> {PayloadMax}
    [] v.k = "sfd"  -> {RxSize}
    [] OTHER        -> 0 .. RxSize

ParseStart ==
  /\ ~ parsing
  /\ parsing' = TRUE
  /\ UNCHANGED <<txVars, line, rxVars, parsed, got, queued, toSend>>

(* The loop ends when the queue is empty, when enough bytes were skipped,  *)
(* or at a packet of which the header or the rest has not arrived. *)
ParseEnd == parsing' = FALSE /\ parsed' = 0 /\ UNCHANGED <<rxq, got>>

Skip(n) ==
  /\ rxq' = SubSeq(rxq, n + 1, Len(rxq))
  /\ parsed' = parsed + n
  /\ UNCHANGED <<parsing, got>>

(* Mutant of SkipInvalid: the packet is skipped, not only its preamble. *)
SkipInvalidWhole(len) == Skip(HeaderLen + len)

(* A header with a bad length or checksum: RemoveFrontMulti(8). *)
SkipInvalid(len) == Skip(PreambleLen)

(* Mutant of TooLong: no limit. *)
TooLongNever(len) == FALSE

TooLong(len) == len >= PayloadMax

(* The checksum over the header and len bytes of payload is the one in the *)
(* header. *)
Valid(len) ==
  /\ rxq[HeaderLen].v.k = "crc"
  /\ [i \in 1 .. (HeaderLen + len) |-> rxq[i].v] = FrameBytes(rxq[HeaderLen].v.of)

(* Mutant of Accept: the packet stays in the queue. *)
AcceptKeeps(len) ==
  /\ got' = Append(got, rxq[HeaderLen].f)
  /\ parsing' = FALSE
  /\ UNCHANGED <<rxq, parsed>>

(* A ping only sets recv_ping and the loop goes on; it ends after a packet *)
(* for an application. *)
Accept(len) ==
  /\ got' = Append(got, rxq[HeaderLen].f)
  /\ rxq' = SubSeq(rxq, HeaderLen + len + 1, Len(rxq))
  /\ IF rxq[HeaderLen].v.of.type = "ping"
       THEN UNCHANGED <<parsing, parsed>>
       ELSE parsing' = FALSE /\ parsed' = 0

ParseStep ==
  /\ parsing
  /\ IF rxq = <<>> \/ parsed >= BytesPerRun
       THEN ParseEnd
     ELSE IF rxq[1].v # Pre
       THEN Skip(1)
     ELSE IF Len(rxq) < HeaderLen
       THEN ParseEnd
     ELSE IF rxq[2].v # Sfd
       THEN Skip(1)
     ELSE \E len \in LenOf(rxq[3].v) :
       \/ TooLong(len) /\ SkipInvalid(len)
       \/ ~ TooLong(len) /\ Len(rxq) < HeaderLen + len /\ ParseEnd
       \/ ~ TooLong(len) /\ Len(rxq) >= HeaderLen + len /\ Valid(len) /\ Accept(len)
       \/ ~ TooLong(len) /\ Len(rxq) >= HeaderLen + len /\ ~ Valid(len) /\ SkipInvalid(len)
  /\ UNCHANGED <<txVars, line, rxOn, stopped, noise, last, whole, queued, toSend>>

-----------------------------------------------------------------------------
Sender   == QueueByte \/ Kick \/ Kicked
Receiver == ParseStart \/ ParseStep

Next ==
  \/ \E c \in Content : QueuePacket(c)
  \/ Sender
  \/ TxFinish
  \/ WatchRx
  \/ Receiver

Spec == Init /\ [][Next]_linkVars

(* The periodic tasks run, the UART raises its interrupts.  The            *)
(* applications owe nothing. *)
FairSpec ==
  /\ Spec
  /\ WF_linkVars(Sender)
  /\ WF_linkVars(TxFinish)
  /\ WF_linkVars(Receiver)

-----------------------------------------------------------------------------
(* The types of the variables; a ring never holds more than it can. *)
Byte == [v : {Pre, Sfd, Data, Junk} \cup {Info(c) : c \in Content}
               \cup {Crc(c) : c \in Content},
         f : 1 .. MaxFrames, i : 1 .. (HeaderLen + PayloadMax)]

ASSUME NoByteAssumption == NoByte \notin Byte

LinkTypeOK ==
  /\ txBuf \in [0 .. (TxSize - 1) -> Byte \cup {NoByte}]
  /\ head \in 0 .. (TxSize - 1) /\ tail \in 0 .. (TxSize - 1)
  /\ busy \in BOOLEAN /\ line \in Byte \cup {NoByte}
  /\ mpc \in {"idle", "queue", "kicked"} /\ rest \in Seq(Byte)
  /\ rxq \in Seq(Byte) /\ Len(rxq) < RxSize
  /\ rxOn \in BOOLEAN /\ stopped \in 0 .. RestartAfter
  /\ parsing \in BOOLEAN /\ parsed \in 0 .. (BytesPerRun + PreambleLen - 1)
  /\ noise \in 0 .. MaxNoise
  /\ queued \in Seq(Content) /\ Len(queued) <= MaxFrames
  /\ whole \subseteq 1 .. MaxFrames

(* XBoardService.h, "Append the data for transmit": the byte on the line   *)
(* is always the oldest one queued and not yet sent, none is sent twice    *)
(* and none is passed over, with Routine and the interrupt both taking     *)
(* bytes from the ring. *)
SentInOrder == line # NoByte => toSend # <<>> /\ line = Head(toSend)

(* Whatever was lost, spoilt or cut short before it, the parser skips no   *)
(* byte of a packet that arrived as it was sent: it is received or still   *)
(* in the queue from its first byte on.  (Payloads that end in 0x55 are    *)
(* left out: with that byte lost, the first one of the next packet takes   *)
(* its place, and the next packet is lost as well.) *)
NeverSkipsWhole ==
  \A f \in whole :
    \/ \E j \in DOMAIN got : got[j] = f
    \/ \E j \in DOMAIN rxq : rxq[j].f = f /\ rxq[j].i = 1

(* Packets are received in the order they were queued, and none twice. *)
GotInOrder == \A j, k \in DOMAIN got : j < k => got[j] < got[k]

(* Everything in the ring is sent: _tx_busy is never left set with no      *)
(* interrupt to come. *)
TxDrains == head # tail ~> head = tail

(* A full receive queue always gets room again: the parser never waits for *)
(* the rest of a packet that cannot arrive, or reception would be over     *)
(* for good. *)
RxDrains == Len(rxq) = RxSize - 1 ~> Len(rxq) < RxSize - 1

=============================================================================
