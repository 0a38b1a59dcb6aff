-------------------------- MODULE XBoardLinkProofs --------------------------
(***************************************************************************)
(* The link for all sizes of its rings and all packets.  The sender:       *)
(* Routine and the transmission complete interrupt both take bytes from    *)
(* its ring, and what is on the line is the oldest byte not yet sent.  The *)
(* receiver: whatever bytes are lost or spoilt, the parser takes packets   *)
(* in their order, none twice, and every one that arrived as it was sent.  *)
(***************************************************************************)
EXTENDS XBoardLink, SequenceTheorems, TLAPS

(* The first byte of the ring that is not on the line: at "kicked" the one *)
(* at head is. *)
First(h) == IF mpc = "kicked" THEN Succ(h) ELSE h

(* Bytes from h to t, and the place of the k-th after h. *)
Held(h, t) == IF h <= t THEN t - h ELSE t - h + TxSize
Slot(h, k) == IF h + k < TxSize THEN h + k ELSE h + k - TxSize

OnLine == IF line = NoByte THEN 0 ELSE 1

RingTypes ==
  /\ txBuf \in [0 .. (TxSize - 1) -> Byte \cup {NoByte}]
  /\ head \in 0 .. (TxSize - 1) /\ tail \in 0 .. (TxSize - 1)
  /\ mpc \in {"idle", "queue", "kicked"}
  /\ rest \in Seq(Byte) /\ toSend \in Seq(Byte)
  /\ queued \in Seq(Content) /\ Len(queued) <= MaxFrames
  /\ mpc = "queue" => rest # <<>>

(* The transmitter is busy exactly while there is a byte on the line, and  *)
(* Routine moves head only after it has put one there. *)
BusyInv ==
  /\ busy = (line # NoByte)
  /\ mpc = "kicked" => line # NoByte /\ head # tail

(* What is to be sent is the byte on the line and the ring after it. *)
RingInv ==
  /\ Len(toSend) = OnLine + Held(First(head), tail)
  /\ line # NoByte => line = toSend[1]
  /\ \A k \in 0 .. (Held(First(head), tail) - 1) :
       toSend[OnLine + k + 1] = txBuf[Slot(First(head), k)]

SenderInv == RingTypes /\ BusyInv /\ RingInv

-----------------------------------------------------------------------------
(* The ring's arithmetic without the modulus. *)
LEMMA SuccIs ==
  ASSUME LinkAssumption, NEW i \in 0 .. (TxSize - 1)
  PROVE  Succ(i) = IF i + 1 = TxSize THEN 0 ELSE i + 1
<1>1. TxSize \in Nat /\ TxSize > 1
  BY DEF LinkAssumption
<1>2. CASE i + 1 = TxSize
  <2>1. TxSize % TxSize = 0
    BY <1>1, SMT
  <2> QED
    BY <1>2, <2>1 DEF Succ
<1>3. CASE i + 1 # TxSize
  <2>1. i + 1 \in 0 .. (TxSize - 1)
    BY <1>1, <1>3
  <2>2. (i + 1) % TxSize = i + 1
    BY <1>1, <2>1, SMT
  <2> QED
    BY <1>3, <2>2 DEF Succ
<1> QED
  BY <1>2, <1>3

LEMMA SlotFacts ==
  ASSUME LinkAssumption, NEW h \in 0 .. (TxSize - 1), NEW t \in 0 .. (TxSize - 1)
  PROVE  /\ Succ(h) \in 0 .. (TxSize - 1)
         /\ Held(h, t) \in 0 .. (TxSize - 1)
         /\ Held(h, t) = 0 <=> h = t
         /\ \A k \in 0 .. (Held(h, t) - 1) : Slot(h, k) \in 0 .. (TxSize - 1) /\ Slot(h, k) # t
         /\ Slot(h, 0) = h
         /\ Succ(t) # h => /\ Held(h, Succ(t)) = Held(h, t) + 1
                           /\ Slot(h, Held(h, t)) = t
         /\ h # t => /\ Held(Succ(h), t) = Held(h, t) - 1
                     /\ \A k \in 0 .. (Held(h, t) - 2) : Slot(Succ(h), k) = Slot(h, k + 1)
<1>1. TxSize \in Nat /\ TxSize > 1
  BY DEF LinkAssumption
<1>2. /\ Succ(h) = IF h + 1 = TxSize THEN 0 ELSE h + 1
      /\ Succ(t) = IF t + 1 = TxSize THEN 0 ELSE t + 1
  BY SuccIs
<1> QED
  BY <1>1, <1>2 DEF Held, Slot

(* What a packet puts into the ring are bytes, and not none. *)
LEMMA PacketIsBytes ==
  ASSUME LinkAssumption, NEW c \in Content, NEW n \in 1 .. MaxFrames
  PROVE  LET r == [i \in 1 .. Len(FrameBytes(c)) |-> [v |-> FrameBytes(c)[i], f |-> n, i |-> i]]
         IN  r \in Seq(Byte) /\ r # <<>>
<1> DEFINE V == {Pre, Sfd, Data, Junk} \cup {Info(d) : d \in Content} \cup {Crc(d) : d \in Content}
           H == <<Pre, Sfd, Info(c), Crc(c)>>
           r == [i \in 1 .. Len(FrameBytes(c)) |-> [v |-> FrameBytes(c)[i], f |-> n, i |-> i]]
<1>1. c.pay \in Seq({Pre, Data}) /\ Len(c.pay) <= PayloadMax
  <2>1. CASE c \in [type : {"app"}, pay : Payloads]
    BY <2>1 DEF LinkAssumption
  <2>2. CASE c = [type |-> "ping", pay |-> <<>>]
    BY <2>2, EmptySeq DEF LinkAssumption
  <2> QED
    BY <2>1, <2>2 DEF Content
<1>2. H \in Seq(V) /\ Len(H) = 4
  <2>1. Pre \in V /\ Sfd \in V /\ Info(c) \in V /\ Crc(c) \in V
    OBVIOUS
  <2> HIDE DEF V
  <2> QED
    BY <2>1
<1>3. c.pay \in Seq(V)
  BY <1>1
<1> HIDE DEF V, H
<1>4. /\ FrameBytes(c) = H \o c.pay
      /\ H \o c.pay \in Seq(V) /\ Len(H \o c.pay) = 4 + Len(c.pay)
  BY <1>2, <1>3, ConcatProperties DEF FrameBytes, H
<1>5. Len(c.pay) \in Nat /\ Len(FrameBytes(c)) \in 1 .. (HeaderLen + PayloadMax)
  BY <1>1, <1>3, <1>4, LenProperties DEF HeaderLen, LinkAssumption
<1>6. \A i \in 1 .. Len(FrameBytes(c)) : FrameBytes(c)[i] \in V
  BY <1>4, ElementOfSeq
<1>7. \A i \in 1 .. Len(FrameBytes(c)) : [v |-> FrameBytes(c)[i], f |-> n, i |-> i] \in Byte
  <2> TAKE i \in 1 .. Len(FrameBytes(c))
  <2>1. FrameBytes(c)[i] \in V /\ i \in 1 .. (HeaderLen + PayloadMax)
    BY <1>5, <1>6 DEF HeaderLen, LinkAssumption
  <2> QED
    BY <2>1 DEF Byte, V
<1>8. r \in [1 .. Len(FrameBytes(c)) -> Byte]
  BY <1>7
<1>9. r \in Seq(Byte) /\ Len(r) = Len(FrameBytes(c))
  BY <1>5, <1>8
<1> QED
  BY <1>5, <1>9

-----------------------------------------------------------------------------
LEMMA InitSenderInv == LinkAssumption /\ Init => SenderInv
<1> SUFFICES ASSUME LinkAssumption, Init PROVE SenderInv
  OBVIOUS
<1> USE DEF Init
<1>1. TxSize \in Nat /\ TxSize > 1 /\ MaxFrames \in Nat
  BY DEF LinkAssumption
<1>2. RingTypes
  BY <1>1, EmptySeq DEF RingTypes
<1>3. RingInv
  BY <1>1 DEF RingInv, OnLine, First, Held
<1> QED
  BY <1>2, <1>3 DEF SenderInv, BusyInv

(* A packet is only taken to be queued. *)
LEMMA QueuePacketSenderInv ==
  ASSUME LinkAssumption, SenderInv, NEW c \in Content, QueuePacket(c)
  PROVE  SenderInv'
<1> USE DEF SenderInv, QueuePacket
<1>1. Len(queued) \in Nat /\ MaxFrames \in Nat /\ Len(queued) + 1 \in 1 .. MaxFrames
  BY DEF RingTypes, LinkAssumption
<1>2. rest' \in Seq(Byte) /\ rest' # <<>>
  BY <1>1, PacketIsBytes
<1>3. queued' \in Seq(Content) /\ Len(queued') = Len(queued) + 1
  BY AppendProperties DEF RingTypes
<1>4. RingTypes'
  BY <1>1, <1>2, <1>3 DEF RingTypes
<1>5. BusyInv'
  BY DEF BusyInv
<1>6. RingInv'
  BY DEF RingInv, OnLine, First, Held, Slot
<1> QED
  BY <1>4, <1>5, <1>6

(* A byte goes behind the others, or the rest of the packet is dropped. *)
LEMMA QueueByteSenderInv ==
  ASSUME LinkAssumption, SenderInv, QueueByte
  PROVE  SenderInv'
<1> USE DEF SenderInv, QueueByte
<1>1. mpc = "queue" /\ mpc' \in {"idle", "queue"} /\ First(head) = head /\ First(head)' = head
  BY DEF First
<1>2. UNCHANGED <<head, busy, line, queued>> /\ OnLine' = OnLine
  BY DEF OnLine
<1>3. Head(rest) \in Byte /\ Tail(rest) \in Seq(Byte)
  BY HeadTailProperties DEF RingTypes
<1>4. BusyInv'
  BY <1>1, <1>2 DEF BusyInv
<1>5. CASE Succ(tail) = head
  <2>1. rest' = <<>> /\ mpc' = "idle" /\ UNCHANGED <<txBuf, tail, toSend>>
    BY <1>5
  <2>2. RingTypes'
    BY <1>2, <2>1, EmptySeq DEF RingTypes
  <2>3. RingInv'
    BY <1>1, <1>2, <2>1 DEF RingInv, Held, Slot
  <2> QED
    BY <1>4, <2>2, <2>3
<1>6. CASE Succ(tail) # head
  <2>1. /\ txBuf' = [txBuf EXCEPT ![tail] = Head(rest)]
        /\ tail' = Succ(tail)
        /\ toSend' = Append(toSend, Head(rest))
        /\ rest' = Tail(rest)
    BY <1>6
  <2> DEFINE n == Held(head, tail)
  <2>2. /\ Succ(tail) \in 0 .. (TxSize - 1) /\ n \in 0 .. (TxSize - 1)
        /\ Held(head, Succ(tail)) = n + 1 /\ Slot(head, n) = tail
        /\ \A k \in 0 .. (n - 1) : Slot(head, k) \in 0 .. (TxSize - 1) /\ Slot(head, k) # tail
    <3>1. head \in 0 .. (TxSize - 1) /\ tail \in 0 .. (TxSize - 1)
      BY DEF RingTypes
    <3>2. Succ(tail) \in 0 .. (TxSize - 1)
      BY <3>1, SlotFacts
    <3>3. Held(head, tail) \in 0 .. (TxSize - 1)
      BY <3>1, SlotFacts
    <3>4. Held(head, Succ(tail)) = Held(head, tail) + 1 /\ Slot(head, Held(head, tail)) = tail
      BY <1>6, <3>1, SlotFacts
    <3>5. \A k \in 0 .. (Held(head, tail) - 1) : Slot(head, k) \in 0 .. (TxSize - 1) /\ Slot(head, k) # tail
      BY <3>1, SlotFacts
    <3> QED
      BY <3>2, <3>3, <3>4, <3>5
  <2>3. toSend' \in Seq(Byte) /\ Len(toSend') = Len(toSend) + 1
        /\ toSend'[Len(toSend) + 1] = Head(rest)
        /\ \A j \in 1 .. Len(toSend) : toSend'[j] = toSend[j]
    BY <1>3, <2>1, AppendProperties DEF RingTypes
  <2>4. RingTypes'
    BY <1>1, <1>2, <1>3, <2>1, <2>2, <2>3 DEF RingTypes
  <2>5. Len(toSend) = OnLine + n /\ OnLine \in 0 .. 1
    BY <1>1 DEF RingInv, OnLine
  <2>6. \A k \in 0 .. n : Slot(head, k)' = Slot(head, k)
    BY <1>2 DEF Slot
  <2>7. Held(First(head), tail)' = n + 1
    BY <1>1, <1>2, <2>1, <2>2 DEF Held
  <2>8. line' # NoByte => line' = toSend'[1]
    BY <1>2, <2>2, <2>3, <2>5 DEF RingInv, OnLine
  <2>9. ASSUME NEW k \in 0 .. n
        PROVE  toSend'[OnLine + k + 1] = txBuf'[Slot(head, k)]
    <3>1. CASE k = n
      BY <2>1, <2>2, <2>3, <2>5, <3>1 DEF RingTypes
    <3>2. CASE k # n
      <4>1. k \in 0 .. (n - 1) /\ OnLine + k + 1 \in 1 .. Len(toSend)
        BY <2>2, <2>5, <3>2
      <4>2. toSend[OnLine + k + 1] = txBuf[Slot(head, k)]
        BY <1>1, <4>1 DEF RingInv
      <4>3. txBuf'[Slot(head, k)] = txBuf[Slot(head, k)]
        BY <2>1, <2>2, <4>1 DEF RingTypes
      <4> QED
        BY <2>3, <4>1, <4>2, <4>3
    <3> QED
      BY <3>1, <3>2
  <2>10. RingInv'
    <3>1. Len(toSend)' = OnLine' + (n + 1)
      BY <1>2, <2>2, <2>3, <2>5
    <3>2. \A k \in 0 .. ((n + 1) - 1) : toSend'[OnLine' + k + 1] = txBuf'[Slot(First(head), k)']
      BY <1>1, <1>2, <2>2, <2>6, <2>9 DEF Slot
    <3> QED
      BY <2>7, <2>8, <3>1, <3>2 DEF RingInv
  <2> QED
    BY <1>4, <2>4, <2>10
<1> QED
  BY <1>5, <1>6

(* Routine puts the byte at head on the line, which is free, and leaves    *)
(* head for the next step. *)
LEMMA KickSenderInv ==
  ASSUME LinkAssumption, NoByteAssumption, SenderInv, Kick
  PROVE  SenderInv'
<1> USE DEF SenderInv, Kick
<1> DEFINE n == Held(head, tail)
<1>1. head \in 0 .. (TxSize - 1) /\ tail \in 0 .. (TxSize - 1) /\ head # tail
  BY DEF RingTypes
<1>2. line = NoByte /\ line' = txBuf[head]
  BY DEF BusyInv, Transmit
<1>3. First(head) = head /\ First(head)' = Succ(head)
  BY DEF First, Succ
<1>4. n \in 1 .. (TxSize - 1) /\ Slot(head, 0) = head /\ Held(Succ(head), tail) = n - 1
  <2>1. n \in 0 .. (TxSize - 1) /\ n # 0
    BY <1>1, SlotFacts
  <2>2. Slot(head, 0) = head /\ Held(Succ(head), tail) = n - 1
    BY <1>1, SlotFacts
  <2> QED
    BY <2>1, <2>2
<1>5. \A k \in 0 .. (n - 2) : Slot(Succ(head), k) = Slot(head, k + 1)
  BY <1>1, SlotFacts
<1>6. /\ Len(toSend) = n
      /\ \A k \in 0 .. (n - 1) : toSend[k + 1] = txBuf[Slot(head, k)]
  <2>1. OnLine = 0 /\ Len(toSend) = OnLine + n
    BY <1>2, <1>3 DEF RingInv, OnLine
  <2>2. \A k \in 0 .. (n - 1) : toSend[OnLine + k + 1] = txBuf[Slot(head, k)]
    BY <1>3 DEF RingInv
  <2> QED
    BY <1>4, <2>1, <2>2
<1>7. line' = toSend[1] /\ line' \in Byte
  <2>1. toSend[0 + 1] = txBuf[Slot(head, 0)]
    BY <1>4, <1>6
  <2>2. toSend[1] \in Byte
    BY <1>4, <1>6, ElementOfSeq DEF RingTypes
  <2> QED
    BY <1>2, <1>4, <2>1, <2>2
<1>8. RingTypes'
  BY DEF RingTypes
<1>9. BusyInv'
  BY <1>1, <1>7 DEF BusyInv, NoByteAssumption
<1>10. OnLine' = 1 /\ UNCHANGED <<txBuf, head, tail, toSend>>
  BY <1>7 DEF OnLine, NoByteAssumption
<1>11. Held(First(head), tail)' = n - 1
  BY <1>3, <1>4, <1>10 DEF Held
<1>12. ASSUME NEW k \in 0 .. (n - 2)
       PROVE  toSend[1 + k + 1] = txBuf[Slot(Succ(head), k)]
  <2>1. k + 1 \in 0 .. (n - 1)
    BY <1>4
  <2>2. toSend[(k + 1) + 1] = txBuf[Slot(head, k + 1)]
    BY <1>6, <2>1
  <2> QED
    BY <1>5, <2>2
<1>13. RingInv'
  <2>1. Len(toSend)' = OnLine' + (n - 1)
    BY <1>4, <1>6, <1>10
  <2>2. \A k \in 0 .. ((n - 1) - 1) : toSend'[OnLine' + k + 1] = txBuf'[Slot(First(head), k)']
    BY <1>3, <1>4, <1>10, <1>12 DEF Slot
  <2> QED
    BY <1>7, <1>10, <1>11, <2>1, <2>2 DEF RingInv
<1> QED
  BY <1>8, <1>9, <1>13

(* head follows.  No interrupt has come in between. *)
LEMMA KickedSenderInv ==
  ASSUME LinkAssumption, SenderInv, Kicked
  PROVE  SenderInv'
<1> USE DEF SenderInv, Kicked
<1>1. Succ(head) \in 0 .. (TxSize - 1)
  BY SlotFacts DEF RingTypes
<1>2. First(head)' = First(head)
  BY DEF First
<1>3. RingTypes'
  BY <1>1 DEF RingTypes
<1>4. BusyInv'
  BY DEF BusyInv
<1>5. RingInv'
  BY <1>2 DEF RingInv, OnLine, Held, Slot
<1> QED
  BY <1>3, <1>4, <1>5

(* The byte is sent; the interrupt takes the next one, if there is one. *)
LEMMA TxFinishSenderInv ==
  ASSUME LinkAssumption, NoByteAssumption, KickMayStall = FALSE, SenderInv, TxFinish
  PROVE  SenderInv'
<1> USE DEF SenderInv
<1>1. /\ line # NoByte /\ mpc # "kicked"
      /\ toSend' = Tail(toSend)
      /\ busy' = (head # tail)
      /\ line' = IF head # tail THEN txBuf[head] ELSE NoByte
      /\ head' = IF head # tail THEN Succ(head) ELSE head
      /\ UNCHANGED <<txBuf, tail, mpc, rest, queued>>
  BY DEF TxFinish
<1>2. head \in 0 .. (TxSize - 1) /\ tail \in 0 .. (TxSize - 1)
  BY DEF RingTypes
<1>3. First(head) = head /\ First(head)' = head'
  BY <1>1 DEF First
<1> DEFINE n == Held(head, tail)
<1>4. n \in 0 .. (TxSize - 1) /\ (n = 0 <=> head = tail)
  BY <1>2, SlotFacts
<1>5. /\ Len(toSend) = 1 + n
      /\ \A k \in 0 .. (n - 1) : toSend[1 + k + 1] = txBuf[Slot(head, k)]
  BY <1>1, <1>3 DEF RingInv, OnLine
<1>6. /\ Tail(toSend) \in Seq(Byte) /\ Len(Tail(toSend)) = n
      /\ \A j \in 1 .. n : Tail(toSend)[j] = toSend[j + 1]
  <2>1. toSend \in Seq(Byte) /\ toSend # <<>>
    BY <1>4, <1>5, EmptySeq DEF RingTypes
  <2> QED
    BY <1>4, <1>5, <2>1, HeadTailProperties
<1>7. Succ(head) \in 0 .. (TxSize - 1)
  BY <1>2, SlotFacts
<1>8. RingTypes'
  BY <1>1, <1>6, <1>7 DEF RingTypes
<1>9. CASE head = tail
  <2>1. BusyInv'
    BY <1>1, <1>9 DEF BusyInv
  <2>2. OnLine' = 0 /\ Held(First(head), tail)' = 0 /\ Len(toSend)' = 0
    <3>1. head' = head /\ tail' = tail /\ line' = NoByte
      BY <1>1, <1>9
    <3> QED
      BY <1>1, <1>3, <1>4, <1>6, <1>9, <3>1 DEF OnLine, Held
  <2>3. RingInv'
    BY <1>1, <1>9, <2>2 DEF RingInv
  <2> QED
    BY <1>8, <2>1, <2>3
<1>10. CASE head # tail
  <2>1. line' = txBuf[head] /\ head' = Succ(head) /\ n \in 1 .. (TxSize - 1)
    BY <1>1, <1>4, <1>10
  <2>2. Slot(head, 0) = head /\ Held(Succ(head), tail) = n - 1
    BY <1>2, <1>10, SlotFacts
  <2>3. \A k \in 0 .. (n - 2) : Slot(Succ(head), k) = Slot(head, k + 1)
    BY <1>2, <1>10, SlotFacts
  <2>4. line' = toSend'[1] /\ line' \in Byte
    <3>1. toSend[1 + 0 + 1] = txBuf[Slot(head, 0)]
      BY <1>5, <2>1
    <3>2. toSend'[1] = toSend[2] /\ toSend'[1] \in Byte
      BY <1>1, <1>6, <2>1, ElementOfSeq
    <3> QED
      BY <2>1, <2>2, <3>1, <3>2
  <2>5. BusyInv'
    BY <1>1, <1>10, <2>4 DEF BusyInv, NoByteAssumption
  <2>6. OnLine' = 1 /\ Held(First(head), tail)' = n - 1
    BY <1>1, <1>3, <2>1, <2>2, <2>4 DEF OnLine, Held, NoByteAssumption
  <2>7. ASSUME NEW k \in 0 .. (n - 2)
        PROVE  toSend'[1 + k + 1] = txBuf[Slot(Succ(head), k)]
    <3>1. k + 1 \in 0 .. (n - 1) /\ k + 2 \in 1 .. n
      BY <2>1
    <3>2. toSend[1 + (k + 1) + 1] = txBuf[Slot(head, k + 1)]
      BY <1>5, <3>1
    <3>3. toSend'[k + 2] = toSend[(k + 2) + 1]
      BY <1>1, <1>6, <3>1
    <3> QED
      BY <2>3, <3>2, <3>3
  <2>8. RingInv'
    <3>1. Len(toSend)' = OnLine' + (n - 1)
      BY <1>1, <1>6, <2>1, <2>6
    <3>2. \A k \in 0 .. ((n - 1) - 1) : toSend'[OnLine' + k + 1] = txBuf'[Slot(First(head), k)']
      <4> TAKE k \in 0 .. ((n - 1) - 1)
      <4>1. k \in 0 .. (n - 2)
        BY <2>1
      <4>2. Slot(First(head), k)' = Slot(Succ(head), k)
        BY <1>3, <2>1 DEF Slot
      <4> QED
        BY <1>1, <2>6, <2>7, <4>1, <4>2
    <3> QED
      BY <2>4, <2>6, <3>1, <3>2 DEF RingInv
  <2> QED
    BY <1>8, <2>5, <2>8
<1> QED
  BY <1>9, <1>10

(* What the receiver does leaves the sender alone. *)
LEMMA OthersSenderInv ==
  ASSUME SenderInv, UNCHANGED <<txVars, line, queued, toSend>>
  PROVE  SenderInv'
BY DEF SenderInv, RingTypes, BusyInv, RingInv, OnLine, First, Held, Slot, Succ, txVars

-----------------------------------------------------------------------------
(* The inductive invariant of the sender (XBoardService::QueueDataForTx,   *)
(* Routine and NotifyTxFinish): ring, line and what is to be sent agree.   *)
THEOREM SenderInvHolds == KickMayStall = FALSE /\ Spec => []SenderInv
<1> SUFFICES ASSUME KickMayStall = FALSE PROVE Spec => []SenderInv
  OBVIOUS
<1> USE LinkAssumption, NoByteAssumption
<1>1. Init => SenderInv
  BY InitSenderInv
<1>2. SenderInv /\ [Next]_linkVars => SenderInv'
  <2> SUFFICES ASSUME SenderInv, [Next]_linkVars PROVE SenderInv'
    OBVIOUS
  <2>1. ASSUME NEW c \in Content, QueuePacket(c) PROVE SenderInv'
    BY <2>1, QueuePacketSenderInv
  <2>2. CASE QueueByte
    BY <2>2, QueueByteSenderInv
  <2>3. CASE Kick
    BY <2>3, KickSenderInv
  <2>4. CASE Kicked
    BY <2>4, KickedSenderInv
  <2>5. CASE TxFinish
    BY <2>5, TxFinishSenderInv
  <2>6. CASE WatchRx
    BY <2>6, OthersSenderInv DEF WatchRx
  <2>7. CASE Receiver
    BY <2>7, OthersSenderInv DEF Receiver, ParseStart, ParseStep
  <2>8. CASE UNCHANGED linkVars
    BY <2>8, OthersSenderInv DEF linkVars
  <2> QED
    BY <2>1, <2>2, <2>3, <2>4, <2>5, <2>6, <2>7, <2>8 DEF Next, Sender
<1> QED
  BY <1>1, <1>2, PTL DEF Spec

(* The ring says what the line carries. *)
LEMMA OldestOnLine ==
  ASSUME LinkAssumption, SenderInv
  PROVE  SentInOrder
<1> SUFFICES ASSUME line # NoByte PROVE toSend # <<>> /\ line = Head(toSend)
  BY DEF SentInOrder
<1>1. OnLine = 1 /\ line = toSend[1] /\ toSend \in Seq(Byte)
  BY DEF SenderInv, RingInv, RingTypes, OnLine
<1>2. head \in 0 .. (TxSize - 1) /\ tail \in 0 .. (TxSize - 1)
  BY DEF SenderInv, RingTypes
<1>3. First(head) \in 0 .. (TxSize - 1)
  BY <1>2, SlotFacts DEF First
<1>4. Held(First(head), tail) \in 0 .. (TxSize - 1)
  BY <1>2, <1>3, SlotFacts
<1>5. Len(toSend) >= 1
  BY <1>1, <1>4 DEF SenderInv, RingInv
<1> QED
  BY <1>1, <1>5, EmptySeq

(* The byte on the line is always the oldest one queued and not yet sent,  *)
(* for every size of the ring and any packets, as long as the main thread  *)
(* is not held up for a byte time between starting a transmission and      *)
(* moving head (XBoardService.cc:72-73). *)
THEOREM BytesInOrder == KickMayStall = FALSE /\ Spec => []SentInOrder
<1>1. SenderInv => SentInOrder
  BY LinkAssumption, OldestOnLine
<1> QED
  BY <1>1, SenderInvHolds, PTL

(* A transmission is under way exactly while _tx_busy is set: the flag is  *)
(* never left set with no interrupt to come, nor cleared with a byte on    *)
(* the line, which would make Routine lose the next one. *)
THEOREM BusyMeansByte == KickMayStall = FALSE /\ Spec => [](busy = (line # NoByte))
<1>1. SenderInv => busy = (line # NoByte)
  BY DEF SenderInv, BusyInv
<1> QED
  BY <1>1, SenderInvHolds, PTL

-----------------------------------------------------------------------------
(* The types of the link.                                                  *)
(* The values a byte has on the cable. *)
Value == {Pre, Sfd, Data, Junk} \cup {Info(c) : c \in Content} \cup {Crc(c) : c \in Content}

(* The types of each board's variables, and what they rest on: the loop of *)
(* QueueDataForTx is left when nothing remains, and last is a byte or none. *)
SendTypes ==
  /\ txBuf \in [0 .. (TxSize - 1) -> Byte \cup {NoByte}]
  /\ head \in 0 .. (TxSize - 1) /\ tail \in 0 .. (TxSize - 1)
  /\ busy \in BOOLEAN /\ line \in Byte \cup {NoByte}
  /\ mpc \in {"idle", "queue", "kicked"} /\ rest \in Seq(Byte)
  /\ mpc = "queue" => rest # <<>>
  /\ queued \in Seq(Content) /\ Len(queued) <= MaxFrames

ReceiveTypes ==
  /\ rxq \in Seq(Byte) /\ Len(rxq) < RxSize
  /\ rxOn \in BOOLEAN /\ stopped \in 0 .. RestartAfter
  /\ noise \in 0 .. MaxNoise
  /\ last \in [f : 0 .. MaxFrames, i : Nat] /\ whole \subseteq 1 .. MaxFrames

ParseTypes ==
  /\ parsing \in BOOLEAN /\ parsed \in 0 .. (BytesPerRun + PreambleLen - 1)

LinkInv == SendTypes /\ ReceiveTypes /\ ParseTypes

(* The first n bytes of the receive queue are gone. *)
Dropped(n) ==
  /\ n \in 0 .. Len(rxq)
  /\ rxq' \in Seq(Byte)
  /\ Len(rxq') = Len(rxq) - n
  /\ \A k \in 1 .. (Len(rxq) - n) : rxq'[k] = rxq[k + n]

(* The four ways a turn of the loop in ParsePacket ends. *)
Stops == Dropped(0) /\ got' = got
SkipsOne ==
  /\ Dropped(1) /\ got' = got
  /\ rxq[1].v # Pre \/ (Len(rxq) >= HeaderLen /\ rxq[2].v # Sfd)
SkipsPreamble ==
  /\ Dropped(PreambleLen) /\ got' = got
  /\ Len(rxq) >= HeaderLen /\ rxq[1].v = Pre /\ rxq[2].v = Sfd
  /\ \E len \in LenOf(rxq[3].v) :
       TooLong(len) \/ (Len(rxq) >= HeaderLen + len /\ ~ Valid(len))
Takes ==
  /\ got' = Append(got, rxq[HeaderLen].f)
  /\ \E len \in LenOf(rxq[3].v) \cap Nat :
       /\ ~ TooLong(len) /\ Len(rxq) >= HeaderLen + len /\ Valid(len)
       /\ Dropped(HeaderLen + len)

-----------------------------------------------------------------------------
(* The seven shapes of a byte differ in their kind. *)
LEMMA ValueKinds ==
  /\ Pre.k = "pre" /\ Sfd.k = "sfd" /\ Data.k = "data" /\ Junk.k = "junk"
  /\ \A c : Info(c).k = "info" /\ Info(c).len = Len(c.pay)
  /\ \A c : Crc(c).k = "crc" /\ Crc(c).of = c
BY DEF Pre, Sfd, Data, Junk, Info, Crc

LEMMA ContentPay ==
  ASSUME LinkAssumption, NEW c \in Content
  PROVE  /\ c.pay \in Seq({Pre, Data}) /\ Len(c.pay) \in 0 .. (PayloadMax - 1)
         /\ Len(c.pay) > 0 => c.pay[Len(c.pay)] = Data
<1>1. PayloadMax \in Nat \ {0}
  BY DEF LinkAssumption
<1>2. CASE c \in [type : {"app"}, pay : Payloads]
  <2>1. c.pay \in Payloads
    BY <1>2
  <2>2. c.pay \in Seq({Pre, Data}) /\ Len(c.pay) < PayloadMax /\ c.pay[Len(c.pay)] = Data
    BY <2>1 DEF LinkAssumption
  <2> QED
    BY <1>1, <2>2, LenProperties
<1>3. CASE c = [type |-> "ping", pay |-> <<>>]
  BY <1>1, <1>3, EmptySeq
<1> QED
  BY <1>2, <1>3 DEF Content

(* What the bytes of a packet are, place by place. *)
LEMMA FrameShape ==
  ASSUME LinkAssumption, NEW c \in Content
  PROVE  /\ FrameBytes(c) \in Seq(Value)
         /\ Len(FrameBytes(c)) = HeaderLen + Len(c.pay)
         /\ Len(c.pay) \in 0 .. (PayloadMax - 1)
         /\ FrameBytes(c)[1] = Pre /\ FrameBytes(c)[2] = Sfd
         /\ FrameBytes(c)[3] = Info(c) /\ FrameBytes(c)[4] = Crc(c)
         /\ \A i \in 5 .. Len(FrameBytes(c)) : FrameBytes(c)[i] \in {Pre, Data}
         /\ Len(c.pay) > 0 => FrameBytes(c)[Len(FrameBytes(c))] = Data
<1> DEFINE H == <<Pre, Sfd, Info(c), Crc(c)>>
<1>1. c.pay \in Seq({Pre, Data}) /\ Len(c.pay) \in 0 .. (PayloadMax - 1)
  BY ContentPay
<1>2. Len(c.pay) > 0 => c.pay[Len(c.pay)] = Data
  BY ContentPay
<1>3. Len(H) = 4 /\ H[1] = Pre /\ H[2] = Sfd /\ H[3] = Info(c) /\ H[4] = Crc(c)
  OBVIOUS
<1>11. H \in Seq(Value)
  <2>1. Pre \in Value /\ Sfd \in Value /\ Info(c) \in Value /\ Crc(c) \in Value
    BY DEF Value
  <2> QED
    BY <2>1
<1>4. c.pay \in Seq(Value)
  <2>1. {Pre, Data} \subseteq Value
    BY DEF Value
  <2> QED
    BY <1>1, <2>1, SeqMonotonic
<1> HIDE DEF H
<1>5. FrameBytes(c) = H \o c.pay
  BY DEF FrameBytes, H
<1>6. /\ H \o c.pay \in Seq(Value)
      /\ Len(H \o c.pay) = 4 + Len(c.pay)
      /\ \A i \in 1 .. (4 + Len(c.pay)) : (H \o c.pay)[i] = IF i <= 4 THEN H[i] ELSE c.pay[i - 4]
  <2>1. H \o c.pay \in Seq(Value) /\ Len(H \o c.pay) = Len(H) + Len(c.pay)
    BY <1>11, <1>4, ConcatProperties
  <2>2. \A i \in 1 .. (Len(H) + Len(c.pay)) :
          (H \o c.pay)[i] = IF i <= Len(H) THEN H[i] ELSE c.pay[i - Len(H)]
    BY <1>11, <1>4, ConcatProperties
  <2> QED
    BY <1>3, <2>1, <2>2
<1>7. \A i \in 1 .. Len(c.pay) : c.pay[i] \in {Pre, Data}
  BY <1>1, ElementOfSeq
<1>8. Len(FrameBytes(c)) = 4 + Len(c.pay) /\ Len(c.pay) \in Nat /\ PayloadMax \in Nat
  BY <1>1, <1>5, <1>6 DEF LinkAssumption
<1>9. \A i \in 5 .. Len(FrameBytes(c)) : FrameBytes(c)[i] \in {Pre, Data}
  <2> TAKE i \in 5 .. Len(FrameBytes(c))
  <2>1. i - 4 \in 1 .. Len(c.pay) /\ i \in 1 .. (4 + Len(c.pay)) /\ ~ (i <= 4)
    BY <1>8
  <2> QED
    BY <1>5, <1>6, <1>7, <2>1
<1>10. Len(c.pay) > 0 => FrameBytes(c)[Len(FrameBytes(c))] = Data
  BY <1>2, <1>5, <1>6, <1>8
<1> QED
  BY <1>1, <1>3, <1>5, <1>6, <1>8, <1>9, <1>10 DEF HeaderLen

LEMMA ByteFields ==
  ASSUME NEW b \in Byte
  PROVE  b.v \in Value /\ b.f \in 1 .. MaxFrames /\ b.i \in 1 .. (HeaderLen + PayloadMax)
BY DEF Byte, Value

LEMMA LenOfNat ==
  ASSUME LinkAssumption, NEW v \in Value, NEW len \in LenOf(v)
  PROVE  len \in Nat
<1>1. PayloadMax \in Nat /\ RxSize \in Nat
  BY DEF LinkAssumption
<1>2. CASE v.k = "info"
  <2>1. PICK c \in Content : v = Info(c)
    BY <1>2, ValueKinds DEF Value
  <2>2. v.len \in Nat
    BY <2>1, ValueKinds, ContentPay
  <2> QED
    BY <1>2, <2>2 DEF LenOf
<1>3. CASE v.k # "info"
  BY <1>1, <1>3 DEF LenOf
<1> QED
  BY <1>2, <1>3

(* RemoveFrontMulti. *)
LEMMA SkipDrops ==
  ASSUME rxq \in Seq(Byte), NEW n \in 0 .. Len(rxq),
         rxq' = SubSeq(rxq, n + 1, Len(rxq))
  PROVE  Dropped(n)
<1>1. Len(rxq) \in Nat
  BY LenProperties
<1>2. \A i \in (n + 1) .. Len(rxq) : rxq[i] \in Byte
  <2> TAKE i \in (n + 1) .. Len(rxq)
  <2>1. i \in 1 .. Len(rxq)
    BY <1>1
  <2> QED
    BY <2>1, ElementOfSeq
<1>3. /\ rxq' \in Seq(Byte)
      /\ Len(rxq') = IF n + 1 <= Len(rxq) THEN Len(rxq) - (n + 1) + 1 ELSE 0
      /\ \A i \in 1 .. (Len(rxq) - (n + 1) + 1) : rxq'[i] = rxq[(n + 1) + i - 1]
  BY <1>1, <1>2, SubSeqProperties
<1>4. Len(rxq') = Len(rxq) - n
  BY <1>1, <1>3
<1>5. \A k \in 1 .. (Len(rxq) - n) : rxq'[k] = rxq[k + n]
  <2> TAKE k \in 1 .. (Len(rxq) - n)
  <2>1. k \in 1 .. (Len(rxq) - (n + 1) + 1) /\ (n + 1) + k - 1 = k + n
    BY <1>1
  <2> QED
    BY <1>3, <2>1
<1> QED
  BY <1>3, <1>4, <1>5 DEF Dropped

(* A turn of the parser's loop, from the conditions of the code. *)
LEMMA ParseStepIs ==
  ASSUME LinkAssumption, LinkInv, ParseStep
  PROVE  /\ Stops \/ SkipsOne \/ SkipsPreamble \/ Takes
         /\ ParseTypes'
<1> USE DEF ParseTypes
<1>1. rxq \in Seq(Byte) /\ Len(rxq) \in Nat /\ (rxq # <<>> => Len(rxq) > 0)
  BY EmptySeq, LenProperties DEF LinkInv, ReceiveTypes
<1>2. BytesPerRun \in Nat \ {0} /\ parsed \in 0 .. (BytesPerRun + PreambleLen - 1) /\ parsing \in BOOLEAN
  BY DEF LinkAssumption, LinkInv, ParseTypes
<1>3. CASE ParseEnd
  <2>1. Dropped(0)
    BY <1>1, <1>3 DEF Dropped, ParseEnd
  <2>2. got' = got /\ parsing' \in BOOLEAN
    BY <1>3 DEF ParseEnd
  <2>3. parsed' \in 0 .. (BytesPerRun + PreambleLen - 1)
    BY <1>2, <1>3 DEF ParseEnd, PreambleLen
  <2> QED
    BY <2>1, <2>2, <2>3 DEF Stops
<1>4. ASSUME NEW n \in {1, PreambleLen}, n <= Len(rxq), parsed < BytesPerRun, Skip(n)
      PROVE  Dropped(n) /\ got' = got /\ parsing' \in BOOLEAN
             /\ parsed' \in 0 .. (BytesPerRun + PreambleLen - 1)
  <2>1. Dropped(n)
    BY <1>1, <1>4, SkipDrops DEF Skip, PreambleLen
  <2> QED
    BY <1>2, <1>4, <2>1 DEF Skip, PreambleLen
<1>5. CASE rxq # <<>> /\ ~ (parsed >= BytesPerRun) /\ Skip(1)
           /\ (rxq[1].v # Pre \/ (~ (Len(rxq) < HeaderLen) /\ rxq[2].v # Sfd))
  <2>1. 1 <= Len(rxq) /\ parsed < BytesPerRun
    BY <1>1, <1>2, <1>5
  <2>2. Len(rxq) < HeaderLen \/ Len(rxq) >= HeaderLen
    BY <1>1 DEF HeaderLen
  <2>3. Dropped(1) /\ got' = got /\ parsing' \in BOOLEAN
        /\ parsed' \in 0 .. (BytesPerRun + PreambleLen - 1)
    BY <1>4, <1>5, <2>1
  <2> QED
    BY <1>5, <2>2, <2>3 DEF SkipsOne
<1>6. ASSUME rxq # <<>>, ~ (parsed >= BytesPerRun), rxq[1].v = Pre, ~ (Len(rxq) < HeaderLen),
             rxq[2].v = Sfd, NEW len \in LenOf(rxq[3].v)
      PROVE  /\ TooLong(len) /\ SkipInvalid(len) => SkipsPreamble
             /\ Len(rxq) >= HeaderLen + len /\ ~ Valid(len) /\ SkipInvalid(len) => SkipsPreamble
             /\ SkipInvalid(len) => parsing' \in BOOLEAN /\ parsed' \in 0 .. (BytesPerRun + PreambleLen - 1)
             /\ ~ TooLong(len) /\ Len(rxq) >= HeaderLen + len /\ Valid(len) /\ Accept(len) =>
                  Takes /\ parsing' \in BOOLEAN /\ parsed' \in 0 .. (BytesPerRun + PreambleLen - 1)
  <2>1. Len(rxq) >= 4 /\ PreambleLen = 2 /\ HeaderLen = 4
    BY <1>1, <1>6 DEF HeaderLen, PreambleLen
  <2>2. rxq[3] \in Byte
    BY <1>1, <2>1, ElementOfSeq
  <2>3. len \in Nat
    BY <1>6, <2>2, ByteFields, LenOfNat
  <2>4. SkipInvalid(len) => Dropped(PreambleLen) /\ got' = got /\ parsing' \in BOOLEAN
             /\ parsed' \in 0 .. (BytesPerRun + PreambleLen - 1)
    BY <1>2, <1>4, <1>6, <2>1 DEF SkipInvalid
  <2>5. ASSUME ~ TooLong(len), Len(rxq) >= HeaderLen + len, Valid(len), Accept(len)
        PROVE  Takes /\ parsing' \in BOOLEAN /\ parsed' \in 0 .. (BytesPerRun + PreambleLen - 1)
    <3>1. HeaderLen + len \in 0 .. Len(rxq) /\ rxq' = SubSeq(rxq, (HeaderLen + len) + 1, Len(rxq))
      BY <1>1, <2>1, <2>3, <2>5 DEF Accept
    <3>2. Dropped(HeaderLen + len)
      BY <1>1, <3>1, SkipDrops
    <3>3. (parsing' = parsing /\ parsed' = parsed) \/ (parsing' = FALSE /\ parsed' = 0)
      BY <2>5 DEF Accept
    <3>6. parsed' \in 0 .. (BytesPerRun + PreambleLen - 1)
      BY <1>2, <2>1, <3>3
    <3>7. parsing' \in BOOLEAN
      BY <1>2, <3>3
    <3>4. parsing' \in BOOLEAN /\ parsed' \in 0 .. (BytesPerRun + PreambleLen - 1)
      BY <3>6, <3>7
    <3>5. got' = Append(got, rxq[HeaderLen].f)
      BY <2>5 DEF Accept
    <3> QED
      BY <1>6, <2>3, <2>5, <3>2, <3>4, <3>5 DEF Takes
  <2> QED
    BY <1>1, <1>6, <2>1, <2>4, <2>5 DEF SkipsPreamble
<1> QED
  BY <1>3, <1>5, <1>6 DEF ParseStep

-----------------------------------------------------------------------------
LEMMA InitLinkInv == LinkAssumption /\ Init => LinkInv
<1> SUFFICES ASSUME LinkAssumption, Init PROVE LinkInv
  OBVIOUS
<1>1. /\ TxSize \in Nat /\ TxSize > 1 /\ MaxFrames \in Nat /\ MaxNoise \in Nat
      /\ RestartAfter \in Nat /\ BytesPerRun \in Nat \ {0}
      /\ RxSize \in Nat /\ PayloadMax \in Nat /\ RxSize > HeaderLen + PayloadMax - 1
  BY DEF LinkAssumption
<1>2. SendTypes
  BY <1>1, EmptySeq DEF Init, SendTypes
<1>3. ReceiveTypes
  BY <1>1, EmptySeq DEF Init, ReceiveTypes, HeaderLen
<1>4. ParseTypes
  <2>1. parsing \in BOOLEAN
    BY DEF Init
  <2>2. parsed \in 0 .. (BytesPerRun + PreambleLen - 1)
    BY <1>1 DEF Init, PreambleLen
  <2> QED
    BY <2>1, <2>2 DEF ParseTypes
<1> QED
  BY <1>2, <1>3, <1>4 DEF LinkInv

LEMMA QueuePacketSendTypes ==
  ASSUME LinkAssumption, SendTypes, NEW c \in Content, QueuePacket(c)
  PROVE  SendTypes'
<1>1. Len(queued) \in Nat /\ MaxFrames \in Nat /\ Len(queued) + 1 \in 1 .. MaxFrames
  BY LenProperties DEF SendTypes, LinkAssumption, QueuePacket
<1>2. rest' \in Seq(Byte) /\ rest' # <<>>
  BY <1>1, PacketIsBytes DEF QueuePacket
<1>3. queued' \in Seq(Content) /\ Len(queued') = Len(queued) + 1
  BY AppendProperties DEF SendTypes, QueuePacket
<1> QED
  BY <1>1, <1>2, <1>3 DEF SendTypes, QueuePacket

LEMMA QueueByteSendTypes ==
  ASSUME LinkAssumption, SendTypes, QueueByte
  PROVE  SendTypes'
<1>1. rest # <<>> /\ Head(rest) \in Byte /\ Tail(rest) \in Seq(Byte)
  BY HeadTailProperties DEF SendTypes, QueueByte
<1>2. Succ(tail) \in 0 .. (TxSize - 1)
  BY SlotFacts DEF SendTypes
<1>3. rest' \in Seq(Byte) /\ UNCHANGED <<head, busy, line, queued>>
  BY <1>1, EmptySeq DEF QueueByte
<1>4. txBuf' \in [0 .. (TxSize - 1) -> Byte \cup {NoByte}] /\ tail' \in 0 .. (TxSize - 1)
  BY <1>1, <1>2 DEF QueueByte, SendTypes
<1>5. mpc' \in {"idle", "queue", "kicked"} /\ (mpc' = "queue" => rest' # <<>>)
  BY DEF QueueByte
<1> QED
  BY <1>3, <1>4, <1>5 DEF SendTypes

LEMMA KickSendTypes ==
  ASSUME LinkAssumption, SendTypes, Kick \/ Kicked
  PROVE  SendTypes'
<1>1. Succ(head) \in 0 .. (TxSize - 1) /\ txBuf[head] \in Byte \cup {NoByte}
  <2>1. Succ(head) \in 0 .. (TxSize - 1)
    BY SlotFacts DEF SendTypes
  <2> QED
    BY <2>1 DEF SendTypes
<1>2. CASE Kick
  BY <1>1, <1>2 DEF Kick, Transmit, SendTypes
<1>3. CASE Kicked
  BY <1>1, <1>3 DEF Kicked, SendTypes
<1> QED
  BY <1>2, <1>3

LEMMA TxFinishSendTypes ==
  ASSUME LinkAssumption, SendTypes, TxFinish
  PROVE  SendTypes'
<1>1. Succ(head) \in 0 .. (TxSize - 1) /\ txBuf[head] \in Byte \cup {NoByte}
  <2>1. Succ(head) \in 0 .. (TxSize - 1)
    BY SlotFacts DEF SendTypes
  <2> QED
    BY <2>1 DEF SendTypes
<1>2. /\ line' \in Byte \cup {NoByte} /\ head' \in 0 .. (TxSize - 1)
      /\ busy' \in BOOLEAN /\ UNCHANGED <<txBuf, tail, mpc, rest, queued>>
  BY <1>1 DEF TxFinish, SendTypes
<1> QED
  BY <1>2 DEF SendTypes

(* A byte that arrives, spoilt or not, goes into the queue if there is     *)
(* room. *)
LEMMA ArriveIs ==
  ASSUME LinkAssumption, ReceiveTypes, NEW b \in Byte, NEW v \in {b.v, Junk}, Arrive(b, v)
  PROVE  \/ rxq' = rxq
         \/ /\ Len(rxq) < RxSize - 1
            /\ rxq' = Append(rxq, [b EXCEPT !.v = v])
            /\ [b EXCEPT !.v = v] \in Byte
<1>1. [b EXCEPT !.v = v] \in Byte
  BY DEF Byte
<1>2. Len(rxq) \in Nat /\ Len(rxq) < RxSize /\ RxSize \in Nat
  BY LenProperties DEF ReceiveTypes, LinkAssumption
<1>3. rxq' = rxq \/ (Len(rxq) # RxSize - 1 /\ rxq' = Append(rxq, [b EXCEPT !.v = v]))
  BY DEF Arrive
<1> QED
  BY <1>1, <1>2, <1>3

LEMMA DeliverReceiveTypes ==
  ASSUME LinkAssumption, ReceiveTypes, line \in Byte, Deliver(line), UNCHANGED stopped
  PROVE  ReceiveTypes'
<1>0. RxSize \in Nat /\ MaxNoise \in Nat /\ MaxFrames \in Nat /\ noise \in 0 .. MaxNoise
  BY DEF LinkAssumption, ReceiveTypes
<1>1. line.f \in 1 .. MaxFrames /\ line.i \in Nat
  BY ByteFields DEF HeaderLen, LinkAssumption
<1>2. [f |-> 0, i |-> 0] \in [f : 0 .. MaxFrames, i : Nat] /\ [f |-> line.f, i |-> line.i] \in [f : 0 .. MaxFrames, i : Nat]
  BY <1>0, <1>1
<1>3. ASSUME NEW v \in {line.v, Junk}, Arrive(line, v)
      PROVE  /\ rxq' \in Seq(Byte) /\ Len(rxq') < RxSize
             /\ last' \in [f : 0 .. MaxFrames, i : Nat] /\ whole' \subseteq 1 .. MaxFrames
  <2>1. rxq' \in Seq(Byte) /\ Len(rxq') < RxSize
    <3>1. CASE rxq' = rxq
      BY <3>1 DEF ReceiveTypes
    <3>2. CASE /\ Len(rxq) < RxSize - 1
               /\ rxq' = Append(rxq, [line EXCEPT !.v = v])
               /\ [line EXCEPT !.v = v] \in Byte
      <4>1. rxq' \in Seq(Byte) /\ Len(rxq') = Len(rxq) + 1 /\ Len(rxq) \in Nat
        BY <3>2, AppendProperties, LenProperties DEF ReceiveTypes
      <4> QED
        BY <1>0, <3>2, <4>1
    <3> QED
      BY <1>3, <3>1, <3>2, ArriveIs
  <2>2. last' \in [f : 0 .. MaxFrames, i : Nat]
    BY <1>2, <1>3 DEF Arrive, ReceiveTypes
  <2>3. whole' \subseteq 1 .. MaxFrames
    BY <1>1, <1>3 DEF Arrive, ReceiveTypes
  <2> QED
    BY <2>1, <2>2, <2>3
<1>4. CASE Arrive(line, line.v) /\ UNCHANGED <<noise, rxOn>>
  BY <1>3, <1>4 DEF ReceiveTypes
<1>5. CASE Spoil /\ Arrive(line, Junk) /\ UNCHANGED rxOn
  <2>1. noise' \in 0 .. MaxNoise
    BY <1>0, <1>5 DEF Spoil
  <2> QED
    BY <1>3, <1>5, <2>1 DEF ReceiveTypes
<1>6. CASE Spoil /\ last' = [f |-> 0, i |-> 0] /\ rxOn' \in {rxOn, FALSE} /\ UNCHANGED <<rxq, whole>>
  <2>1. noise' \in 0 .. MaxNoise
    BY <1>0, <1>6 DEF Spoil
  <2>2. rxOn' \in BOOLEAN
    BY <1>6 DEF ReceiveTypes
  <2> QED
    BY <1>2, <1>6, <2>1, <2>2 DEF ReceiveTypes
<1> QED
  BY <1>4, <1>5, <1>6 DEF Deliver

LEMMA WatchRxReceiveTypes ==
  ASSUME LinkAssumption, ReceiveTypes, WatchRx
  PROVE  ReceiveTypes'
<1>1. RestartAfter \in Nat /\ stopped \in 0 .. RestartAfter
  BY DEF LinkAssumption, ReceiveTypes
<1>2. rxOn' \in BOOLEAN
  BY DEF WatchRx
<1>3. stopped' \in 0 .. RestartAfter
  <2>1. stopped' = 0 \/ (stopped' = stopped + 1 /\ ~ (stopped >= RestartAfter))
    BY DEF WatchRx
  <2> QED
    BY <1>1, <2>1
<1> QED
  BY <1>2, <1>3 DEF WatchRx, ReceiveTypes

-----------------------------------------------------------------------------
(* The types of both boards' variables, with what they rest on, whether or *)
(* not the main thread is ever held up at "kicked". *)
THEOREM LinkInvHolds == Spec => []LinkInv
<1> USE LinkAssumption
<1>1. Init => LinkInv
  BY InitLinkInv
<1>2. LinkInv /\ [Next]_linkVars => LinkInv'
  <2> SUFFICES ASSUME LinkInv, [Next]_linkVars PROVE LinkInv'
    OBVIOUS
  <2> USE DEF LinkInv
  <2>1. ASSUME NEW c \in Content, QueuePacket(c) PROVE LinkInv'
    <3>1. ReceiveTypes' /\ ParseTypes'
      BY <2>1 DEF QueuePacket, rxVars, parseVars, ReceiveTypes, ParseTypes
    <3> QED
      BY <2>1, <3>1, QueuePacketSendTypes
  <2>2. CASE Sender
    <3>1. ReceiveTypes' /\ ParseTypes'
      BY <2>2 DEF Sender, QueueByte, Kick, Kicked, rxVars, parseVars, ReceiveTypes, ParseTypes
    <3> QED
      BY <2>2, <3>1, QueueByteSendTypes, KickSendTypes DEF Sender
  <2>3. CASE TxFinish
    <3>1. line \in Byte /\ Deliver(line) /\ UNCHANGED stopped
      BY <2>3 DEF TxFinish, SendTypes
    <3>2. ParseTypes'
      BY <2>3 DEF TxFinish, parseVars, ParseTypes
    <3> QED
      BY <2>3, <3>1, <3>2, TxFinishSendTypes, DeliverReceiveTypes
  <2>4. CASE WatchRx
    <3>1. SendTypes' /\ ParseTypes'
      BY <2>4 DEF WatchRx, txVars, parseVars, SendTypes, ParseTypes
    <3> QED
      BY <2>4, <3>1, WatchRxReceiveTypes
  <2>5. CASE ParseStart
    BY <2>5 DEF ParseStart, txVars, rxVars, SendTypes, ReceiveTypes, ParseTypes
  <2>6. CASE ParseStep
    <3>1. SendTypes'
      BY <2>6 DEF ParseStep, txVars, SendTypes
    <3>2. ParseTypes' /\ (Stops \/ SkipsOne \/ SkipsPreamble \/ Takes)
      BY <2>6, ParseStepIs
    <3>3. PICK n \in Nat : Dropped(n)
      <4>1. \A len \in Nat : HeaderLen + len \in Nat
        BY DEF HeaderLen
      <4> QED
        BY <3>2, <4>1 DEF Stops, SkipsOne, SkipsPreamble, Takes, PreambleLen
    <3>4. rxq' \in Seq(Byte) /\ Len(rxq') < RxSize
      <4>1. Len(rxq) \in Nat /\ RxSize \in Nat /\ Len(rxq) < RxSize
        BY LenProperties DEF ReceiveTypes, LinkAssumption
      <4> QED
        BY <3>3, <4>1 DEF Dropped
    <3>5. ReceiveTypes'
      BY <2>6, <3>4 DEF ParseStep, ReceiveTypes
    <3> QED
      BY <3>1, <3>2, <3>5
  <2>7. CASE UNCHANGED linkVars
    BY <2>7 DEF linkVars, txVars, rxVars, parseVars, SendTypes, ReceiveTypes, ParseTypes
  <2> QED
    BY <2>1, <2>2, <2>3, <2>4, <2>5, <2>6, <2>7 DEF Next, Receiver
<1> QED
  BY <1>1, <1>2, PTL DEF Spec

(* No variable of the link ever leaves its type: neither ring overruns     *)
(* (XBoardService::QueueDataForTx, OnByteArrive), and the bytes one run of  *)
(* ParsePacket counts stay below its limit and a preamble. *)
THEOREM LinkTypesHold == Spec => []LinkTypeOK
<1>1. LinkInv => LinkTypeOK
  BY DEF LinkInv, SendTypes, ReceiveTypes, ParseTypes, LinkTypeOK
<1> QED
  BY <1>1, LinkInvHolds, PTL

-----------------------------------------------------------------------------
(* Nothing of a packet that arrived as it was sent is skipped.             *)
(* The k-th byte of frame f as it was queued, q being what was queued, and *)
(* whether a byte is one that was queued. *)
FrameLen(q, f) == Len(FrameBytes(q[f]))
AsSent(q, f, k) == [v |-> FrameBytes(q[f])[k], f |-> f, i |-> k]
Genuine(q, b) ==
  /\ b.f \in 1 .. Len(q) /\ b.i \in 1 .. FrameLen(q, b.f)
  /\ b = AsSent(q, b.f, b.i)

(* In s, the first m bytes of frame f are in their places from p on; they  *)
(* are all its bytes, or the last ones of s. *)
Run(q, s, f, p, m) ==
  /\ f \in 1 .. Len(q) /\ m \in 1 .. FrameLen(q, f)
  /\ p \in 1 .. (Len(s) - m + 1)
  /\ m = FrameLen(q, f) \/ p + m - 1 = Len(s)
  /\ \A k \in 1 .. m : s[p + k - 1] = AsSent(q, f, k)

Found(g, f) == \E j \in DOMAIN g : g[j] = f

(* What the sender has to send are bytes of packets that were queued. *)
WireInv ==
  /\ \A j \in 0 .. (TxSize - 1) : txBuf[j] # NoByte => Genuine(queued, txBuf[j])
  /\ line # NoByte => Genuine(queued, line)
  /\ \A j \in 1 .. Len(rest) : Genuine(queued, rest[j])

(* A packet that has arrived in part, as it was sent so far, is the end of *)
(* the receive queue; one that has arrived is received or is in the queue  *)
(* from its first byte to its last. *)
PartInv ==
  last.f # 0 =>
    /\ last.f \in 1 .. Len(queued) /\ last.i \in 1 .. FrameLen(queued, last.f)
    /\ last.i < FrameLen(queued, last.f) =>
         Run(queued, rxq, last.f, Len(rxq) - last.i + 1, last.i)

WholeInv ==
  /\ got \in Seq(1 .. MaxFrames)
  /\ \A f \in whole :
       /\ f \in 1 .. Len(queued)
       /\ \/ Found(got, f)
          \/ \E p \in 1 .. Len(rxq) : Run(queued, rxq, f, p, FrameLen(queued, f))

-----------------------------------------------------------------------------
(* Queueing another packet leaves those queued before as they are. *)
LEMMA QueuedStays ==
  ASSUME NEW q \in Seq(Content), NEW c \in Content, NEW f \in 1 .. Len(q)
  PROVE  /\ FrameLen(Append(q, c), f) = FrameLen(q, f)
         /\ \A k : AsSent(Append(q, c), f, k) = AsSent(q, f, k)
         /\ f \in 1 .. Len(Append(q, c))
<1>1. Append(q, c)[f] = q[f] /\ Len(Append(q, c)) = Len(q) + 1 /\ Len(q) \in Nat
  BY AppendProperties, LenProperties
<1>2. FrameLen(Append(q, c), f) = FrameLen(q, f)
  BY <1>1 DEF FrameLen
<1>3. \A k : AsSent(Append(q, c), f, k) = AsSent(q, f, k)
  BY <1>1 DEF AsSent
<1> QED
  BY <1>1, <1>2, <1>3

LEMMA RunStays ==
  ASSUME NEW q \in Seq(Content), NEW c \in Content, NEW s, NEW f, NEW p, NEW m,
         Run(q, s, f, p, m)
  PROVE  Run(Append(q, c), s, f, p, m)
<1>1. f \in 1 .. Len(q)
  BY DEF Run
<1>2. /\ FrameLen(Append(q, c), f) = FrameLen(q, f)
      /\ \A k : AsSent(Append(q, c), f, k) = AsSent(q, f, k)
      /\ f \in 1 .. Len(Append(q, c))
  BY <1>1, QueuedStays
<1> QED
  BY <1>2 DEF Run

LEMMA GenuineStays ==
  ASSUME NEW q \in Seq(Content), NEW c \in Content, NEW b, Genuine(q, b)
  PROVE  Genuine(Append(q, c), b)
<1>1. b.f \in 1 .. Len(q)
  BY DEF Genuine
<1>2. /\ FrameLen(Append(q, c), b.f) = FrameLen(q, b.f)
      /\ \A k : AsSent(Append(q, c), b.f, k) = AsSent(q, b.f, k)
      /\ b.f \in 1 .. Len(Append(q, c))
  BY <1>1, QueuedStays
<1> QED
  BY <1>2 DEF Genuine

(* A run moves forward with the bytes before it gone, and stays where it   *)
(* is with a byte more behind a whole packet. *)
LEMMA RunDropped ==
  ASSUME NEW q \in Seq(Content), NEW s \in Seq(Byte), NEW t \in Seq(Byte),
         NEW f, NEW p, NEW m, Run(q, s, f, p, m),
         NEW n \in Nat, n < p, Len(t) = Len(s) - n,
         \A k \in 1 .. (Len(s) - n) : t[k] = s[k + n]
  PROVE  Run(q, t, f, p - n, m)
<1>1. Len(s) \in Nat /\ Len(t) \in Nat
  BY LenProperties
<1>2. FrameLen(q, f) \in Nat \/ FrameLen(q, f) \notin Nat
  OBVIOUS
<1>3. m \in 1 .. FrameLen(q, f) /\ p \in 1 .. (Len(s) - m + 1) /\ m \in Int /\ p \in Int
  BY DEF Run
<1>4. p - n \in 1 .. (Len(t) - m + 1)
  BY <1>1, <1>3
<1>5. ASSUME NEW k \in 1 .. m PROVE t[(p - n) + k - 1] = AsSent(q, f, k)
  <2>1. s[p + k - 1] = AsSent(q, f, k)
    BY DEF Run
  <2>2. (p - n) + k - 1 \in 1 .. (Len(s) - n) /\ ((p - n) + k - 1) + n = p + k - 1
    BY <1>1, <1>3
  <2> QED
    BY <2>1, <2>2
<1>6. m = FrameLen(q, f) \/ (p - n) + m - 1 = Len(t)
  BY <1>1, <1>3 DEF Run
<1> QED
  BY <1>3, <1>4, <1>5, <1>6 DEF Run

LEMMA RunAppended ==
  ASSUME NEW q \in Seq(Content), NEW s \in Seq(Byte), NEW e \in Byte,
         NEW f, NEW p, Run(q, s, f, p, FrameLen(q, f))
  PROVE  Run(q, Append(s, e), f, p, FrameLen(q, f))
<1> DEFINE m == FrameLen(q, f)
<1>1. Len(s) \in Nat /\ Len(Append(s, e)) = Len(s) + 1 /\ \A j \in 1 .. Len(s) : Append(s, e)[j] = s[j]
  BY AppendProperties, LenProperties
<1>2. m \in 1 .. m /\ p \in 1 .. (Len(s) - m + 1) /\ f \in 1 .. Len(q)
  BY DEF Run
<1>3. \A k \in 1 .. m : s[p + k - 1] = AsSent(q, f, k)
  BY DEF Run
<1> HIDE DEF m
<1>4. ASSUME NEW k \in 1 .. m PROVE Append(s, e)[p + k - 1] = AsSent(q, f, k)
  <2>1. p + k - 1 \in 1 .. Len(s)
    BY <1>1, <1>2
  <2> QED
    BY <1>1, <1>3, <2>1
<1>5. p \in 1 .. (Len(Append(s, e)) - m + 1)
  BY <1>1, <1>2
<1> QED
  BY <1>2, <1>4, <1>5 DEF Run, m

(* A frame's own bytes. *)
LEMMA FrameOf ==
  ASSUME LinkAssumption, NEW q \in Seq(Content), NEW f \in 1 .. Len(q)
  PROVE  /\ q[f] \in Content
         /\ FrameLen(q, f) = HeaderLen + Len(q[f].pay)
         /\ FrameLen(q, f) \in HeaderLen .. (HeaderLen + PayloadMax - 1)
         /\ AsSent(q, f, 1).v = Pre /\ AsSent(q, f, 2).v = Sfd
         /\ AsSent(q, f, 3).v = Info(q[f]) /\ AsSent(q, f, 4).v = Crc(q[f])
         /\ AsSent(q, f, 4).f = f
<1>1. q[f] \in Content
  BY ElementOfSeq
<1>2. /\ Len(FrameBytes(q[f])) = HeaderLen + Len(q[f].pay)
      /\ Len(q[f].pay) \in 0 .. (PayloadMax - 1)
      /\ FrameBytes(q[f])[1] = Pre /\ FrameBytes(q[f])[2] = Sfd
      /\ FrameBytes(q[f])[3] = Info(q[f]) /\ FrameBytes(q[f])[4] = Crc(q[f])
  BY <1>1, FrameShape
<1>3. PayloadMax \in Nat
  BY DEF LinkAssumption
<1> QED
  BY <1>1, <1>2, <1>3 DEF FrameLen, AsSent, HeaderLen

(* What is taken from the queue is a packet as some application gave it. *)
LEMMA TakesIs ==
  ASSUME LinkAssumption, LinkInv, Takes
  PROVE  \E c \in Content :
           /\ Len(FrameBytes(c)) <= Len(rxq) /\ Dropped(Len(FrameBytes(c)))
           /\ \A i \in 1 .. Len(FrameBytes(c)) : rxq[i].v = FrameBytes(c)[i]
<1>1. PICK len \in LenOf(rxq[3].v) \cap Nat :
        /\ Len(rxq) >= HeaderLen + len /\ Valid(len)
        /\ Dropped(HeaderLen + len)
  BY DEF Takes
<1>2. rxq \in Seq(Byte) /\ Len(rxq) \in Nat /\ Len(rxq) >= HeaderLen + len
  BY <1>1, LenProperties DEF LinkInv, ReceiveTypes
<1>3. rxq[HeaderLen].v \in Value
  <2>1. HeaderLen \in 1 .. Len(rxq)
    BY <1>2 DEF HeaderLen
  <2> QED
    BY <1>2, <2>1, ElementOfSeq, ByteFields
<1>4. PICK c \in Content : rxq[HeaderLen].v = Crc(c)
  BY <1>1, <1>3, ValueKinds DEF Valid, Value
<1>5. [i \in 1 .. (HeaderLen + len) |-> rxq[i].v] = FrameBytes(c)
  <2>1. rxq[HeaderLen].v.of = c
    BY <1>4, ValueKinds
  <2> QED
    BY <1>1, <2>1 DEF Valid
<1>6. Len(FrameBytes(c)) = HeaderLen + len
  <2>1. FrameBytes(c) \in Seq(Value)
    BY FrameShape
  <2>2. DOMAIN FrameBytes(c) = 1 .. Len(FrameBytes(c)) /\ Len(FrameBytes(c)) \in Nat
    BY <2>1, LenProperties
  <2>3. DOMAIN FrameBytes(c) = 1 .. (HeaderLen + len)
    BY <1>5
  <2>4. 1 .. Len(FrameBytes(c)) = 1 .. (HeaderLen + len)
    BY <2>2, <2>3
  <2>5. HeaderLen + len \in Nat /\ HeaderLen + len >= 1
    BY DEF HeaderLen
  <2>6. HeaderLen + len \in 1 .. Len(FrameBytes(c))
    BY <2>4, <2>5
  <2>7. Len(FrameBytes(c)) \in 1 .. (HeaderLen + len)
    BY <2>2, <2>4, <2>6
  <2> QED
    BY <2>2, <2>5, <2>6, <2>7
<1>7. \A i \in 1 .. Len(FrameBytes(c)) : rxq[i].v = FrameBytes(c)[i]
  BY <1>5, <1>6
<1> QED
  BY <1>1, <1>2, <1>6, <1>7

(* The argument: a turn of the parser's loop leaves a packet that lies in  *)
(* the queue as it was sent where it is, or takes it whole. *)
LEMMA ParseKeepsRun ==
  ASSUME LinkAssumption, LinkInv, got \in Seq(1 .. MaxFrames),
         NEW f, NEW p, NEW m, Run(queued, rxq, f, p, m),
         Stops \/ SkipsOne \/ SkipsPreamble \/ Takes
  PROVE  \/ \E n \in 0 .. (p - 1) : Dropped(n)
         \/ m = FrameLen(queued, f) /\ Found(got', f)
<1> DEFINE L == FrameLen(queued, f)
           c == queued[f]
<1>1. /\ queued \in Seq(Content) /\ rxq \in Seq(Byte) /\ Len(rxq) \in Nat
      /\ f \in 1 .. Len(queued)
  BY LenProperties DEF LinkInv, SendTypes, ReceiveTypes, Run
<1>2. c \in Content
  BY <1>1, FrameOf
<1>3. L = 4 + Len(c.pay) /\ L \in 4 .. (4 + PayloadMax - 1) /\ PayloadMax \in Nat /\ Len(c.pay) \in Nat
  <2>1. L = HeaderLen + Len(c.pay) /\ L \in HeaderLen .. (HeaderLen + PayloadMax - 1)
    BY <1>1, FrameOf
  <2>2. Len(c.pay) \in 0 .. (PayloadMax - 1) /\ PayloadMax \in Nat
    BY <1>2, ContentPay DEF LinkAssumption
  <2> QED
    BY <2>1, <2>2 DEF HeaderLen
<1>4. /\ m \in 1 .. L /\ p \in 1 .. (Len(rxq) - m + 1) /\ (m = L \/ p + m - 1 = Len(rxq))
      /\ \A k \in 1 .. m : rxq[p + k - 1] = AsSent(queued, f, k)
  BY DEF Run
<1>5. /\ AsSent(queued, f, 1).v = Pre /\ AsSent(queued, f, 2).v = Sfd
      /\ AsSent(queued, f, 3).v = Info(c) /\ AsSent(queued, f, 4).v = Crc(c)
      /\ AsSent(queued, f, 4).f = f
  BY <1>1, FrameOf
<1> HIDE DEF L, c
<1>6. rxq[p].v = Pre
  <2>1. p + 1 - 1 = p /\ 1 \in 1 .. m
    BY <1>1, <1>3, <1>4
  <2> QED
    BY <1>4, <1>5, <2>1
<1>7. p < Len(rxq) => m >= 2 /\ rxq[p + 1].v = Sfd
  <2> SUFFICES ASSUME p < Len(rxq) PROVE m >= 2 /\ rxq[p + 1].v = Sfd
    OBVIOUS
  <2>1. p + 2 - 1 = p + 1 /\ 2 \in 1 .. m
    BY <1>1, <1>3, <1>4
  <2> QED
    BY <1>4, <1>5, <2>1
<1>8. p = 1 /\ Len(rxq) >= 4 => m >= 4 /\ rxq[3].v = Info(c) /\ rxq[4].v = Crc(c) /\ rxq[4].f = f
  <2> SUFFICES ASSUME p = 1, Len(rxq) >= 4
               PROVE m >= 4 /\ rxq[3].v = Info(c) /\ rxq[4].v = Crc(c) /\ rxq[4].f = f
    OBVIOUS
  <2>1. m >= 4 /\ 3 \in 1 .. m /\ 4 \in 1 .. m /\ p + 3 - 1 = 3 /\ p + 4 - 1 = 4
    BY <1>1, <1>3, <1>4
  <2>2. rxq[3] = AsSent(queued, f, 3) /\ rxq[4] = AsSent(queued, f, 4)
    BY <1>4, <2>1
  <2> QED
    BY <1>5, <2>1, <2>2
<1>9. Pre # Sfd /\ Pre # Data /\ Sfd # Data
  BY ValueKinds
<1>10. CASE Stops
  BY <1>1, <1>4, <1>10 DEF Stops
<1>11. CASE SkipsOne
  <2>1. p # 1
    <3> SUFFICES ASSUME p = 1 PROVE FALSE
      OBVIOUS
    <3>1. Len(rxq) >= 4 /\ rxq[2].v # Sfd
      BY <1>6, <1>11 DEF SkipsOne, HeaderLen
    <3> QED
      BY <1>1, <1>7, <3>1
  <2>2. 1 \in 0 .. (p - 1)
    BY <1>1, <1>4, <2>1
  <2> QED
    BY <1>11, <2>2 DEF SkipsOne
<1>12. CASE SkipsPreamble
  <2>1. Len(rxq) >= 4 /\ rxq[2].v = Sfd
    BY <1>12 DEF SkipsPreamble, HeaderLen
  <2>2. p # 2
    BY <1>6, <1>9, <2>1
  <2>3. p # 1
    <3> SUFFICES ASSUME p = 1 PROVE FALSE
      OBVIOUS
    <3>1. PICK len \in LenOf(rxq[3].v) : TooLong(len) \/ (Len(rxq) >= HeaderLen + len /\ ~ Valid(len))
      BY <1>12 DEF SkipsPreamble
    <3>2. len = Len(c.pay)
      <4>1. LenOf(Info(c)) = {Len(c.pay)}
        BY ValueKinds DEF LenOf
      <4> QED
        BY <1>8, <2>1, <3>1, <4>1
    <3>3. ~ TooLong(len)
      BY <1>3, <3>2 DEF TooLong
    <3>4. Len(rxq) >= L /\ ~ Valid(len) /\ HeaderLen + len = L
      BY <1>3, <3>1, <3>2, <3>3 DEF HeaderLen
    <3>5. m = L
      BY <1>1, <1>3, <1>4, <3>4
    <3>6. \A i \in 1 .. L : rxq[i].v = FrameBytes(c)[i]
      <4> TAKE i \in 1 .. L
      <4>1. i \in 1 .. m /\ p + i - 1 = i
        BY <1>3, <3>5
      <4>2. rxq[i] = AsSent(queued, f, i)
        BY <1>4, <4>1
      <4>3. AsSent(queued, f, i).v = FrameBytes(c)[i]
        BY DEF AsSent, c
      <4> QED
        BY <4>2, <4>3
    <3>7. [i \in 1 .. L |-> rxq[i].v] = FrameBytes(c)
      <4>1. FrameBytes(c) \in Seq(Value) /\ Len(FrameBytes(c)) = L
        BY <1>2, FrameShape DEF L, c, FrameLen
      <4>2. FrameBytes(c) \in [1 .. L -> Value]
        BY <4>1, LenProperties
      <4> QED
        BY <3>6, <4>2
    <3>8. rxq[HeaderLen].v.k = "crc" /\ rxq[HeaderLen].v.of = c
      BY <1>8, <2>1, ValueKinds DEF HeaderLen
    <3> QED
      BY <3>4, <3>7, <3>8 DEF Valid
  <2>4. 2 \in 0 .. (p - 1)
    BY <1>1, <1>4, <2>2, <2>3
  <2> QED
    BY <1>12, <2>4 DEF SkipsPreamble, PreambleLen
<1>13. CASE Takes
  <2>1. PICK d \in Content :
           /\ Len(FrameBytes(d)) <= Len(rxq) /\ Dropped(Len(FrameBytes(d)))
           /\ \A i \in 1 .. Len(FrameBytes(d)) : rxq[i].v = FrameBytes(d)[i]
    BY <1>13, TakesIs
  <2> DEFINE n == Len(FrameBytes(d))
  <2>2. /\ n = 4 + Len(d.pay) /\ Len(d.pay) \in Nat
        /\ FrameBytes(d)[2] = Sfd /\ FrameBytes(d)[3] = Info(d) /\ FrameBytes(d)[4] = Crc(d)
    BY FrameShape DEF HeaderLen
  <2>3. \A i \in 5 .. n : FrameBytes(d)[i] \in {Pre, Data}
    BY FrameShape
  <2>4. Len(d.pay) > 0 => FrameBytes(d)[n] = Data
    BY FrameShape
  <2>5. n \in Nat /\ n >= 4 /\ n <= Len(rxq) /\ Dropped(n)
    BY <2>1, <2>2
  <2>6. \A i \in 1 .. n : rxq[i].v = FrameBytes(d)[i]
    BY <2>1
  <2> HIDE DEF n
  <2>7. CASE p > n
    <3>1. n \in 0 .. (p - 1)
      BY <1>1, <1>4, <2>5, <2>7
    <3> QED
      BY <2>5, <3>1
  <2>8. CASE p = 1
    <3>1. m >= 4 /\ rxq[4].v = Crc(c) /\ rxq[4].f = f
      BY <1>1, <1>8, <2>5, <2>8
    <3>2. Crc(c) = Crc(d)
      <4>1. 4 \in 1 .. n
        BY <2>5
      <4> QED
        BY <2>2, <2>6, <3>1, <4>1
    <3>3. c = d
      <4>1. Crc(c).of = c
        BY ValueKinds
      <4>2. Crc(d).of = d
        BY ValueKinds
      <4> QED
        BY <3>2, <4>1, <4>2
    <3>4. L = n
      BY <3>3 DEF L, n, c, FrameLen
    <3>5. m = L
      BY <1>1, <1>3, <1>4, <2>5, <2>8, <3>4
    <3>6. Found(got', f)
      <4>1. got' = Append(got, f)
        BY <1>13, <3>1 DEF Takes, HeaderLen
      <4>2. f \in 1 .. MaxFrames
        <5>1. 4 \in 1 .. Len(rxq)
          BY <1>1, <2>5
        <5> QED
          BY <1>1, <3>1, <5>1, ElementOfSeq, ByteFields
      <4>3. got' \in Seq(1 .. MaxFrames) /\ Len(got') = Len(got) + 1 /\ got'[Len(got) + 1] = f
        BY <4>1, <4>2, AppendProperties
      <4>4. DOMAIN got' = 1 .. (Len(got) + 1) /\ Len(got) \in Nat
        BY <4>3, LenProperties
      <4>5. Len(got) + 1 \in DOMAIN got'
        BY <4>4
      <4> QED
        BY <4>3, <4>5 DEF Found
    <3> QED
      BY <3>5, <3>6 DEF L
  <2>9. CASE p # 1 /\ ~ (p > n)
    <3>1. p \in 2 .. n /\ FrameBytes(d)[p] = Pre
      <4>1. p \in 2 .. n /\ p \in 1 .. n
        BY <1>1, <1>4, <2>5, <2>9
      <4> QED
        BY <1>6, <2>6, <4>1
    <3>2. p # 2 /\ p # 3 /\ p # 4
      BY <2>2, <3>1, ValueKinds
    <3>3. p \in 5 .. n
      BY <2>5, <3>1, <3>2
    <3>4. p # n
      BY <1>9, <2>2, <2>4, <2>5, <3>1, <3>3
    <3>5. p + 1 \in 5 .. n /\ p + 1 \in 1 .. n /\ p < Len(rxq)
      BY <1>1, <2>5, <3>3, <3>4
    <3>6. rxq[p + 1].v = Sfd /\ rxq[p + 1].v \in {Pre, Data}
      BY <1>7, <2>3, <2>6, <3>5
    <3> QED
      BY <1>9, <3>6
  <2> QED
    BY <2>7, <2>8, <2>9
<1> QED
  BY <1>10, <1>11, <1>12, <1>13

-----------------------------------------------------------------------------
StreamInv == WireInv /\ PartInv /\ WholeInv

LEMMA InitStreamInv == LinkAssumption /\ Init => StreamInv
<1> SUFFICES ASSUME LinkAssumption, Init PROVE StreamInv
  OBVIOUS
<1>1. WireInv
  BY DEF Init, WireInv
<1>2. PartInv
  BY DEF Init, PartInv
<1>3. WholeInv
  BY EmptySeq DEF Init, WholeInv
<1> QED
  BY <1>1, <1>2, <1>3 DEF StreamInv

(* A packet is queued: its bytes are its own. *)
LEMMA QueuePacketStreamInv ==
  ASSUME LinkAssumption, LinkInv, StreamInv, NEW c \in Content, QueuePacket(c)
  PROVE  StreamInv'
<1>1. queued \in Seq(Content) /\ Len(queued) \in Nat /\ queued' = Append(queued, c)
  BY LenProperties DEF LinkInv, SendTypes, QueuePacket
<1>2. UNCHANGED <<txBuf, line, rxq, last, whole, got>>
  BY DEF QueuePacket, rxVars, parseVars
<1>3. \A j \in 1 .. Len(rest') : Genuine(queued', rest'[j])
  <2> DEFINE n == Len(queued) + 1
             L == Len(FrameBytes(c))
  <2>1. queued'[n] = c /\ Len(queued') = n
    BY <1>1, AppendProperties
  <2>2. FrameLen(queued', n) = L /\ \A k : AsSent(queued', n, k) = [v |-> FrameBytes(c)[k], f |-> n, i |-> k]
    BY <2>1 DEF FrameLen, AsSent
  <2>3. rest' = [i \in 1 .. L |-> [v |-> FrameBytes(c)[i], f |-> n, i |-> i]]
    BY DEF QueuePacket
  <2>4. L \in Nat
    BY FrameShape, LenProperties
  <2>5. Len(rest') = L
    BY <2>3, <2>4
  <2>6. n \in 1 .. Len(queued')
    BY <1>1, <2>1
  <2> HIDE DEF n, L
  <2> TAKE j \in 1 .. Len(rest')
  <2>7. rest'[j] = [v |-> FrameBytes(c)[j], f |-> n, i |-> j] /\ j \in 1 .. L
    BY <2>3, <2>5
  <2>8. rest'[j].f = n /\ rest'[j].i = j
    BY <2>7
  <2> QED
    BY <2>2, <2>6, <2>7, <2>8 DEF Genuine
<1>4. WireInv'
  BY <1>1, <1>2, <1>3, GenuineStays DEF StreamInv, WireInv
<1>5. PartInv'
  <2> SUFFICES ASSUME last.f # 0
               PROVE  /\ last.f \in 1 .. Len(queued') /\ last.i \in 1 .. FrameLen(queued', last.f)
                      /\ last.i < FrameLen(queued', last.f) =>
                           Run(queued', rxq, last.f, Len(rxq) - last.i + 1, last.i)
    BY <1>2 DEF PartInv
  <2>1. /\ last.f \in 1 .. Len(queued) /\ last.i \in 1 .. FrameLen(queued, last.f)
        /\ last.i < FrameLen(queued, last.f) =>
             Run(queued, rxq, last.f, Len(rxq) - last.i + 1, last.i)
    BY DEF StreamInv, PartInv
  <2>2. last.f \in 1 .. Len(queued') /\ FrameLen(queued', last.f) = FrameLen(queued, last.f)
    BY <1>1, <2>1, QueuedStays
  <2> QED
    BY <1>1, <2>1, <2>2, RunStays
<1>6. WholeInv'
  <2>1. got' \in Seq(1 .. MaxFrames)
    BY <1>2 DEF StreamInv, WholeInv
  <2>2. ASSUME NEW f \in whole
        PROVE  /\ f \in 1 .. Len(queued')
               /\ \/ Found(got, f)
                  \/ \E p \in 1 .. Len(rxq) : Run(queued', rxq, f, p, FrameLen(queued', f))
    <3>1. f \in 1 .. Len(queued)
      BY DEF StreamInv, WholeInv
    <3>2. f \in 1 .. Len(queued') /\ FrameLen(queued', f) = FrameLen(queued, f)
      BY <1>1, <3>1, QueuedStays
    <3> QED
      BY <1>1, <3>2, RunStays DEF StreamInv, WholeInv
  <2> QED
    BY <1>2, <2>1, <2>2 DEF WholeInv
<1> QED
  BY <1>4, <1>5, <1>6 DEF StreamInv

(* The sender moves bytes about. *)
LEMMA SenderWireInv ==
  ASSUME LinkAssumption, LinkInv, WireInv, Sender
  PROVE  WireInv'
<1>1. CASE QueueByte
  <2>1. rest \in Seq(Byte) /\ rest # <<>> /\ UNCHANGED <<line, queued>>
    BY <1>1 DEF QueueByte, LinkInv, SendTypes
  <2>2. /\ Len(rest) \in Nat /\ Len(rest) >= 1 /\ Len(Tail(rest)) = Len(rest) - 1
        /\ \A j \in 1 .. Len(Tail(rest)) : Tail(rest)[j] = rest[j + 1]
        /\ Head(rest) = rest[1]
    BY <2>1, HeadTailProperties, EmptySeq
  <2>3. \A j \in 1 .. Len(rest') : Genuine(queued, rest'[j])
    <3>1. CASE rest' = <<>>
      BY <3>1, EmptySeq
    <3>2. CASE rest' = Tail(rest)
      <4> TAKE j \in 1 .. Len(rest')
      <4>1. rest'[j] = rest[j + 1] /\ j + 1 \in 1 .. Len(rest)
        BY <2>2, <3>2
      <4> QED
        BY <4>1 DEF WireInv
    <3> QED
      BY <1>1, <3>1, <3>2 DEF QueueByte
  <2>4. Genuine(queued, Head(rest))
    BY <2>2 DEF WireInv
  <2>5. \A j \in 0 .. (TxSize - 1) : txBuf'[j] # NoByte => Genuine(queued, txBuf'[j])
    BY <1>1, <2>4 DEF QueueByte, WireInv, LinkInv, SendTypes
  <2> QED
    BY <2>1, <2>3, <2>5 DEF WireInv
<1>2. CASE Kick
  BY <1>2 DEF Kick, Transmit, WireInv, LinkInv, SendTypes
<1>3. CASE Kicked
  BY <1>3 DEF Kicked, WireInv
<1> QED
  BY <1>1, <1>2, <1>3 DEF Sender

(* What the byte on the line does to the receiver: it is lost, it comes    *)
(* with no right to be part of a packet as sent, or it continues one. *)
Lost == rxq' = rxq /\ whole' = whole /\ last'.f = 0
Joins == \E e \in Byte : rxq' = Append(rxq, e) /\ whole' = whole /\ last'.f = 0
Continues ==
  /\ Follows(line)
  /\ rxq' = Append(rxq, line)
  /\ last' = [f |-> line.f, i |-> line.i]
  /\ whole' = IF line.i = FrameLen(queued, line.f) THEN whole \cup {line.f} ELSE whole

LEMMA DeliverIs ==
  ASSUME LinkAssumption, LinkInv, line \in Byte, Deliver(line)
  PROVE  Lost \/ Joins \/ Continues
<1>1. ASSUME NEW v \in {line.v, Junk}, Arrive(line, v)
      PROVE  Lost \/ Joins \/ Continues
  <2>1. [line EXCEPT !.v = v] \in Byte /\ (v = line.v => [line EXCEPT !.v = v] = line) /\ line.f # 0
    BY DEF Byte
  <2>2. CASE ~ rxOn \/ Len(rxq) = RxSize - 1
    BY <1>1, <2>2 DEF Arrive, Lost
  <2>3. CASE ~ (~ rxOn \/ Len(rxq) = RxSize - 1) /\ v = line.v /\ Follows(line)
    BY <1>1, <2>1, <2>3 DEF Arrive, Continues, FrameLen
  <2>4. CASE ~ (~ rxOn \/ Len(rxq) = RxSize - 1) /\ ~ (v = line.v /\ Follows(line))
    BY <1>1, <2>1, <2>4 DEF Arrive, Joins
  <2> QED
    BY <2>2, <2>3, <2>4
<1>2. ASSUME last' = [f |-> 0, i |-> 0], UNCHANGED <<rxq, whole>>
      PROVE  Lost
  BY <1>2 DEF Lost
<1> QED
  BY <1>1, <1>2 DEF Deliver

LEMMA TxFinishStreamInv ==
  ASSUME LinkAssumption, LinkInv, StreamInv, TxFinish
  PROVE  StreamInv'
<1>1. /\ line \in Byte /\ Genuine(queued, line) /\ Deliver(line)
      /\ line' = IF head # tail THEN txBuf[head] ELSE NoByte
      /\ UNCHANGED <<txBuf, rest, queued, got>>
  BY DEF TxFinish, parseVars, LinkInv, SendTypes, StreamInv, WireInv
<1>2. WireInv'
  BY <1>1 DEF StreamInv, WireInv, LinkInv, SendTypes
<1>3. /\ rxq \in Seq(Byte) /\ Len(rxq) \in Nat /\ queued \in Seq(Content)
      /\ got' \in Seq(1 .. MaxFrames)
      /\ last \in [f : 0 .. MaxFrames, i : Nat]
  BY <1>1, LenProperties DEF LinkInv, SendTypes, ReceiveTypes, StreamInv, WholeInv
<1>4. ASSUME NEW e \in Byte, rxq' = Append(rxq, e), NEW f \in whole
      PROVE  /\ f \in 1 .. Len(queued)
             /\ \/ Found(got, f)
                \/ \E p \in 1 .. Len(rxq') : Run(queued, rxq', f, p, FrameLen(queued, f))
  <2>1. Len(rxq') = Len(rxq) + 1
    BY <1>3, <1>4, AppendProperties
  <2>2. ASSUME NEW p \in 1 .. Len(rxq), Run(queued, rxq, f, p, FrameLen(queued, f))
        PROVE  p \in 1 .. Len(rxq') /\ Run(queued, rxq', f, p, FrameLen(queued, f))
    BY <1>3, <1>4, <2>1, <2>2, RunAppended
  <2> QED
    BY <2>2 DEF StreamInv, WholeInv
<1>5. CASE Lost
  <2>1. PartInv'
    BY <1>5 DEF Lost, PartInv
  <2>2. WholeInv'
    BY <1>1, <1>5 DEF Lost, StreamInv, WholeInv
  <2> QED
    BY <1>2, <2>1, <2>2 DEF StreamInv
<1>6. CASE Joins
  <2>1. PartInv'
    BY <1>6 DEF Joins, PartInv
  <2>2. WholeInv'
    BY <1>1, <1>3, <1>4, <1>6 DEF Joins, WholeInv
  <2> QED
    BY <1>2, <2>1, <2>2 DEF StreamInv
<1>7. CASE Continues
  <2> DEFINE b == line
             L == FrameLen(queued, b.f)
             p == Len(rxq) + 1 - b.i + 1
  <2>1. /\ b.f \in 1 .. Len(queued) /\ b.i \in 1 .. L /\ b = AsSent(queued, b.f, b.i)
        /\ L \in 4 .. (4 + PayloadMax - 1) /\ PayloadMax \in Nat
    <3>1. b.f \in 1 .. Len(queued) /\ b.i \in 1 .. L /\ b = AsSent(queued, b.f, b.i)
      BY <1>1 DEF Genuine
    <3>2. L \in HeaderLen .. (HeaderLen + PayloadMax - 1)
      BY <1>3, <3>1, FrameOf
    <3> QED
      BY <3>1, <3>2 DEF HeaderLen, LinkAssumption
  <2>2. /\ Len(rxq') = Len(rxq) + 1 /\ rxq'[Len(rxq) + 1] = b
        /\ \A j \in 1 .. Len(rxq) : rxq'[j] = rxq[j]
    BY <1>1, <1>3, <1>7, AppendProperties DEF Continues
  <2>7. b.i \in Nat /\ b.i >= 1 /\ Len(rxq) \in Nat /\ Len(rxq') = Len(rxq) + 1
    BY <1>3, <2>1, <2>2
  <2>8. last'.f = b.f /\ last'.i = b.i
    BY <1>7 DEF Continues
  <2>3. Run(queued, rxq', b.f, p, b.i)
    <3>1. CASE b.i = 1
      <4>1. \A k \in 1 .. b.i : k = 1 /\ p + k - 1 = Len(rxq) + 1
        BY <1>3, <3>1
      <4>2. \A k \in 1 .. b.i : rxq'[p + k - 1] = AsSent(queued, b.f, k)
        BY <2>1, <2>2, <3>1, <4>1
      <4>3. p \in 1 .. (Len(rxq') - b.i + 1) /\ p + b.i - 1 = Len(rxq')
        BY <1>3, <2>2, <3>1
      <4> QED
        BY <2>1, <4>2, <4>3 DEF Run
    <3>2. CASE b.i # 1 /\ last.f = b.f /\ b.i = last.i + 1
      <4>1. last.f # 0 /\ last.i \in 1 .. (L - 1) /\ last.i \in Nat
        BY <1>3, <2>1, <3>2
      <4>2. Run(queued, rxq, b.f, Len(rxq) - last.i + 1, last.i)
        BY <2>1, <3>2, <4>1 DEF StreamInv, PartInv
      <4>3. /\ p = Len(rxq) - last.i + 1
            /\ p \in 1 .. (Len(rxq) - last.i + 1)
            /\ \A k \in 1 .. last.i : rxq[p + k - 1] = AsSent(queued, b.f, k)
        <5>1. p = Len(rxq) - last.i + 1
          BY <1>3, <3>2, <4>1
        <5> HIDE DEF p
        <5> QED
          BY <4>2, <5>1 DEF Run
      <4>4. p \in 1 .. (Len(rxq') - b.i + 1) /\ p + b.i - 1 = Len(rxq')
        <5>1. p \in 1 .. (Len(rxq) - last.i + 1)
          BY <4>3
        <5>2. p = Len(rxq) + 1 - b.i + 1
          OBVIOUS
        <5> HIDE DEF p, b
        <5> QED
          BY <2>7, <3>2, <4>1, <5>1, <5>2
      <4>5. ASSUME NEW k \in 1 .. b.i PROVE rxq'[p + k - 1] = AsSent(queued, b.f, k)
        <5>1. CASE k = b.i
          BY <2>1, <2>2, <4>4, <5>1
        <5>2. CASE k # b.i
          <6>1. k \in 1 .. last.i /\ p + k - 1 \in 1 .. Len(rxq)
            <7>1. p \in 1 .. (Len(rxq) - last.i + 1)
              BY <4>3
            <7> HIDE DEF p, b
            <7> QED
              BY <2>7, <3>2, <4>1, <5>2, <7>1
          <6> QED
            BY <2>2, <4>3, <6>1
        <5> QED
          BY <5>1, <5>2
      <4> HIDE DEF p
      <4> QED
        BY <2>1, <4>4, <4>5 DEF Run
    <3> QED
      BY <1>7, <3>1, <3>2 DEF Continues, Follows
  <2>4. PartInv'
    <3>1. last'.f = b.f /\ last'.i = b.i /\ Len(rxq') - b.i + 1 = p
      <4>1. p = Len(rxq) + 1 - b.i + 1
        OBVIOUS
      <4> HIDE DEF p, b
      <4> QED
        BY <2>7, <2>8, <4>1
    <3> HIDE DEF p, b
    <3> QED
      BY <1>1, <2>1, <2>3, <3>1 DEF PartInv
  <2>5. p \in 1 .. Len(rxq')
    <3>1. p \in 1 .. (Len(rxq') - b.i + 1)
      BY <2>3 DEF Run
    <3> HIDE DEF p
    <3> QED
      BY <1>3, <2>2, <2>7, <3>1
  <2>6. WholeInv'
    <3> SUFFICES ASSUME NEW f \in whole'
                 PROVE  /\ f \in 1 .. Len(queued)
                        /\ \/ Found(got, f)
                           \/ \E r \in 1 .. Len(rxq') : Run(queued, rxq', f, r, FrameLen(queued, f))
      BY <1>1, <1>3 DEF WholeInv
    <3>1. CASE f \in whole
      BY <1>1, <1>4, <1>7, <3>1 DEF Continues
    <3>2. CASE f \notin whole
      <4>1. f = b.f /\ b.i = L
        BY <1>7, <3>2 DEF Continues
      <4> HIDE DEF p
      <4> QED
        BY <2>1, <2>3, <2>5, <4>1
    <3> QED
      BY <3>1, <3>2
  <2> QED
    BY <1>2, <2>4, <2>6 DEF StreamInv
<1> QED
  BY <1>1, <1>5, <1>6, <1>7, DeliverIs

LEMMA ParseStepStreamInv ==
  ASSUME LinkAssumption, LinkInv, StreamInv, ParseStep
  PROVE  StreamInv'
<1>1. UNCHANGED <<txBuf, line, rest, queued, last, whole>>
  BY DEF ParseStep, txVars
<1>2. WireInv'
  BY <1>1 DEF StreamInv, WireInv
<1>3. Stops \/ SkipsOne \/ SkipsPreamble \/ Takes
  BY ParseStepIs
<1>4. /\ rxq \in Seq(Byte) /\ Len(rxq) \in Nat /\ queued \in Seq(Content)
      /\ got \in Seq(1 .. MaxFrames)
  BY LenProperties DEF LinkInv, SendTypes, ReceiveTypes, StreamInv, WholeInv
<1>5. got' \in Seq(1 .. MaxFrames) /\ \A f : Found(got, f) => Found(got', f)
  <2>1. CASE got' = got
    BY <1>4, <2>1
  <2>2. CASE Takes
    <3>1. PICK n \in Nat : Dropped(HeaderLen + n)
      BY <2>2 DEF Takes
    <3>2. HeaderLen \in 1 .. Len(rxq)
      BY <1>4, <3>1 DEF Dropped, HeaderLen
    <3>3. rxq[HeaderLen].f \in 1 .. MaxFrames
      BY <1>4, <3>2, ElementOfSeq, ByteFields
    <3>4. /\ got' \in Seq(1 .. MaxFrames) /\ Len(got') = Len(got) + 1
          /\ \A j \in 1 .. Len(got) : got'[j] = got[j]
      BY <1>4, <2>2, <3>3, AppendProperties DEF Takes
    <3>5. DOMAIN got = 1 .. Len(got) /\ DOMAIN got' = 1 .. (Len(got) + 1) /\ Len(got) \in Nat
      BY <1>4, <3>4, LenProperties
    <3> QED
      BY <3>4, <3>5 DEF Found
  <2> QED
    BY <1>3, <2>1, <2>2 DEF Stops, SkipsOne, SkipsPreamble
<1>6. ASSUME NEW f, NEW p, NEW m, Run(queued, rxq, f, p, m)
      PROVE  \/ \E n \in 0 .. (p - 1) : Len(rxq') = Len(rxq) - n /\ Run(queued, rxq', f, p - n, m)
             \/ m = FrameLen(queued, f) /\ Found(got', f)
  <2>1. CASE m = FrameLen(queued, f) /\ Found(got', f)
    BY <2>1
  <2>2. ASSUME NEW n \in 0 .. (p - 1), Dropped(n)
        PROVE  Len(rxq') = Len(rxq) - n /\ Run(queued, rxq', f, p - n, m)
    <3>1. p \in Int
      BY <1>6 DEF Run
    <3>2. n \in Nat /\ n < p
      BY <3>1
    <3> QED
      BY <1>4, <1>6, <2>2, <3>2, RunDropped DEF Dropped
  <2> QED
    BY <1>3, <1>4, <1>6, <2>1, <2>2, ParseKeepsRun
<1>7. PartInv'
  <2> SUFFICES ASSUME last.f # 0
               PROVE  /\ last.f \in 1 .. Len(queued) /\ last.i \in 1 .. FrameLen(queued, last.f)
                      /\ last.i < FrameLen(queued, last.f) =>
                           Run(queued, rxq', last.f, Len(rxq') - last.i + 1, last.i)
    BY <1>1 DEF PartInv
  <2>1. last.f \in 1 .. Len(queued) /\ last.i \in 1 .. FrameLen(queued, last.f)
    BY DEF StreamInv, PartInv
  <2>2. ASSUME last.i < FrameLen(queued, last.f)
        PROVE  Run(queued, rxq', last.f, Len(rxq') - last.i + 1, last.i)
    <3>1. Run(queued, rxq, last.f, Len(rxq) - last.i + 1, last.i)
      BY <2>1, <2>2 DEF StreamInv, PartInv
    <3>2. last.i # FrameLen(queued, last.f) /\ last.i \in Nat
      BY <2>2 DEF LinkInv, ReceiveTypes
    <3>3. PICK n \in 0 .. ((Len(rxq) - last.i + 1) - 1) :
            /\ Len(rxq') = Len(rxq) - n
            /\ Run(queued, rxq', last.f, (Len(rxq) - last.i + 1) - n, last.i)
      BY <1>6, <3>1, <3>2
    <3>4. (Len(rxq) - last.i + 1) - n = Len(rxq') - last.i + 1
      BY <1>4, <3>2, <3>3
    <3> QED
      BY <3>3, <3>4
  <2> QED
    BY <2>1, <2>2
<1>8. WholeInv'
  <2> SUFFICES ASSUME NEW f \in whole
               PROVE  /\ f \in 1 .. Len(queued)
                      /\ \/ Found(got', f)
                         \/ \E r \in 1 .. Len(rxq') : Run(queued, rxq', f, r, FrameLen(queued, f))
    BY <1>1, <1>5 DEF WholeInv
  <2>1. f \in 1 .. Len(queued)
    BY DEF StreamInv, WholeInv
  <2>2. ASSUME NEW p \in 1 .. Len(rxq), Run(queued, rxq, f, p, FrameLen(queued, f)), ~ Found(got', f)
        PROVE  \E r \in 1 .. Len(rxq') : Run(queued, rxq', f, r, FrameLen(queued, f))
    <3>1. PICK n \in 0 .. (p - 1) :
            Len(rxq') = Len(rxq) - n /\ Run(queued, rxq', f, p - n, FrameLen(queued, f))
      BY <1>6, <2>2
    <3>2. p - n \in 1 .. Len(rxq')
      BY <1>4, <3>1
    <3> QED
      BY <3>1, <3>2
  <2> QED
    BY <1>5, <2>1, <2>2 DEF StreamInv, WholeInv
<1> QED
  BY <1>2, <1>7, <1>8 DEF StreamInv

-----------------------------------------------------------------------------
(* Every byte to be sent is a byte of a queued packet in its place, and    *)
(* what arrived of a packet as it was sent lies in the receive queue from  *)
(* its first byte on, or was received (OnByteArrive, ParsePacket). *)
THEOREM StreamInvHolds == Spec => []StreamInv
<1> USE LinkAssumption
<1>1. Init => StreamInv
  BY InitStreamInv
<1>2. LinkInv /\ StreamInv /\ [Next]_linkVars => StreamInv'
  <2> SUFFICES ASSUME LinkInv, StreamInv, [Next]_linkVars PROVE StreamInv'
    OBVIOUS
  <2>1. ASSUME NEW c \in Content, QueuePacket(c) PROVE StreamInv'
    BY <2>1, QueuePacketStreamInv
  <2>2. CASE Sender
    <3>1. UNCHANGED <<rxq, last, whole, got, queued>>
      BY <2>2 DEF Sender, QueueByte, Kick, Kicked, rxVars, parseVars
    <3>2. WireInv'
      BY <2>2, SenderWireInv DEF StreamInv
    <3> QED
      BY <3>1, <3>2 DEF StreamInv, PartInv, WholeInv
  <2>3. CASE TxFinish
    BY <2>3, TxFinishStreamInv
  <2>4. CASE WatchRx \/ ParseStart \/ UNCHANGED linkVars
    BY <2>4 DEF WatchRx, ParseStart, linkVars, txVars, rxVars, parseVars,
                StreamInv, WireInv, PartInv, WholeInv
  <2>5. CASE ParseStep
    BY <2>5, ParseStepStreamInv
  <2> QED
    BY <2>1, <2>2, <2>3, <2>4, <2>5 DEF Next, Receiver
<1> QED
  BY <1>1, <1>2, LinkInvHolds, PTL DEF Spec

(* Whatever was lost, spoilt or cut short before it, ParsePacket skips no  *)
(* byte of a packet that arrived as it was sent: for every payload that    *)
(* ends in another byte than 0x55, all sizes of the queue that hold a      *)
(* packet, and any number of bytes spoilt. *)
THEOREM NeverSkips == Spec => []NeverSkipsWhole
<1>1. LinkInv /\ StreamInv => NeverSkipsWhole
  <2> SUFFICES ASSUME LinkInv, StreamInv, NEW f \in whole
               PROVE  \/ \E j \in DOMAIN got : got[j] = f
                      \/ \E j \in DOMAIN rxq : rxq[j].f = f /\ rxq[j].i = 1
    BY DEF NeverSkipsWhole
  <2>1. CASE Found(got, f)
    BY <2>1 DEF Found
  <2>2. ASSUME NEW p \in 1 .. Len(rxq), Run(queued, rxq, f, p, FrameLen(queued, f))
        PROVE  \E j \in DOMAIN rxq : rxq[j].f = f /\ rxq[j].i = 1
    <3>1. FrameLen(queued, f) \in Nat /\ 1 \in 1 .. FrameLen(queued, f) /\ p + 1 - 1 = p
      <4>1. queued \in Seq(Content) /\ f \in 1 .. Len(queued)
        BY <2>2 DEF LinkInv, SendTypes, Run
      <4>2. FrameLen(queued, f) \in HeaderLen .. (HeaderLen + PayloadMax - 1)
        BY <4>1, LinkAssumption, FrameOf
      <4>3. PayloadMax \in Nat
        BY LinkAssumption DEF LinkAssumption
      <4> QED
        BY <4>2, <4>3 DEF HeaderLen
    <3>2. rxq[p] = AsSent(queued, f, 1)
      BY <2>2, <3>1 DEF Run
    <3>3. DOMAIN rxq = 1 .. Len(rxq)
      BY LenProperties DEF LinkInv, ReceiveTypes
    <3> QED
      BY <3>2, <3>3 DEF AsSent
  <2> QED
    BY <2>1, <2>2 DEF StreamInv, WholeInv
<1> QED
  BY <1>1, LinkInvHolds, StreamInvHolds, PTL

-----------------------------------------------------------------------------
(* The order of what is received.                                          *)
(* Of two bytes, one was queued before the other.                          *)
Before(a, b) == a.f < b.f \/ (a.f = b.f /\ a.i < b.i)
Sorted(s) == \A j, k \in 1 .. Len(s) : j < k => Before(s[j], s[k])
Prec(s, t) == \A j \in 1 .. Len(s), k \in 1 .. Len(t) : Before(s[j], t[k])

(* The checksum is in its place in the header; bytes belong to a packet    *)
(* queued so far, and no packet received has its checksum yet to come.     *)
Sound(s, n) ==
  \A j \in 1 .. Len(s) :
    s[j].f \in 1 .. n /\ (s[j].v.k = "crc" => s[j].i = HeaderLen)
Fresh(s, g) ==
  \A j \in 1 .. Len(s), k \in DOMAIN g : s[j].i = HeaderLen => g[k] < s[j].f

(* From the receive queue over the line and the ring to what is not yet in *)
(* the ring, the bytes are in the order of their packets, and every packet *)
(* received comes before all of them. *)
OrderInv ==
  /\ Sorted(rxq) /\ Sorted(toSend) /\ Sorted(rest)
  /\ Prec(rxq, toSend) /\ Prec(rxq, rest) /\ Prec(toSend, rest)
  /\ Sound(rxq, Len(queued)) /\ Sound(toSend, Len(queued)) /\ Sound(rest, Len(queued))

FreshInv ==
  /\ got \in Seq(1 .. MaxFrames)
  /\ \A k \in DOMAIN got : got[k] \in 1 .. Len(queued)
  /\ Fresh(rxq, got) /\ Fresh(toSend, got) /\ Fresh(rest, got)
  /\ GotInOrder

-----------------------------------------------------------------------------
(* Sequences whose elements are some of those of others. *)
LEMMA BeforeTransitive ==
  ASSUME NEW a \in Byte, NEW b \in Byte, NEW c \in Byte, Before(a, b), Before(b, c)
  PROVE  Before(a, c)
<1>1. \A x \in {a, b, c} : x.f \in Int /\ x.i \in Int
  BY DEF Byte, HeaderLen
<1> QED
  BY <1>1 DEF Before

(* The sequence without its first bytes. *)
LEMMA SuffixKeeps ==
  ASSUME NEW s \in Seq(Byte), NEW t \in Seq(Byte), NEW n \in Nat, Len(t) = Len(s) - n,
         \A k \in 1 .. (Len(s) - n) : t[k] = s[k + n]
  PROVE  /\ Sorted(s) => Sorted(t)
         /\ \A u : Prec(s, u) => Prec(t, u)
         /\ \A u : Prec(u, s) => Prec(u, t)
         /\ \A m : Sound(s, m) => Sound(t, m)
         /\ \A g : Fresh(s, g) => Fresh(t, g)
<1>1. Len(s) \in Nat /\ Len(t) \in Nat
  BY LenProperties
<1>2. \A k \in 1 .. Len(t) : k + n \in 1 .. Len(s) /\ t[k] = s[k + n]
  BY <1>1
<1>3. Sorted(s) => Sorted(t)
  <2> SUFFICES ASSUME Sorted(s), NEW j \in 1 .. Len(t), NEW k \in 1 .. Len(t), j < k
               PROVE  Before(t[j], t[k])
    BY DEF Sorted
  <2>1. j + n < k + n
    BY <1>1
  <2> QED
    BY <1>2, <2>1 DEF Sorted
<1>4. \A u : Prec(s, u) => Prec(t, u)
  BY <1>2 DEF Prec
<1>5. \A u : Prec(u, s) => Prec(u, t)
  BY <1>2 DEF Prec
<1>6. \A m : Sound(s, m) => Sound(t, m)
  BY <1>2 DEF Sound
<1>7. \A g : Fresh(s, g) => Fresh(t, g)
  BY <1>2 DEF Fresh
<1> QED
  BY <1>3, <1>4, <1>5, <1>6, <1>7

(* A byte appended.  Only its frame and place count. *)
LEMMA AppendKeeps ==
  ASSUME NEW s \in Seq(Byte), NEW e \in Byte
  PROVE  /\ Sorted(s) /\ (\A j \in 1 .. Len(s) : Before(s[j], e)) => Sorted(Append(s, e))
         /\ \A u : Prec(s, u) /\ (\A j \in 1 .. Len(u) : Before(e, u[j])) => Prec(Append(s, e), u)
         /\ \A u : Prec(u, s) /\ (\A j \in 1 .. Len(u) : Before(u[j], e)) => Prec(u, Append(s, e))
         /\ \A m : Sound(s, m) /\ e.f \in 1 .. m /\ (e.v.k = "crc" => e.i = HeaderLen) => Sound(Append(s, e), m)
         /\ \A g : Fresh(s, g) /\ (\A k \in DOMAIN g : e.i = HeaderLen => g[k] < e.f) => Fresh(Append(s, e), g)
<1> DEFINE t == Append(s, e)
<1>1. /\ Len(s) \in Nat /\ Len(t) = Len(s) + 1 /\ t[Len(s) + 1] = e
      /\ \A j \in 1 .. Len(s) : t[j] = s[j]
  BY AppendProperties, LenProperties
<1> HIDE DEF t
<1>2. \A j \in 1 .. Len(t) : (j \in 1 .. Len(s) /\ t[j] = s[j]) \/ (j = Len(s) + 1 /\ t[j] = e)
  BY <1>1
<1>3. Sorted(s) /\ (\A j \in 1 .. Len(s) : Before(s[j], e)) => Sorted(t)
  <2> SUFFICES ASSUME Sorted(s), \A j \in 1 .. Len(s) : Before(s[j], e),
                      NEW j \in 1 .. Len(t), NEW k \in 1 .. Len(t), j < k
               PROVE  Before(t[j], t[k])
    BY DEF Sorted
  <2>1. j \in 1 .. Len(s) /\ t[j] = s[j]
    BY <1>1, <1>2
  <2> QED
    BY <1>2, <2>1 DEF Sorted
<1>4. \A u : Prec(s, u) /\ (\A j \in 1 .. Len(u) : Before(e, u[j])) => Prec(t, u)
  BY <1>2 DEF Prec
<1>5. \A u : Prec(u, s) /\ (\A j \in 1 .. Len(u) : Before(u[j], e)) => Prec(u, t)
  BY <1>2 DEF Prec
<1>6. \A m : Sound(s, m) /\ e.f \in 1 .. m /\ (e.v.k = "crc" => e.i = HeaderLen) => Sound(t, m)
  BY <1>2 DEF Sound
<1>7. \A g : Fresh(s, g) /\ (\A k \in DOMAIN g : e.i = HeaderLen => g[k] < e.f) => Fresh(t, g)
  BY <1>2 DEF Fresh
<1> QED
  BY <1>3, <1>4, <1>5, <1>6, <1>7 DEF t

LEMMA EmptyKeeps ==
  /\ Sorted(<<>>) /\ \A u : Prec(<<>>, u) /\ Prec(u, <<>>)
  /\ \A m : Sound(<<>>, m) /\ \A g : Fresh(<<>>, g)
<1>1. Len(<<>>) = 0
  BY EmptySeq
<1> QED
  BY <1>1 DEF Sorted, Prec, Sound, Fresh

(* A sequence without its first byte. *)
LEMMA TailKeeps ==
  ASSUME NEW s \in Seq(Byte), s # <<>>
  PROVE  /\ Tail(s) \in Seq(Byte)
         /\ Head(s) = s[1] /\ Head(s) \in Byte /\ 1 \in 1 .. Len(s)
         /\ Sorted(s) => Sorted(Tail(s)) /\ \A j \in 1 .. Len(Tail(s)) : Before(Head(s), Tail(s)[j])
         /\ \A u : Prec(s, u) => Prec(Tail(s), u)
         /\ \A u : Prec(u, s) => Prec(u, Tail(s))
         /\ \A m : Sound(s, m) => Sound(Tail(s), m)
         /\ \A g : Fresh(s, g) => Fresh(Tail(s), g)
<1>1. /\ Tail(s) \in Seq(Byte) /\ Len(Tail(s)) = Len(s) - 1 /\ Head(s) \in Byte
      /\ \A k \in 1 .. Len(Tail(s)) : Tail(s)[k] = s[k + 1]
  BY HeadTailProperties
<1>2. Len(s) \in Nat /\ Len(s) >= 1 /\ Head(s) = s[1]
  BY EmptySeq
<1>3. \A k \in 1 .. (Len(s) - 1) : Tail(s)[k] = s[k + 1]
  BY <1>1
<1>4. /\ Sorted(s) => Sorted(Tail(s))
      /\ \A u : Prec(s, u) => Prec(Tail(s), u)
      /\ \A u : Prec(u, s) => Prec(u, Tail(s))
      /\ \A m : Sound(s, m) => Sound(Tail(s), m)
      /\ \A g : Fresh(s, g) => Fresh(Tail(s), g)
  BY <1>1, <1>3, SuffixKeeps
<1>5. Sorted(s) => \A j \in 1 .. Len(Tail(s)) : Before(Head(s), Tail(s)[j])
  <2> SUFFICES ASSUME Sorted(s), NEW j \in 1 .. Len(Tail(s)) PROVE Before(s[1], Tail(s)[j])
    BY <1>2
  <2>1. j + 1 \in 1 .. Len(s) /\ 1 < j + 1 /\ 1 \in 1 .. Len(s) /\ Tail(s)[j] = s[j + 1]
    BY <1>1, <1>2
  <2> QED
    BY <2>1 DEF Sorted
<1> QED
  BY <1>1, <1>2, <1>4, <1>5

LEMMA SoundMore ==
  ASSUME NEW s, NEW n \in Nat, Sound(s, n)
  PROVE  Sound(s, n + 1)
BY DEF Sound

-----------------------------------------------------------------------------
LEMMA InitOrderInv == Init => OrderInv /\ FreshInv
<1> SUFFICES ASSUME Init PROVE OrderInv /\ FreshInv
  OBVIOUS
<1>1. OrderInv
  BY EmptyKeeps DEF Init, OrderInv
<1>2. FreshInv
  BY EmptyKeeps, EmptySeq DEF Init, FreshInv, GotInOrder
<1> QED
  BY <1>1, <1>2

(* The packet queued comes after all that is under way. *)
LEMMA QueuePacketOrderInv ==
  ASSUME LinkAssumption, LinkInv, SenderInv, OrderInv, FreshInv,
         NEW c \in Content, QueuePacket(c)
  PROVE  OrderInv' /\ FreshInv'
<1> DEFINE n == Len(queued) + 1
           L == Len(FrameBytes(c))
<1>1. UNCHANGED <<rxq, toSend, got>> /\ Len(queued) \in Nat /\ Len(queued') = n
  <2>1. queued \in Seq(Content) /\ queued' = Append(queued, c)
    BY DEF QueuePacket, LinkInv, SendTypes
  <2> QED
    BY <2>1, AppendProperties, LenProperties DEF QueuePacket, rxVars, parseVars
<1>2. /\ L \in Nat /\ FrameBytes(c)[1] = Pre /\ FrameBytes(c)[2] = Sfd /\ FrameBytes(c)[3] = Info(c)
      /\ \A i \in 5 .. L : FrameBytes(c)[i] \in {Pre, Data}
  BY FrameShape, LenProperties
<1>3. rest' = [i \in 1 .. L |-> [v |-> FrameBytes(c)[i], f |-> n, i |-> i]]
  BY DEF QueuePacket
<1>4. /\ Len(rest') = L
      /\ \A j \in 1 .. L : rest'[j].v = FrameBytes(c)[j] /\ rest'[j].f = n /\ rest'[j].i = j
  BY <1>2, <1>3
<1> HIDE DEF L
<1>5. Sorted(rest')
  BY <1>1, <1>2, <1>4 DEF Sorted, Before
<1>6. Sound(rest', n)
  <2> SUFFICES ASSUME NEW j \in 1 .. L, FrameBytes(c)[j].k = "crc" PROVE j = 4
    BY <1>1, <1>4 DEF Sound, HeaderLen
  <2>1. j # 1 /\ j # 2 /\ j # 3
    BY <1>2, ValueKinds
  <2>2. j \notin 5 .. L
    BY <1>2, ValueKinds
  <2> QED
    BY <1>2, <2>1, <2>2
<1>7. Prec(rxq, rest') /\ Prec(toSend, rest')
  BY <1>1, <1>2, <1>4 DEF OrderInv, Prec, Sound, Before
<1>8. Sound(rxq, n) /\ Sound(toSend, n)
  BY <1>1, SoundMore DEF OrderInv
<1>9. Fresh(rest', got)
  <2> SUFFICES ASSUME NEW j \in 1 .. L, NEW k \in DOMAIN got PROVE got[k] < n
    BY <1>4 DEF Fresh
  <2>1. got[k] \in 1 .. Len(queued)
    BY DEF FreshInv
  <2> QED
    BY <1>1, <2>1
<1>10. OrderInv'
  BY <1>1, <1>5, <1>6, <1>7, <1>8 DEF OrderInv
<1>11. \A k \in DOMAIN got : got[k] \in 1 .. n
  BY <1>1 DEF FreshInv
<1>12. FreshInv'
  BY <1>1, <1>9, <1>11 DEF FreshInv, GotInOrder
<1> QED
  BY <1>10, <1>12

LEMMA QueueByteOrderInv ==
  ASSUME LinkInv, SenderInv, OrderInv, FreshInv, QueueByte
  PROVE  OrderInv' /\ FreshInv'
<1>1. /\ rest \in Seq(Byte) /\ rest # <<>> /\ toSend \in Seq(Byte)
      /\ UNCHANGED <<rxq, got, queued>>
  BY DEF QueueByte, rxVars, parseVars, SenderInv, RingTypes
<1>2. CASE rest' = <<>> /\ toSend' = toSend
  <2>1. OrderInv'
    BY <1>1, <1>2, EmptyKeeps DEF OrderInv
  <2>2. FreshInv'
    BY <1>1, <1>2, EmptyKeeps DEF FreshInv, GotInOrder
  <2> QED
    BY <2>1, <2>2
<1>3. CASE rest' = Tail(rest) /\ toSend' = Append(toSend, Head(rest))
  <2>1. /\ Head(rest) = rest[1] /\ Head(rest) \in Byte /\ 1 \in 1 .. Len(rest)
        /\ Sorted(rest') /\ \A j \in 1 .. Len(rest') : Before(Head(rest), rest'[j])
    BY <1>1, <1>3, TailKeeps DEF OrderInv
  <2>2. Prec(rxq, rest') /\ Prec(toSend, rest') /\ Sound(rest', Len(queued)) /\ Fresh(rest', got)
    BY <1>1, <1>3, TailKeeps DEF OrderInv, FreshInv
  <2>3. /\ \A j \in 1 .. Len(toSend) : Before(toSend[j], Head(rest))
        /\ \A j \in 1 .. Len(rxq) : Before(rxq[j], Head(rest))
    BY <2>1 DEF OrderInv, Prec
  <2>4. Sorted(toSend') /\ Prec(rxq, toSend') /\ Prec(toSend', rest')
    BY <1>1, <1>3, <2>1, <2>2, <2>3, AppendKeeps DEF OrderInv
  <2>5. Sound(toSend', Len(queued))
    BY <1>1, <1>3, <2>1, AppendKeeps DEF OrderInv, Sound
  <2>6. Fresh(toSend', got)
    <3>1. \A k \in DOMAIN got : Head(rest).i = HeaderLen => got[k] < Head(rest).f
      BY <2>1 DEF FreshInv, Fresh
    <3> QED
      BY <1>1, <1>3, <2>1, <3>1, AppendKeeps DEF FreshInv
  <2>7. OrderInv'
    BY <1>1, <2>1, <2>2, <2>4, <2>5 DEF OrderInv
  <2>8. FreshInv'
    BY <1>1, <2>2, <2>6 DEF FreshInv, GotInOrder
  <2> QED
    BY <2>7, <2>8
<1> QED
  BY <1>2, <1>3 DEF QueueByte

(* The byte on the line is the first one to be sent; it goes behind those  *)
(* in the receive queue, or nowhere. *)
LEMMA TxFinishOrderInv ==
  ASSUME LinkAssumption, LinkInv, SenderInv, OrderInv, FreshInv, TxFinish
  PROVE  OrderInv' /\ FreshInv'
<1>1. /\ toSend \in Seq(Byte) /\ rxq \in Seq(Byte) /\ line \in Byte /\ Deliver(line)
      /\ toSend' = Tail(toSend) /\ UNCHANGED <<rest, queued, got>>
  BY DEF TxFinish, parseVars, LinkInv, SendTypes, ReceiveTypes, SenderInv, RingTypes
<1>2. toSend # <<>> /\ line = Head(toSend)
  BY OldestOnLine DEF TxFinish, SentInOrder
<1>3. /\ line = toSend[1] /\ 1 \in 1 .. Len(toSend) /\ Sorted(toSend')
      /\ \A j \in 1 .. Len(toSend') : Before(line, toSend'[j])
  BY <1>1, <1>2, TailKeeps DEF OrderInv
<1>4. /\ Prec(rxq, toSend') /\ Prec(toSend', rest) /\ Sound(toSend', Len(queued))
      /\ Fresh(toSend', got)
  BY <1>1, <1>2, TailKeeps DEF OrderInv, FreshInv
<1>5. CASE rxq' = rxq
  <2>1. OrderInv'
    BY <1>1, <1>3, <1>4, <1>5 DEF OrderInv
  <2>2. FreshInv'
    BY <1>1, <1>4, <1>5 DEF FreshInv, GotInOrder
  <2> QED
    BY <2>1, <2>2
<1>6. ASSUME NEW v \in {line.v, Junk}, rxq' = Append(rxq, [line EXCEPT !.v = v])
      PROVE  OrderInv' /\ FreshInv'
  <2> DEFINE e == [line EXCEPT !.v = v]
  <2>1. /\ e \in Byte /\ e.f = line.f /\ e.i = line.i
        /\ e.v.k = "crc" => line.v.k = "crc"
    <3>1. e \in Byte /\ e.f = line.f /\ e.i = line.i /\ e.v = v
      BY <1>1 DEF Byte
    <3> QED
      BY <3>1, ValueKinds
  <2> HIDE DEF e
  <2>2. \A j \in 1 .. Len(rxq) : Before(rxq[j], e)
    BY <1>3, <2>1 DEF OrderInv, Prec, Before
  <2>3. \A j \in 1 .. Len(toSend') : Before(e, toSend'[j])
    BY <1>3, <2>1 DEF Before
  <2>4. \A j \in 1 .. Len(rest) : Before(e, rest[j])
    BY <1>3, <2>1 DEF OrderInv, Prec, Before
  <2>5. e.f \in 1 .. Len(queued) /\ (e.v.k = "crc" => e.i = HeaderLen)
    BY <1>3, <2>1 DEF OrderInv, Sound
  <2>6. \A k \in DOMAIN got : e.i = HeaderLen => got[k] < e.f
    BY <1>3, <2>1 DEF FreshInv, Fresh
  <2>7. rxq' = Append(rxq, e)
    BY <1>6 DEF e
  <2>8. Sorted(rxq') /\ Prec(rxq', toSend') /\ Prec(rxq', rest)
    BY <1>1, <1>4, <2>1, <2>2, <2>3, <2>4, <2>7, AppendKeeps DEF OrderInv
  <2>9. Sound(rxq', Len(queued)) /\ Fresh(rxq', got)
    BY <1>1, <2>1, <2>5, <2>6, <2>7, AppendKeeps DEF OrderInv, FreshInv
  <2>10. OrderInv'
    BY <1>1, <1>3, <1>4, <2>8, <2>9 DEF OrderInv
  <2>11. FreshInv'
    BY <1>1, <1>4, <2>9 DEF FreshInv, GotInOrder
  <2> QED
    BY <2>10, <2>11
<1> QED
  BY <1>1, <1>5, <1>6, ArriveIs DEF Deliver, LinkInv

LEMMA ParseStepOrderInv ==
  ASSUME LinkAssumption, LinkInv, SenderInv, OrderInv, FreshInv, ParseStep
  PROVE  OrderInv' /\ FreshInv'
<1>1. UNCHANGED <<rest, queued, toSend>>
  BY DEF ParseStep, txVars
<1>2. /\ rxq \in Seq(Byte) /\ Len(rxq) \in Nat /\ got \in Seq(1 .. MaxFrames)
      /\ toSend \in Seq(Byte) /\ rest \in Seq(Byte)
  BY LenProperties DEF LinkInv, SendTypes, ReceiveTypes, FreshInv, SenderInv, RingTypes
<1>3. ASSUME NEW n \in Nat, Dropped(n)
      PROVE  /\ Sorted(rxq') /\ Prec(rxq', toSend) /\ Prec(rxq', rest)
             /\ Sound(rxq', Len(queued)) /\ Fresh(rxq', got)
  BY <1>2, <1>3, SuffixKeeps DEF Dropped, OrderInv, FreshInv
<1>4. ASSUME NEW n \in Nat, Dropped(n) PROVE OrderInv'
  BY <1>1, <1>3, <1>4 DEF OrderInv
<1>5. ASSUME NEW n \in Nat, Dropped(n), got' = got PROVE OrderInv' /\ FreshInv'
  <2>1. FreshInv'
    BY <1>1, <1>3, <1>5 DEF FreshInv, GotInOrder
  <2> QED
    BY <1>4, <1>5, <2>1
<1>6. CASE Takes
  <2>1. PICK len \in Nat : Dropped(HeaderLen + len) /\ Len(rxq) >= HeaderLen + len /\ Valid(len)
    BY <1>6 DEF Takes
  <2> DEFINE n == HeaderLen + len
             b == rxq[HeaderLen]
  <2>2. n \in Nat /\ n >= 4 /\ Dropped(n) /\ 4 \in 1 .. Len(rxq)
    BY <1>2, <2>1 DEF HeaderLen
  <2>3. b \in Byte /\ b.f \in 1 .. MaxFrames
    BY <1>2, <2>2, ElementOfSeq, ByteFields DEF HeaderLen
  <2>4. b.i = HeaderLen /\ b.f \in 1 .. Len(queued)
    <3>1. b.v.k = "crc"
      BY <2>1 DEF Valid
    <3> QED
      BY <2>2, <3>1 DEF OrderInv, Sound, HeaderLen
  <2>5. \A k \in DOMAIN got : got[k] < b.f
    BY <2>2, <2>4 DEF FreshInv, Fresh, HeaderLen
  <2>6. got' = Append(got, b.f)
    BY <1>6 DEF Takes
  <2>7. /\ got' \in Seq(1 .. MaxFrames) /\ Len(got') = Len(got) + 1 /\ got'[Len(got) + 1] = b.f
        /\ \A k \in 1 .. Len(got) : got'[k] = got[k]
    BY <1>2, <2>3, <2>6, AppendProperties
  <2>8. DOMAIN got = 1 .. Len(got) /\ DOMAIN got' = 1 .. (Len(got) + 1) /\ Len(got) \in Nat
    BY <1>2, <2>7, LenProperties
  <2>9. \A k \in DOMAIN got' :
          (k \in DOMAIN got /\ got'[k] = got[k]) \/ (k = Len(got) + 1 /\ got'[k] = b.f)
    BY <2>7, <2>8
  <2>10. \A e : Before(b, e) /\ e.i = HeaderLen => b.f < e.f
    BY <2>4 DEF Before, HeaderLen
  <2>11. ASSUME NEW s, Fresh(s, got), \A j \in 1 .. Len(s) : Before(b, s[j])
         PROVE  Fresh(s, got')
    BY <2>9, <2>10, <2>11 DEF Fresh
  <2>12. Fresh(toSend, got') /\ Fresh(rest, got')
    BY <2>2, <2>11 DEF FreshInv, OrderInv, Prec, HeaderLen
  <2>13. Fresh(rxq', got')
    <3>1. \A j \in 1 .. Len(rxq') : Before(b, rxq'[j])
      <4> TAKE j \in 1 .. Len(rxq')
      <4>1. j + n \in 1 .. Len(rxq) /\ rxq'[j] = rxq[j + n] /\ 4 < j + n
        BY <1>2, <2>2 DEF Dropped
      <4> QED
        BY <2>2, <4>1 DEF OrderInv, Sorted, HeaderLen
    <3> QED
      BY <1>3, <2>2, <2>11, <3>1
  <2>14. GotInOrder'
    <3> SUFFICES ASSUME NEW j \in DOMAIN got', NEW k \in DOMAIN got', j < k PROVE got'[j] < got'[k]
      BY DEF GotInOrder
    <3>1. j \in DOMAIN got /\ got'[j] = got[j]
      BY <2>8, <2>9
    <3> QED
      BY <2>5, <2>9, <3>1 DEF FreshInv, GotInOrder
  <2>15. \A k \in DOMAIN got' : got'[k] \in 1 .. Len(queued)
    BY <2>4, <2>9 DEF FreshInv
  <2>16. FreshInv'
    BY <1>1, <2>7, <2>12, <2>13, <2>14, <2>15 DEF FreshInv
  <2> QED
    BY <1>4, <2>2, <2>16
<1>7. CASE Stops \/ SkipsOne \/ SkipsPreamble
  BY <1>5, <1>7 DEF Stops, SkipsOne, SkipsPreamble, PreambleLen
<1> QED
  BY <1>6, <1>7, ParseStepIs

-----------------------------------------------------------------------------
(* The bytes in the receive queue, on the line, in the ring and not yet in *)
(* the ring are in the order of their packets, after all those received    *)
(* (QueueDataForTx, NotifyTxFinish, OnByteArrive, ParsePacket). *)
THEOREM OrderInvHolds == KickMayStall = FALSE /\ Spec => [](OrderInv /\ FreshInv)
<1> SUFFICES ASSUME KickMayStall = FALSE PROVE Spec => [](OrderInv /\ FreshInv)
  OBVIOUS
<1> USE LinkAssumption
<1>1. Init => OrderInv /\ FreshInv
  BY InitOrderInv
<1>2. LinkInv /\ SenderInv /\ OrderInv /\ FreshInv /\ [Next]_linkVars => OrderInv' /\ FreshInv'
  <2> SUFFICES ASSUME LinkInv, SenderInv, OrderInv, FreshInv, [Next]_linkVars
               PROVE OrderInv' /\ FreshInv'
    OBVIOUS
  <2>1. ASSUME NEW c \in Content, QueuePacket(c) PROVE OrderInv' /\ FreshInv'
    BY <2>1, QueuePacketOrderInv
  <2>2. CASE QueueByte
    BY <2>2, QueueByteOrderInv
  <2>3. CASE TxFinish
    BY <2>3, TxFinishOrderInv
  <2>4. CASE ParseStep
    BY <2>4, ParseStepOrderInv
  <2>5. CASE Kick \/ Kicked \/ WatchRx \/ ParseStart \/ UNCHANGED linkVars
    BY <2>5 DEF Kick, Kicked, WatchRx, ParseStart, linkVars, txVars, rxVars, parseVars,
                OrderInv, FreshInv, GotInOrder
  <2> QED
    BY <2>1, <2>2, <2>3, <2>4, <2>5 DEF Next, Sender, Receiver
<1>3. Spec => []SenderInv
  BY SenderInvHolds
<1> QED
  BY <1>1, <1>2, <1>3, LinkInvHolds, PTL DEF Spec

(* ParsePacket hands packets on in the order they were queued, and none    *)
(* twice, for all sizes of the rings and any bytes lost or spoilt. *)
THEOREM ReceivedInOrder == KickMayStall = FALSE /\ Spec => []GotInOrder
<1>1. FreshInv => GotInOrder
  BY DEF FreshInv
<1> QED
  BY <1>1, OrderInvHolds, PTL

=============================================================================
