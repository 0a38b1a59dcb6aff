------------------------- MODULE XBoardPeersProofs -------------------------
(***************************************************************************)
(* What holds between any boards, of any kinds and however their rounds    *)
(* are spaced: the types, that connecting and disconnecting take and give  *)
(* back one blocker, and that a peer that is gone is noticed in time.  And *)
(* when no board has three rounds between two of the other one: that a     *)
(* peer that is there is not taken for gone.                               *)
(***************************************************************************)
EXTENDS XBoardPeers, SequenceTheorems, TLAPS

PeersInv == PeersTypeOK /\ BlockersMatchPeer

(* A round that passes leaves the packets on their way as they are. *)
LEMMA CrossedIsSeq ==
  ASSUME NEW b \in Boards, NEW c \in Seq(Packet)
  PROVE  Crossed(b, c) \in Seq(Packet)
<1>1. \A i \in DOMAIN c : c[i] \in Packet
  BY ElementOfSeq
<1>2. \A i \in DOMAIN c : [c[i] EXCEPT !.crossed = @ \cup {b}] \in Packet
  BY <1>1 DEF Packet
<1>3. DOMAIN c = 1 .. Len(c) /\ Len(c) \in Nat
  OBVIOUS
<1>4. Crossed(b, c) \in [1 .. Len(c) -> Packet]
  BY <1>2, <1>3 DEF Crossed
<1> QED
  BY <1>3, <1>4

LEMMA SendsIsSeq ==
  ASSUME PeersAssumption, NEW b \in Boards
  PROVE  Sends(b) \in Seq(Packet)
<1>1. [what |-> "ping", crossed |-> {}] \in Packet /\ [what |-> Kind[b], crossed |-> {}] \in Packet
  BY DEF Packet, PeersAssumption
<1> QED
  BY <1>1, ConcatProperties DEF Sends

(* A round ends with a peer of a kind there is, or none, and counts no     *)
(* further than to kMissed. *)
LEMMA RoundOutcome ==
  ASSUME PeersAssumption, PeersTypeOK, NEW b \in Boards
  PROVE  /\ NextPeer(b) \in PeerType \cup {None}
         /\ Missed(b) \in 0 .. kMissed
<1>1. ValidPong(b) \subseteq PeerType
  BY DEF ValidPong, PeersTypeOK
<1>2. ValidPong(b) # {} => (CHOOSE k \in ValidPong(b) : TRUE) \in PeerType
  BY <1>1
<1>3. peer[b] \in PeerType \cup {None} /\ noPong[b] \in 0 .. kMissed
  BY DEF PeersTypeOK
<1> QED
  BY <1>2, <1>3 DEF NextPeer, Missed, kMissed

-----------------------------------------------------------------------------
LEMMA InitPeersInv == PeersAssumption /\ Init => PeersInv
BY EmptySeq DEF PeersAssumption, Init, PeersInv, PeersTypeOK, BlockersMatchPeer, kMissed

LEMMA ParsePeersInv ==
  ASSUME PeersAssumption, PeersInv, NEW b \in Boards, Parse(b)
  PROVE  PeersInv'
<1> USE DEF PeersInv, Parse, envVars
<1>1. chan[b] \in Seq(Packet) /\ chan[b] # <<>>
  BY DEF PeersTypeOK
<1>2. Head(chan[b]) \in Packet /\ Tail(chan[b]) \in Seq(Packet)
  BY <1>1, HeadTailProperties
<1>3. chan' \in [Boards -> Seq(Packet)]
  BY <1>2 DEF PeersTypeOK
<1>4. Head(chan[b]).what \in {"ping"} \cup PeerType
  BY <1>2 DEF Packet
<1>5. recvPing' \in [Boards -> BOOLEAN] /\ flags' \in [Boards -> SUBSET PeerType]
  <2>1. CASE Head(chan[b]).what = "ping"
    <3>1. recvPing' = [recvPing EXCEPT ![b] = TRUE] /\ flags' = flags
      BY <2>1
    <3> QED
      BY <3>1 DEF PeersTypeOK
  <2>2. CASE Head(chan[b]).what # "ping"
    <3>1. /\ recvPing' = recvPing
          /\ flags' = [flags EXCEPT ![b] = flags[b] \cup {Head(chan[b]).what}]
          /\ Head(chan[b]).what \in PeerType
      BY <1>4, <2>2
    <3> QED
      BY <3>1 DEF PeersTypeOK
  <2> QED
    BY <2>1, <2>2
<1>6. PeersTypeOK'
  BY <1>3, <1>5 DEF PeersTypeOK
<1>7. BlockersMatchPeer'
  BY DEF BlockersMatchPeer
<1> QED
  BY <1>6, <1>7

(* A round takes a blocker when it finds a peer, gives it back when it     *)
(* loses it, and keeps it otherwise. *)
LEMMA PingPeersInv ==
  ASSUME PeersAssumption, PeersInv, NEW b \in Boards, Ping(b)
  PROVE  PeersInv'
<1> USE DEF PeersInv
<1>1. NextPeer(b) \in PeerType \cup {None} /\ Missed(b) \in 0 .. kMissed
  BY RoundOutcome
<1>2. chan' \in [Boards -> Seq(Packet)]
  <2> DEFINE sent(d) == IF b \in cable /\ d \in cable \ {b} THEN Sends(b) ELSE <<>>
  <2>1. \A d \in Boards : sent(d) \in Seq(Packet) /\ chan[d] \in Seq(Packet)
    BY SendsIsSeq, EmptySeq DEF PeersTypeOK
  <2>2. \A d \in Boards : chan[d] \o sent(d) \in Seq(Packet)
    BY <2>1, ConcatProperties
  <2>3. \A d \in Boards : Crossed(b, chan[d] \o sent(d)) \in Seq(Packet)
    BY <2>2, CrossedIsSeq
  <2>4. chan' = [d \in Boards |-> Crossed(b, chan[d] \o sent(d))]
    BY DEF Ping
  <2> QED
    BY <2>3, <2>4
<1>3. since' \in [Boards -> 0 .. MaxRounds] /\ before' \in [Boards -> 0 .. MaxRounds]
  <2>1. since[b] + 1 \in 0 .. MaxRounds /\ 0 \in 0 .. MaxRounds
    BY DEF Ping, InTime, PeersTypeOK, PeersAssumption
  <2>2. \A d \in Boards : since[d] \in 0 .. MaxRounds /\ before[d] \in 0 .. MaxRounds
    BY DEF PeersTypeOK
  <2> QED
    BY <2>1, <2>2 DEF Ping
<1>4. BlockersMatchPeer'
  <2>1. blockers' = [blockers EXCEPT ![b] =
          IF Connects(b) THEN blockers[b] + 1
          ELSE IF Disconnects(b) THEN blockers[b] - 1 ELSE blockers[b]]
    BY DEF Ping
  <2>2. peer' = [peer EXCEPT ![b] = NextPeer(b)]
    BY DEF Ping
  <2>3. blockers \in [Boards -> {0, 1}] /\ peer \in [Boards -> PeerType \cup {None}]
    BY DEF PeersTypeOK
  <2>4. blockers'[b] = IF peer'[b] = None THEN 0 ELSE 1
    BY <2>1, <2>2, <2>3 DEF BlockersMatchPeer, Connects, Disconnects
  <2>5. \A d \in Boards \ {b} : blockers'[d] = IF peer'[d] = None THEN 0 ELSE 1
    BY <2>1, <2>2, <2>3 DEF BlockersMatchPeer
  <2> QED
    BY <2>4, <2>5 DEF BlockersMatchPeer
<1>5. PeersTypeOK'
  <2>1. noPong' \in [Boards -> 0 .. kMissed] /\ peer' \in [Boards -> PeerType \cup {None}]
    BY <1>1 DEF Ping, PeersTypeOK
  <2>2. recvPing' \in [Boards -> BOOLEAN] /\ flags' \in [Boards -> SUBSET PeerType]
    BY DEF Ping, PeersTypeOK
  <2>3. blockers' \in [Boards -> {0, 1}]
    <3>1. DOMAIN blockers' = Boards /\ blockers' = [d \in Boards |-> blockers'[d]]
      BY DEF Ping, PeersTypeOK
    <3>2. \A d \in Boards : blockers'[d] \in {0, 1}
      BY <1>4 DEF BlockersMatchPeer
    <3> QED
      BY <3>1, <3>2
  <2>4. DOMAIN stale' = Boards /\ link' \in [Boards -> {"touched", "settling", "calm"}]
    BY DEF Ping, PeersTypeOK
  <2> QED
    BY <1>2, <1>3, <2>1, <2>2, <2>3, <2>4 DEF PeersTypeOK, Ping, envVars
<1> QED
  BY <1>4, <1>5

(* What happens to the cable disturbs neither. *)
LEMMA CablePeersInv ==
  ASSUME PeersAssumption, PeersInv,
         (\E b \in Boards : Lose(b)) \/ (\E c \in Cables : Plug(c)) \/ Unplug
  PROVE  PeersInv'
<1> USE DEF PeersInv
<1>1. ASSUME NEW b \in Boards, Lose(b) PROVE PeersInv'
  <2>1. chan[b] \in Seq(Packet) /\ chan[b] # <<>>
    BY <1>1 DEF PeersTypeOK, Lose
  <2>2. Tail(chan[b]) \in Seq(Packet)
    BY <2>1, HeadTailProperties
  <2> QED
    BY <1>1, <2>2 DEF Lose, PeersTypeOK, BlockersMatchPeer, PeersAssumption
<1>2. ASSUME NEW c \in Cables, Plug(c) PROVE PeersInv'
  <2>1. /\ DOMAIN stale' = Boards /\ link' \in [Boards -> {"touched", "settling", "calm"}]
        /\ since' \in [Boards -> 0 .. MaxRounds] /\ before' \in [Boards -> 0 .. MaxRounds]
    BY <1>2 DEF Plug, Touched, PeersAssumption
  <2>2. cable' \subseteq Boards /\ events' \in 0 .. MaxEvents
    <3>1. c \subseteq Boards
      BY DEF PeersAssumption
    <3>2. events + 1 \in 0 .. MaxEvents
      BY <1>2 DEF Plug, PeersTypeOK, PeersAssumption
    <3> QED
      BY <1>2, <3>1, <3>2 DEF Plug
  <2>3. PeersTypeOK'
    BY <1>2, <2>1, <2>2 DEF Plug, PeersTypeOK
  <2> QED
    BY <1>2, <2>3 DEF Plug, BlockersMatchPeer
<1>3. CASE Unplug
  <2>1. chan' \in [Boards -> Seq(Packet)]
    <3>1. \A b \in Boards : chan'[b] \in {<<>>, chan[b]}
      BY <1>3 DEF Unplug
    <3>2. \A b \in Boards : chan[b] \in Seq(Packet)
      BY DEF PeersTypeOK
    <3>3. \A b \in Boards : chan'[b] \in Seq(Packet)
      <4>1. <<>> \in Seq(Packet)
        OBVIOUS
      <4> QED
        BY <3>1, <3>2, <4>1
    <3>4. chan' = [b \in Boards |-> chan'[b]]
      <4> DEFINE X == {<<>>} \cup {chan[b] : b \in cable}
      <4>1. chan' \in [Boards -> X]
        BY <1>3 DEF Unplug
      <4> HIDE DEF X
      <4> QED
        BY <4>1
    <3> QED
      BY <3>3, <3>4
  <2>2. /\ DOMAIN stale' = Boards /\ link' \in [Boards -> {"touched", "settling", "calm"}]
        /\ since' \in [Boards -> 0 .. MaxRounds] /\ before' \in [Boards -> 0 .. MaxRounds]
    BY <1>3 DEF Unplug, Touched, PeersAssumption
  <2>3. PeersTypeOK'
    BY <1>3, <2>1, <2>2 DEF Unplug, PeersTypeOK
  <2> QED
    BY <1>3, <2>3 DEF Unplug, BlockersMatchPeer
<1> QED
  BY <1>1, <1>2, <1>3

LEMMA NextPeersInv == PeersAssumption /\ PeersInv /\ [Next]_peerVars => PeersInv'
<1> SUFFICES ASSUME PeersAssumption, PeersInv, [Next]_peerVars PROVE PeersInv'
  OBVIOUS
<1>1. ASSUME NEW b \in Boards, Parse(b) \/ Ping(b) PROVE PeersInv'
  BY <1>1, ParsePeersInv, PingPeersInv
<1>2. CASE UNCHANGED peerVars
  BY <1>2 DEF peerVars, PeersInv, PeersTypeOK, BlockersMatchPeer
<1> QED
  BY <1>1, <1>2, CablePeersInv DEF Next

THEOREM PeersInvHolds == Spec => []PeersInv
<1>1. PeersAssumption
  BY PeersAssumption
<1> QED
  BY <1>1, InitPeersInv, NextPeersInv, PTL DEF Spec

(* The variables keep their types. *)
THEOREM PeersTypes == Spec => []PeersTypeOK
<1>1. PeersInv => PeersTypeOK
  BY DEF PeersInv
<1> QED
  BY <1>1, PeersInvHolds, PTL

(* Every board holds a blocker exactly while it has a peer, whatever is    *)
(* plugged in, lost or late. *)
THEOREM BlockersFollowPeer == Spec => []BlockersMatchPeer
<1>1. PeersInv => BlockersMatchPeer
  BY DEF PeersInv
<1> QED
  BY <1>1, PeersInvHolds, PTL

(* No round turns one peer into another: an application that is told of a  *)
(* new peer was told before that the old one is gone. *)
PeerChangesThroughNone ==
  [][\A b \in Boards : peer'[b] # peer[b] => None \in {peer'[b], peer[b]}]_peerVars

THEOREM NoSwap == Spec => PeerChangesThroughNone
<1> DEFINE Same == \A b \in Boards : peer'[b] # peer[b] => None \in {peer'[b], peer[b]}
<1>1. PeersTypeOK /\ [Next]_peerVars => [Same]_peerVars
  <2> SUFFICES ASSUME PeersTypeOK, Next PROVE Same
    OBVIOUS
  <2>1. ASSUME NEW b \in Boards, Ping(b) PROVE Same
    <3>1. NextPeer(b) \in {None, peer[b]} \/ peer[b] = None
      BY DEF NextPeer, ValidPong
    <3> QED
      BY <2>1, <3>1 DEF Ping, PeersTypeOK
  <2>2. (\E b \in Boards : Parse(b) \/ Lose(b)) \/ (\E c \in Cables : Plug(c)) \/ Unplug
          => Same
    BY DEF Parse, Lose, Plug, Unplug
  <2> QED
    BY <2>1, <2>2 DEF Next
<1> QED
  BY <1>1, PeersTypes, PTL DEF Spec, PeerChangesThroughNone

-----------------------------------------------------------------------------
(* A peer that is gone is noticed in time.                                 *)

(* A queue without a pong of another kind than k, and one whose pongs of   *)
(* another kind were all sent before the last round of board b. *)
Clean(c, k) == \A i \in 1 .. Len(c) : c[i].what \in {"ping", k}
Passed(c, b, k) ==
  \A i \in 1 .. Len(c) : c[i].what \in {"ping", k} \/ b \in c[i].crossed

(* What a board knows of a peer that is not there any more: its pongs were *)
(* sent before the first of the rounds counted, are gone by the second,    *)
(* and every later round counts as missed. *)
RealInv ==
  /\ cable = {} \/ cable \in Cables
  /\ \A b \in Boards :
       /\ stale[b] \in Nat
       /\ stale[b] >= 1 =>
            /\ peer[b] \notin {None, AtOtherEnd(b)}
            /\ Passed(chan[b], b, AtOtherEnd(b))
            /\ noPong[b] < kMissed
       /\ stale[b] >= 2 =>
            /\ Clean(chan[b], AtOtherEnd(b))
            /\ flags[b] \subseteq {AtOtherEnd(b)}
            /\ stale[b] <= noPong[b] + 2

(* A round only adds its board to those that have passed a packet. *)
LEMMA CrossedKeeps ==
  ASSUME NEW b \in Boards, NEW c \in Seq(Packet)
  PROVE  /\ Len(Crossed(b, c)) = Len(c)
         /\ \A i \in 1 .. Len(c) : /\ Crossed(b, c)[i].what = c[i].what
                                   /\ Crossed(b, c)[i].crossed = c[i].crossed \cup {b}
<1>1. DOMAIN c = 1 .. Len(c) /\ Len(c) \in Nat /\ \A i \in 1 .. Len(c) : c[i] \in Packet
  BY ElementOfSeq
<1>2. Crossed(b, c) = [i \in 1 .. Len(c) |-> [c[i] EXCEPT !.crossed = c[i].crossed \cup {b}]]
  BY <1>1 DEF Crossed
<1>3. Len(Crossed(b, c)) = Len(c)
  <2>1. Crossed(b, c) \in Seq(Packet) /\ DOMAIN Crossed(b, c) = 1 .. Len(c)
    BY <1>2, CrossedIsSeq
  <2> QED  BY <1>1, <2>1, LenProperties
<1>4. ASSUME NEW i \in 1 .. Len(c)
      PROVE  /\ Crossed(b, c)[i].what = c[i].what
             /\ Crossed(b, c)[i].crossed = c[i].crossed \cup {b}
  <2>1. Crossed(b, c)[i] = [c[i] EXCEPT !.crossed = c[i].crossed \cup {b}]
    BY <1>2
  <2>2. c[i] \in Packet
    BY <1>1
  <2> QED  BY <2>1, <2>2 DEF Packet
<1> QED  BY <1>3, <1>4

(* Packets that are clean may join a queue. *)
LEMMA ConcatClean ==
  ASSUME NEW c \in Seq(Packet), NEW d \in Seq(Packet), NEW k, NEW b,
         Clean(d, k)
  PROVE  /\ Clean(c, k) => Clean(c \o d, k)
         /\ Passed(c, b, k) => Passed(c \o d, b, k)
<1>1. /\ Len(c \o d) = Len(c) + Len(d) /\ Len(c) \in Nat /\ Len(d) \in Nat
      /\ \A i \in 1 .. Len(c) + Len(d) :
            (c \o d)[i] = IF i <= Len(c) THEN c[i] ELSE d[i - Len(c)]
  BY ConcatProperties
<1>2. \A i \in 1 .. Len(c \o d) :
         \/ i \in 1 .. Len(c) /\ (c \o d)[i] = c[i]
         \/ i - Len(c) \in 1 .. Len(d) /\ (c \o d)[i] = d[i - Len(c)]
  BY <1>1
<1> QED  BY <1>2 DEF Clean, Passed

(* A queue stays clean when its first packet leaves it. *)
LEMMA TailClean ==
  ASSUME NEW c \in Seq(Packet), c # <<>>, NEW k, NEW b
  PROVE  /\ Clean(c, k) => Clean(Tail(c), k) /\ Head(c).what \in {"ping", k}
         /\ Passed(c, b, k) => Passed(Tail(c), b, k)
<1>1. /\ Head(c) = c[1] /\ Len(Tail(c)) = Len(c) - 1
      /\ \A i \in 1 .. Len(Tail(c)) : Tail(c)[i] = c[i + 1]
  BY HeadTailProperties
<1>2. Len(c) \in Nat /\ Len(c) # 0
  BY EmptySeq
<1>3. 1 \in 1 .. Len(c) /\ \A i \in 1 .. Len(Tail(c)) : i + 1 \in 1 .. Len(c)
  BY <1>1, <1>2
<1> QED  BY <1>1, <1>3 DEF Clean, Passed

(* The kind at the other end is that of the board that sends from there. *)
LEMMA OtherEnd ==
  ASSUME PeersAssumption, cable = {} \/ cable \in Cables,
         NEW b \in cable, NEW d \in cable \ {b}
  PROVE  AtOtherEnd(b) = Kind[d]
<1>1. PICK x, y \in Boards : x # y /\ cable = {x, y}
  BY DEF PeersAssumption
<1>2. (CHOOSE e \in cable : e # b) = d
  BY <1>1
<1> QED  BY <1>2 DEF AtOtherEnd

(* A board sends pings and pongs of its own kind. *)
LEMMA SendsClean ==
  ASSUME PeersAssumption, NEW b \in Boards
  PROVE  Sends(b) \in Seq(Packet) /\ Clean(Sends(b), Kind[b])
<1> DEFINE packet(w) == [what |-> w, crossed |-> {}]
           ping == packet("ping")
           pong == packet(Kind[b])
           answer == IF recvPing[b] THEN <<pong>> ELSE <<>>
<1>1. Sends(b) = <<ping>> \o answer
  BY DEF Sends
<1>2. ping.what = "ping" /\ pong.what = Kind[b] /\ ping \in Packet /\ pong \in Packet
  BY DEF Packet, PeersAssumption
<1> HIDE DEF ping, pong
<1>3. Clean(<<ping>>, Kind[b]) /\ Clean(<<pong>>, Kind[b]) /\ Clean(<<>>, Kind[b])
  BY <1>2 DEF Clean
<1>4. <<ping>> \in Seq(Packet) /\ <<pong>> \in Seq(Packet) /\ <<>> \in Seq(Packet)
  BY <1>2
<1>5. answer \in Seq(Packet) /\ Clean(answer, Kind[b])
  <2>1. CASE recvPing[b]
    BY <1>3, <1>4, <2>1
  <2>2. CASE ~ recvPing[b]
    BY <1>3, <1>4, <2>2
  <2> QED  BY <2>1, <2>2
<1> HIDE DEF answer
<1>6. Clean(<<ping>> \o answer, Kind[b])
  BY <1>3, <1>4, <1>5, ConcatClean
<1> QED  BY <1>1, <1>6, SendsIsSeq

(* One round of board e. *)
LEMMA PingReal ==
  ASSUME PeersAssumption, PeersInv, RealInv, NEW e \in Boards, Ping(e)
  PROVE  RealInv'
<1>1. /\ chan \in [Boards -> Seq(Packet)] /\ flags \in [Boards -> SUBSET PeerType]
      /\ noPong \in [Boards -> 0 .. kMissed] /\ peer \in [Boards -> PeerType \cup {None}]
      /\ DOMAIN stale = Boards /\ cable \subseteq Boards
  BY DEF PeersInv, PeersTypeOK
<1>2. /\ cable' = cable
      /\ \A b \in Boards : AtOtherEnd(b)' = AtOtherEnd(b)
  BY DEF Ping, envVars, AtOtherEnd
<1> DEFINE sent(b) == IF e \in cable /\ b \in cable \ {e} THEN Sends(e) ELSE <<>>
           far(b) == AtOtherEnd(b)
<1>3. \A b \in Boards : chan'[b] = Crossed(e, chan[b] \o sent(b))
  BY DEF Ping
<1>4. \A b \in Boards : sent(b) \in Seq(Packet) /\ Clean(sent(b), far(b))
  <2> SUFFICES ASSUME NEW b \in Boards
               PROVE  sent(b) \in Seq(Packet) /\ Clean(sent(b), far(b))
    OBVIOUS
  <2>1. CASE e \in cable /\ b \in cable \ {e}
    <3>1. far(b) = Kind[e] /\ sent(b) = Sends(e)
      BY <2>1, OtherEnd DEF RealInv
    <3> QED  BY <3>1, SendsClean
  <2>2. CASE ~ (e \in cable /\ b \in cable \ {e})
    <3>1. sent(b) = <<>>
      BY <2>2
    <3>2. <<>> \in Seq(Packet)
      BY EmptySeq
    <3>3. Clean(<<>>, far(b))
      BY DEF Clean
    <3> QED  BY <3>1, <3>2, <3>3
  <2> QED  BY <2>1, <2>2
<1> HIDE DEF sent
<1>5. \A b \in Boards :
        /\ Clean(chan[b], far(b)) => Clean(chan'[b], far(b))
        /\ Passed(chan[b], b, far(b)) => Passed(chan'[b], b, far(b))
  <2> SUFFICES ASSUME NEW b \in Boards
               PROVE  /\ Clean(chan[b], far(b)) => Clean(chan'[b], far(b))
                      /\ Passed(chan[b], b, far(b)) => Passed(chan'[b], b, far(b))
    OBVIOUS
  <2> DEFINE c == chan[b] \o sent(b)
  <2>1. c \in Seq(Packet)
    BY <1>1, <1>4, ConcatProperties
  <2>2. /\ Clean(chan[b], far(b)) => Clean(c, far(b))
        /\ Passed(chan[b], b, far(b)) => Passed(c, b, far(b))
    BY <1>1, <1>4, ConcatClean
  <2>3. chan'[b] = Crossed(e, c)
    BY <1>3
  <2> HIDE DEF c, far
  <2>4. /\ Len(chan'[b]) = Len(c)
        /\ \A i \in 1 .. Len(c) : /\ chan'[b][i].what = c[i].what
                                  /\ chan'[b][i].crossed = c[i].crossed \cup {e}
    BY <2>1, <2>3, CrossedKeeps
  <2> QED  BY <2>2, <2>4 DEF Clean, Passed
<1>6. Passed(chan'[e], e, far(e))
  <2> DEFINE c == chan[e] \o sent(e)
  <2>1. c \in Seq(Packet)
    BY <1>1, <1>4, ConcatProperties
  <2>2. chan'[e] = Crossed(e, c)
    BY <1>3
  <2> HIDE DEF c, far
  <2>3. /\ Len(chan'[e]) = Len(c)
        /\ \A i \in 1 .. Len(c) : chan'[e][i].crossed = c[i].crossed \cup {e}
    BY <2>1, <2>2, CrossedKeeps
  <2> QED  BY <2>3 DEF Passed
<1>7. /\ \A b \in Boards \ {e} : /\ stale'[b] = stale[b] /\ peer'[b] = peer[b]
                                 /\ noPong'[b] = noPong[b] /\ flags'[b] = flags[b]
      /\ stale'[e] = IF NextPeer(e) \in {None, far(e)} THEN 0 ELSE stale[e] + 1
      /\ peer'[e] = NextPeer(e) /\ noPong'[e] = Missed(e) /\ flags'[e] = {}
  BY <1>1 DEF Ping
<1> HIDE DEF far
<1>8. \A b \in Boards \ {e} :
        /\ stale'[b] \in Nat
        /\ stale'[b] >= 1 => /\ peer'[b] \notin {None, far(b)}
                             /\ Passed(chan'[b], b, far(b))
                             /\ noPong'[b] < kMissed
        /\ stale'[b] >= 2 => /\ Clean(chan'[b], far(b))
                             /\ flags'[b] \subseteq {far(b)}
                             /\ stale'[b] <= noPong'[b] + 2
  <2> SUFFICES ASSUME NEW b \in Boards, b # e
               PROVE  /\ stale'[b] \in Nat
                      /\ stale'[b] >= 1 => /\ peer'[b] \notin {None, far(b)}
                                           /\ Passed(chan'[b], b, far(b))
                                           /\ noPong'[b] < kMissed
                      /\ stale'[b] >= 2 => /\ Clean(chan'[b], far(b))
                                           /\ flags'[b] \subseteq {far(b)}
                                           /\ stale'[b] <= noPong'[b] + 2
    BY Zenon
  <2>1. /\ stale[b] \in Nat
        /\ stale[b] >= 1 => /\ peer[b] \notin {None, far(b)}
                            /\ Passed(chan[b], b, far(b))
                            /\ noPong[b] < kMissed
        /\ stale[b] >= 2 => /\ Clean(chan[b], far(b))
                            /\ flags[b] \subseteq {far(b)}
                            /\ stale[b] <= noPong[b] + 2
    BY DEF RealInv, far
  <2> QED  BY <1>5, <1>7, <2>1
<1>9. /\ stale'[e] \in Nat
      /\ stale'[e] >= 1 => /\ peer'[e] \notin {None, far(e)}
                           /\ Passed(chan'[e], e, far(e))
                           /\ noPong'[e] < kMissed
      /\ stale'[e] >= 2 => /\ Clean(chan'[e], far(e))
                           /\ flags'[e] \subseteq {far(e)}
                           /\ stale'[e] <= noPong'[e] + 2
  <2>1. CASE NextPeer(e) \in {None, far(e)}
    BY <1>7, <2>1
  <2>2. CASE NextPeer(e) \notin {None, far(e)}
    <3>1. stale[e] \in Nat /\ stale'[e] = stale[e] + 1
      BY <1>7, <2>2 DEF RealInv
    <3>2. noPong[e] \in 0 .. kMissed
      BY <1>1
    <3>3. noPong'[e] < kMissed
      BY <1>7, <2>2, <3>2 DEF NextPeer, Missed, kMissed
    <3>4. ASSUME stale[e] >= 1
          PROVE  Clean(chan[e], far(e))
      <4>1. \A i \in DOMAIN chan[e] : e \notin chan[e][i].crossed
        BY DEF Ping, InTime
      <4>2. DOMAIN chan[e] = 1 .. Len(chan[e])
        BY <1>1
      <4>3. Passed(chan[e], e, far(e))
        BY <3>4 DEF RealInv, far
      <4> QED  BY <4>1, <4>2, <4>3 DEF Clean, Passed
    <3>5. ASSUME stale[e] >= 2
          PROVE  stale'[e] <= noPong'[e] + 2
      <4>1. flags[e] \subseteq {far(e)} /\ stale[e] <= noPong[e] + 2
            /\ noPong[e] < kMissed /\ peer[e] \notin {None, far(e)}
        BY <3>5 DEF RealInv, far
      <4>2. ValidPong(e) = {}
        BY <4>1 DEF ValidPong
      <4>3. Missed(e) = noPong[e] + 1
        BY <3>2, <4>1, <4>2 DEF Missed
      <4> QED  BY <1>7, <3>1, <3>2, <4>1, <4>3
    <3>6. stale'[e] >= 2 => stale'[e] <= noPong'[e] + 2
      <4>1. noPong'[e] \in Nat
        BY <1>7, RoundOutcome DEF PeersInv, kMissed
      <4>2. CASE stale[e] >= 2
        BY <3>5, <4>2
      <4>3. CASE ~ (stale[e] >= 2)
        BY <3>1, <4>1, <4>3
      <4> QED  BY <4>2, <4>3
    <3>7. stale'[e] >= 2 => Clean(chan'[e], far(e))
      BY <1>5, <3>1, <3>4
    <3>8. stale'[e] \in Nat
      BY <3>1
    <3> QED  BY <1>6, <1>7, <2>2, <3>3, <3>6, <3>7, <3>8
  <2> QED  BY <2>1, <2>2
<1>10. cable' = {} \/ cable' \in Cables
  BY <1>2 DEF RealInv
<1>11. \A b \in Boards : AtOtherEnd(b)' = far(b)
  BY <1>2 DEF far
<1>12. \A b \in Boards :
        /\ stale'[b] \in Nat
        /\ stale'[b] >= 1 => /\ peer'[b] \notin {None, AtOtherEnd(b)'}
                             /\ Passed(chan'[b], b, AtOtherEnd(b)')
                             /\ noPong'[b] < kMissed
        /\ stale'[b] >= 2 => /\ Clean(chan'[b], AtOtherEnd(b)')
                             /\ flags'[b] \subseteq {AtOtherEnd(b)'}
                             /\ stale'[b] <= noPong'[b] + 2
  BY <1>8, <1>9, <1>11
<1> QED  BY <1>10, <1>12 DEF RealInv

(* A packet is parsed or lost. *)
LEMMA ArriveReal ==
  ASSUME PeersAssumption, PeersInv, RealInv, NEW e \in Boards, Parse(e) \/ Lose(e)
  PROVE  RealInv'
<1>1. /\ chan[e] # <<>> /\ chan' = [chan EXCEPT ![e] = Tail(chan[e])]
      /\ UNCHANGED <<cable, noPong, peer, stale>>
      /\ \/ flags' = flags
         \/ Head(chan[e]).what # "ping" /\ flags' = [flags EXCEPT ![e] = @ \cup {Head(chan[e]).what}]
  BY DEF Parse, Lose, envVars
<1>2. /\ chan \in [Boards -> Seq(Packet)] /\ flags \in [Boards -> SUBSET PeerType]
  BY DEF PeersInv, PeersTypeOK
<1>3. \A b \in Boards : AtOtherEnd(b)' = AtOtherEnd(b)
  BY <1>1 DEF AtOtherEnd
<1> DEFINE far(b) == AtOtherEnd(b)
<1>4. /\ Clean(chan[e], far(e)) => Clean(Tail(chan[e]), far(e)) /\ Head(chan[e]).what \in {"ping", far(e)}
      /\ Passed(chan[e], e, far(e)) => Passed(Tail(chan[e]), e, far(e))
  BY <1>1, <1>2, TailClean
<1>5. chan'[e] = Tail(chan[e]) /\ \A b \in Boards \ {e} : chan'[b] = chan[b] /\ flags'[b] = flags[b]
  BY <1>1, <1>2
<1>6. flags'[e] = flags[e] \/ (Head(chan[e]).what # "ping" /\ flags'[e] = flags[e] \cup {Head(chan[e]).what})
  BY <1>1, <1>2
<1>7. ASSUME NEW b \in Boards
      PROVE  /\ stale[b] >= 1 => Passed(chan'[b], b, far(b))
             /\ stale[b] >= 2 => Clean(chan'[b], far(b)) /\ flags'[b] \subseteq {far(b)}
  <2> HIDE DEF far
  <2>1. /\ stale[b] >= 1 => Passed(chan[b], b, far(b))
        /\ stale[b] >= 2 => Clean(chan[b], far(b)) /\ flags[b] \subseteq {far(b)}
    BY DEF RealInv, far
  <2>2. CASE b = e
    BY <1>4, <1>5, <1>6, <2>1, <2>2
  <2>3. CASE b # e
    BY <1>5, <2>1, <2>3
  <2> QED  BY <2>2, <2>3
<1> QED  BY <1>1, <1>3, <1>7 DEF RealInv

(* No step makes a board forget how long its peer has been gone. *)
LEMMA RealStep == PeersAssumption /\ PeersInv /\ RealInv /\ [Next]_peerVars => RealInv'
<1> SUFFICES ASSUME PeersAssumption, PeersInv, RealInv, [Next]_peerVars PROVE RealInv'
  OBVIOUS
<1>1. ASSUME NEW b \in Boards, Parse(b) \/ Lose(b) \/ Ping(b) PROVE RealInv'
  BY <1>1, PingReal, ArriveReal
<1>2. CASE (\E c \in Cables : Plug(c)) \/ Unplug
  <2>1. cable' = {} \/ cable' \in Cables
    BY <1>2 DEF Plug, Unplug
  <2>2. \A b \in Boards : stale'[b] = 0
    BY <1>2 DEF Plug, Unplug, Touched
  <2> QED  BY <2>1, <2>2 DEF RealInv
<1>3. CASE UNCHANGED peerVars
  BY <1>3 DEF peerVars, RealInv, AtOtherEnd
<1> QED  BY <1>1, <1>2, <1>3 DEF Next

(* What is known of a peer that is gone, whatever is plugged in, lost or   *)
(* late (RemoveFlag_OnPing in Routine, OnPacketArrived). *)
THEOREM RealInvHolds == Spec => []RealInv
<1>1. PeersAssumption
  BY PeersAssumption
<1>2. Init => RealInv
  BY DEF Init, RealInv
<1> QED  BY <1>1, <1>2, RealStep, PeersInvHolds, PTL DEF Spec

(* A board keeps a device for its peer that is not at the other end for    *)
(* four rounds at most (no_pong_count), for any boards and cables, and     *)
(* however the rounds of the two boards are spaced. *)
THEOREM PeersAreReal == Spec => []PeerIsReal
<1>1. PeersInv /\ RealInv => PeerIsReal
  <2> SUFFICES ASSUME PeersInv, RealInv, NEW b \in Boards PROVE stale[b] <= MaxStale
    BY DEF PeerIsReal
  <2>1. noPong[b] \in 0 .. kMissed
    BY DEF PeersInv, PeersTypeOK
  <2>2. stale[b] \in Nat /\ (stale[b] >= 1 => noPong[b] < kMissed)
        /\ (stale[b] >= 2 => stale[b] <= noPong[b] + 2)
    BY DEF RealInv
  <2> QED  BY <2>1, <2>2 DEF kMissed, MaxStale
<1> QED  BY <1>1, RealInvHolds, PeersInvHolds, PTL

-----------------------------------------------------------------------------
(* Jitter never ends a connection.                                         *)

(* A packet of a kind is on its way; one that has a round of board b       *)
(* behind it is; the packets are those of a board d of kind k; those that  *)
(* have no round of board b behind them are. *)
Has(q, w)       == \E i \in 1 .. Len(q) : q[i].what = w
HasOld(q, w, b) == \E i \in 1 .. Len(q) : q[i].what = w /\ b \in q[i].crossed
From(q, k, d)   == \A i \in 1 .. Len(q) : q[i].what \in {"ping", k} /\ d \in q[i].crossed
NewFrom(q, k, d, b) ==
  \A i \in 1 .. Len(q) :
     b \in q[i].crossed \/ (q[i].what \in {"ping", k} /\ d \in q[i].crossed)

(* A pong that the next round of board b may find. *)
PongNear(b, d) == flags[b] = {Kind[d]} \/ Has(chan[b], Kind[d])

(* What board b that had a round since the cable was touched knows of      *)
(* board d at the other end: what was sent since is from d, and the ping   *)
(* of b's last round is at d or on its way. *)
Settling(b, d) ==
  /\ NewFrom(chan[b], Kind[d], d, b)
  /\ since[b] >= 1 => recvPing[d] \/ HasOld(chan[d], "ping", b)

(* When it has heard d as well, a pong of d is near, or the ping it will   *)
(* be the answer to; and the more rounds were missed the nearer it is.     *)
Calm(b, d) ==
  /\ peer[b] = Kind[d] /\ flags[b] \subseteq {Kind[d]} /\ noPong[b] < kMissed
  /\ From(chan[b], Kind[d], d)
  /\ PongNear(b, d) \/ recvPing[d] \/ HasOld(chan[d], "ping", b)
  /\ since[b] >= 2 => recvPing[d]
  /\ noPong[b] = 1 => PongNear(b, d) \/ (recvPing[d] /\ since[b] >= 1)
  /\ noPong[b] = 2 => \/ flags[b] = {Kind[d]}
                      \/ HasOld(chan[b], Kind[d], b)
                      \/ Has(chan[b], Kind[d]) /\ before[b] >= 2
                      \/ since[b] >= 2 /\ recvPing[d]

Known(b, d) ==
  /\ link[b] # "touched" => Settling(b, d)
  /\ link[b] = "calm" => Calm(b, d)

CalmInv ==
  /\ \A b \in Boards : link[b] = "calm" => b \in cable
  /\ \A b, d \in cable : b # d => Known(b, d)

(* What is known of a queue is known of it when its first packet is gone,  *)
(* but for that packet. *)
LEMMA TailKnown ==
  ASSUME NEW q \in Seq(Packet), q # <<>>, NEW k, NEW w, NEW b, NEW d
  PROVE  /\ From(q, k, d) => From(Tail(q), k, d) /\ Head(q).what \in {"ping", k}
         /\ NewFrom(q, k, d, b) => NewFrom(Tail(q), k, d, b)
         /\ Has(q, w) => Has(Tail(q), w) \/ Head(q).what = w
         /\ HasOld(q, w, b) => HasOld(Tail(q), w, b) \/ Head(q).what = w
<1>1. /\ Head(q) = q[1] /\ Len(Tail(q)) = Len(q) - 1
      /\ \A i \in 1 .. Len(Tail(q)) : Tail(q)[i] = q[i + 1]
  BY HeadTailProperties
<1>2. Len(q) \in Nat /\ Len(q) # 0
  BY EmptySeq
<1>3. 1 \in 1 .. Len(q) /\ \A i \in 1 .. Len(Tail(q)) : i + 1 \in 1 .. Len(q)
  BY <1>1, <1>2
<1>4. \A i \in 1 .. Len(q) :
        \/ q[i] = Head(q)
        \/ i - 1 \in 1 .. Len(Tail(q)) /\ Tail(q)[i - 1] = q[i]
  BY <1>1, <1>2
<1>5. From(q, k, d) => From(Tail(q), k, d) /\ Head(q).what \in {"ping", k}
  BY <1>1, <1>3 DEF From
<1>6. NewFrom(q, k, d, b) => NewFrom(Tail(q), k, d, b)
  BY <1>1, <1>3 DEF NewFrom
<1>7. Has(q, w) => Has(Tail(q), w) \/ Head(q).what = w
  BY <1>4 DEF Has
<1>8. HasOld(q, w, b) => HasOld(Tail(q), w, b) \/ Head(q).what = w
  BY <1>4 DEF HasOld
<1> QED  BY <1>5, <1>6, <1>7, <1>8

(* What is known of a queue when a board e has had a round in which it put *)
(* the packets of r in it. *)
LEMMA RoundKnown ==
  ASSUME NEW q \in Seq(Packet), NEW r \in Seq(Packet), NEW e \in Boards,
         NEW k, NEW w, NEW b, NEW d, NEW p, p = Crossed(e, q \o r)
  PROVE  /\ From(q, k, d) /\ Clean(r, k) /\ (r = <<>> \/ d = e) => From(p, k, d)
         /\ NewFrom(q, k, d, b) /\ Clean(r, k) /\ (r = <<>> \/ d = e) => NewFrom(p, k, d, b)
         /\ NewFrom(p, k, d, e)
         /\ Has(q, w) => Has(p, w) /\ HasOld(p, w, e)
         /\ Has(r, w) => Has(p, w) /\ HasOld(p, w, e)
         /\ HasOld(q, w, b) => HasOld(p, w, b)
<1> DEFINE c == q \o r
<1>0. p = Crossed(e, c)
  OBVIOUS
<1>1. /\ Len(c) = Len(q) + Len(r) /\ Len(q) \in Nat /\ Len(r) \in Nat
      /\ \A i \in 1 .. Len(q) + Len(r) : c[i] = IF i <= Len(q) THEN q[i] ELSE r[i - Len(q)]
      /\ c \in Seq(Packet)
  BY ConcatProperties
<1> HIDE DEF c
<1>2. /\ Len(p) = Len(c)
      /\ \A i \in 1 .. Len(c) : p[i].what = c[i].what /\ p[i].crossed = c[i].crossed \cup {e}
  BY <1>0, <1>1, CrossedKeeps
<1>3. /\ \A i \in 1 .. Len(q) : /\ i \in 1 .. Len(p) /\ p[i].what = q[i].what
                                /\ p[i].crossed = q[i].crossed \cup {e}
      /\ \A i \in 1 .. Len(r) : /\ Len(q) + i \in 1 .. Len(p)
                                /\ p[Len(q) + i].what = r[i].what
                                /\ p[Len(q) + i].crossed = r[i].crossed \cup {e}
  <2>1. \A i \in 1 .. Len(q) : i \in 1 .. Len(c) /\ c[i] = q[i]
    BY <1>1
  <2>2. ASSUME NEW i \in 1 .. Len(r)
        PROVE  Len(q) + i \in 1 .. Len(c) /\ c[Len(q) + i] = r[i]
    <3>1. /\ Len(q) + i \in 1 .. Len(q) + Len(r) /\ ~ (Len(q) + i <= Len(q))
          /\ (Len(q) + i) - Len(q) = i
      BY <1>1
    <3> QED  BY <1>1, <3>1
  <2> QED  BY <1>2, <2>1, <2>2
<1>4. \A i \in 1 .. Len(p) :
        \/ i \in 1 .. Len(q)
        \/ i - Len(q) \in 1 .. Len(r) /\ p[i].what = r[i - Len(q)].what
  <2>1. \A i \in 1 .. Len(p) : i \in 1 .. Len(q) \/ i - Len(q) \in 1 .. Len(r)
    BY <1>1, <1>2
  <2>2. \A i \in 1 .. Len(p) : Len(q) + (i - Len(q)) = i
    BY <1>1, <1>2
  <2> QED  BY <1>3, <2>1, <2>2
<1>5. \A i \in 1 .. Len(p) : e \in p[i].crossed
  BY <1>2
<1>6. r = <<>> => Len(r) = 0
  OBVIOUS
<1>7. From(q, k, d) /\ Clean(r, k) /\ (r = <<>> \/ d = e) => From(p, k, d)
  <2> SUFFICES ASSUME From(q, k, d), Clean(r, k), r = <<>> \/ d = e, NEW i \in 1 .. Len(p)
               PROVE  p[i].what \in {"ping", k} /\ d \in p[i].crossed
    BY DEF From
  <2>1. CASE i \in 1 .. Len(q)
    BY <1>3, <2>1 DEF From
  <2>2. CASE i - Len(q) \in 1 .. Len(r) /\ p[i].what = r[i - Len(q)].what
    <3>1. d = e
      BY <1>6, <2>2
    <3> QED  BY <1>5, <2>2, <3>1 DEF Clean
  <2> QED  BY <1>4, <2>1, <2>2
<1>8. NewFrom(q, k, d, b) /\ Clean(r, k) /\ (r = <<>> \/ d = e) => NewFrom(p, k, d, b)
  <2> SUFFICES ASSUME NewFrom(q, k, d, b), Clean(r, k), r = <<>> \/ d = e, NEW i \in 1 .. Len(p)
               PROVE  b \in p[i].crossed \/ (p[i].what \in {"ping", k} /\ d \in p[i].crossed)
    BY DEF NewFrom
  <2>1. CASE i \in 1 .. Len(q)
    BY <1>3, <2>1 DEF NewFrom
  <2>2. CASE i - Len(q) \in 1 .. Len(r) /\ p[i].what = r[i - Len(q)].what
    <3>1. d = e
      BY <1>6, <2>2
    <3> QED  BY <1>5, <2>2, <3>1 DEF Clean
  <2> QED  BY <1>4, <2>1, <2>2
<1>9. NewFrom(p, k, d, e)
  BY <1>5 DEF NewFrom
<1>10. Has(q, w) => Has(p, w) /\ HasOld(p, w, e)
  BY <1>3, <1>5 DEF Has, HasOld
<1>11. Has(r, w) => Has(p, w) /\ HasOld(p, w, e)
  BY <1>3, <1>5 DEF Has, HasOld
<1>12. HasOld(q, w, b) => HasOld(p, w, b)
  BY <1>3 DEF HasOld
<1> QED  BY <1>7, <1>8, <1>9, <1>10, <1>11, <1>12

(* A round sends a ping, and a pong when there was one. *)
LEMMA SendsBoth ==
  ASSUME PeersAssumption, NEW b \in Boards
  PROVE  Has(Sends(b), "ping") /\ (recvPing[b] => Has(Sends(b), Kind[b]))
<1> DEFINE packet(w) == [what |-> w, crossed |-> {}]
           ping == packet("ping")
           pong == packet(Kind[b])
           answer == IF recvPing[b] THEN <<pong>> ELSE <<>>
<1>1. Sends(b) = <<ping>> \o answer
  BY DEF Sends
<1>2. ping.what = "ping" /\ pong.what = Kind[b] /\ ping \in Packet /\ pong \in Packet
  BY DEF Packet, PeersAssumption
<1> HIDE DEF ping, pong
<1>3. /\ <<ping>> \in Seq(Packet) /\ Len(<<ping>>) = 1 /\ <<ping>>[1] = ping
      /\ <<pong>> \in Seq(Packet) /\ Len(<<pong>>) = 1 /\ <<pong>>[1] = pong
      /\ <<>> \in Seq(Packet)
  BY <1>2
<1>4. answer \in Seq(Packet) /\ (recvPing[b] => answer = <<pong>>)
  BY <1>3
<1> HIDE DEF answer
<1>5. /\ Len(<<ping>> \o answer) = 1 + Len(answer) /\ Len(answer) \in Nat
      /\ \A i \in 1 .. 1 + Len(answer) :
            (<<ping>> \o answer)[i] = IF i <= 1 THEN <<ping>>[i] ELSE answer[i - 1]
  BY <1>3, <1>4, ConcatProperties
<1>6. 1 \in 1 .. Len(Sends(b)) /\ Sends(b)[1] = ping
  BY <1>1, <1>3, <1>5
<1>7. ASSUME recvPing[b]
      PROVE  2 \in 1 .. Len(Sends(b)) /\ Sends(b)[2] = pong
  BY <1>1, <1>3, <1>4, <1>5, <1>7
<1> QED  BY <1>2, <1>6, <1>7 DEF Has

-----------------------------------------------------------------------------
(* A packet that is parsed brings a board no further from a pong. *)
LEMMA ParseKnown ==
  ASSUME PeersAssumption, PeersTypeOK, NEW b \in Boards, NEW d \in Boards, b # d,
         Known(b, d), NEW e \in Boards, Parse(e)
  PROVE  Known(b, d)'
<1> DEFINE k == Kind[d]
           q == chan[e]
           t == Tail(q)
           h == Head(q).what
<1>1. q \in Seq(Packet) /\ q # <<>> /\ k # "ping" /\ k \in PeerType
  BY DEF Parse, PeersTypeOK, PeersAssumption
<1>2. /\ From(q, k, d) => From(t, k, d) /\ h \in {"ping", k}
      /\ NewFrom(q, k, d, b) => NewFrom(t, k, d, b)
  BY <1>1, TailKnown
<1>3. /\ Has(q, k) => Has(t, k) \/ h = k
      /\ HasOld(q, k, b) => HasOld(t, k, b) \/ h = k
  BY <1>1, TailKnown
<1>4. HasOld(q, "ping", b) => HasOld(t, "ping", b) \/ h = "ping"
  BY <1>1, TailKnown
<1>5. /\ chan'[e] = t /\ \A x \in Boards \ {e} : chan'[x] = chan[x]
      /\ UNCHANGED <<since, before, noPong, peer, link>>
  BY DEF Parse, PeersTypeOK
<1>6. /\ recvPing'[e] = (recvPing[e] \/ h = "ping")
      /\ flags'[e] = IF h = "ping" THEN flags[e] ELSE flags[e] \cup {h}
      /\ \A x \in Boards \ {e} : recvPing'[x] = recvPing[x] /\ flags'[x] = flags[x]
  <2>1. recvPing \in [Boards -> BOOLEAN] /\ flags \in [Boards -> SUBSET PeerType]
    BY DEF PeersTypeOK
  <2>2. CASE h = "ping"
    BY <2>1, <2>2 DEF Parse
  <2>3. CASE h # "ping"
    BY <2>1, <2>3 DEF Parse
  <2> QED  BY <2>2, <2>3
<1>7. recvPing[d] => recvPing'[d]
  BY <1>6, Zenon
<1> HIDE DEF t, h
<1>8. CASE e = b
  <2>1. chan'[b] = t /\ chan'[d] = chan[d] /\ recvPing'[d] = recvPing[d]
    BY <1>5, <1>6, <1>8
  <2>2. ASSUME Settling(b, d) PROVE Settling(b, d)'
    BY <1>2, <1>5, <1>8, <2>1, <2>2 DEF Settling
  <2>3. ASSUME Calm(b, d) PROVE Calm(b, d)'
    <3>1. /\ flags[b] \subseteq {k} /\ From(q, k, d)
      BY <1>8, <2>3 DEF Calm
    <3>2. From(t, k, d) /\ h \in {"ping", k}
      BY <1>2, <3>1
    <3>3. flags'[b] \subseteq {k} /\ (flags[b] = {k} => flags'[b] = {k}) /\ (h = k => flags'[b] = {k})
      BY <1>1, <1>6, <1>8, <3>1, <3>2
    <3>4. PongNear(b, d) => PongNear(b, d)'
      BY <1>3, <1>8, <2>1, <3>3 DEF PongNear
    <3>5. HasOld(chan[b], k, b) => flags'[b] = {k} \/ HasOld(chan'[b], k, b)
      BY <1>3, <1>8, <2>1, <3>3
    <3>6. Has(chan[b], k) => flags'[b] = {k} \/ Has(chan'[b], k)
      BY <1>3, <1>8, <2>1, <3>3
    <3> HIDE DEF k
    <3>7. Kind[d] = k
      BY DEF k
    <3> QED  BY <1>5, <2>1, <2>3, <3>2, <3>3, <3>4, <3>5, <3>6, <3>7 DEF Calm
  <2> QED  BY <1>5, <2>2, <2>3 DEF Known
<1>9. CASE e # b
  <2>1. chan'[b] = chan[b] /\ flags'[b] = flags[b]
    BY <1>5, <1>6, <1>9
  <2>2. recvPing[d] \/ HasOld(chan[d], "ping", b) => recvPing'[d] \/ HasOld(chan'[d], "ping", b)
    <3>1. CASE e = d
      BY <1>4, <1>5, <1>6, <3>1
    <3>2. CASE e # d
      BY <1>5, <1>6, <3>2
    <3> QED  BY <3>1, <3>2
  <2>3. PongNear(b, d) => PongNear(b, d)'
    BY <2>1 DEF PongNear
  <2>4. ASSUME Settling(b, d) PROVE Settling(b, d)'
    BY <1>5, <2>1, <2>2, <2>4 DEF Settling
  <2>5. ASSUME Calm(b, d) PROVE Calm(b, d)'
    BY <1>5, <1>7, <2>1, <2>2, <2>3, <2>5 DEF Calm
  <2> QED  BY <1>5, <2>4, <2>5 DEF Known
<1> QED  BY <1>8, <1>9

(* A round of board d, which is at the other end, answers the ping. *)
LEMMA FarRoundKnown ==
  ASSUME PeersAssumption, PeersTypeOK, NEW b \in cable, NEW d \in cable, b # d,
         Known(b, d), Ping(d)
  PROVE  Known(b, d)'
<1> DEFINE k == Kind[d]
           r == Sends(d)
<1>1. b \in Boards /\ d \in Boards /\ chan[b] \in Seq(Packet) /\ chan[d] \in Seq(Packet)
      /\ <<>> \in Seq(Packet)
  BY EmptySeq DEF PeersTypeOK
<1>2. r \in Seq(Packet) /\ Clean(r, k) /\ (recvPing[d] => Has(r, k))
  BY <1>1, SendsClean, SendsBoth
<1>3. /\ chan'[b] = Crossed(d, chan[b] \o r) /\ chan'[d] = Crossed(d, chan[d] \o <<>>)
      /\ since'[b] = 0 /\ before'[b] = since[b] /\ flags'[b] = flags[b]
      /\ noPong'[b] = noPong[b] /\ peer'[b] = peer[b] /\ link'[b] = link[b]
  BY <1>1 DEF Ping, PeersTypeOK
<1> HIDE DEF r
<1>4. /\ From(chan[b], k, d) => From(chan'[b], k, d)
      /\ NewFrom(chan[b], k, d, b) => NewFrom(chan'[b], k, d, b)
      /\ Has(chan[b], k) => Has(chan'[b], k)
      /\ recvPing[d] => Has(chan'[b], k)
  BY <1>1, <1>2, <1>3, RoundKnown
<1>5. HasOld(chan[b], k, b) => HasOld(chan'[b], k, b)
  BY <1>1, <1>2, <1>3, RoundKnown
<1>6. HasOld(chan[d], "ping", b) => HasOld(chan'[d], "ping", b)
  BY <1>1, <1>3, RoundKnown
<1>7. since[b] \in Nat
  BY <1>1 DEF PeersTypeOK
<1>8. ASSUME Settling(b, d) PROVE Settling(b, d)'
  BY <1>3, <1>4, <1>8 DEF Settling
<1>9. ASSUME Calm(b, d) PROVE Calm(b, d)'
  <2>1. chan[b] = <<>>
    <3>1. \A i \in DOMAIN chan[b] : d \notin chan[b][i].crossed
      BY <1>1 DEF Ping, InTime
    <3>2. \A i \in 1 .. Len(chan[b]) : d \in chan[b][i].crossed
      BY <1>9 DEF Calm, From
    <3>3. DOMAIN chan[b] = 1 .. Len(chan[b]) /\ Len(chan[b]) \in Nat
      BY <1>1
    <3>4. Len(chan[b]) = 0
      BY <3>1, <3>2, <3>3
    <3> QED  BY <1>1, <3>4, EmptySeq
  <2>2. ~ Has(chan[b], k)
    <3>1. Len(<<>>) = 0
      OBVIOUS
    <3> QED  BY <2>1, <3>1 DEF Has
  <2>3. PongNear(b, d) => PongNear(b, d)'
    BY <1>3, <1>4 DEF PongNear
  <2>4. recvPing[d] => PongNear(b, d)' /\ Has(chan'[b], k)
    BY <1>4 DEF PongNear
  <2> HIDE DEF k
  <2>5. Kind[d] = k
    BY DEF k
  <2>6. PongNear(b, d)' \/ HasOld(chan'[d], "ping", b)
    BY <1>6, <1>9, <2>3, <2>4 DEF Calm
  <2>7. noPong[b] = 1 => PongNear(b, d)'
    BY <1>9, <2>3, <2>4 DEF Calm
  <2>8. noPong[b] = 2 => \/ flags'[b] = {k}
                         \/ HasOld(chan'[b], k, b)
                         \/ Has(chan'[b], k) /\ before'[b] >= 2
    BY <1>3, <1>5, <1>9, <2>2, <2>4, <2>5 DEF Calm
  <2>9. /\ peer'[b] = k /\ flags'[b] \subseteq {k} /\ noPong'[b] < kMissed
        /\ From(chan'[b], k, d)
    BY <1>3, <1>4, <1>9, <2>5 DEF Calm
  <2> QED  BY <1>3, <2>5, <2>6, <2>7, <2>8, <2>9 DEF Calm
<1> QED  BY <1>3, <1>8, <1>9 DEF Known

(* A round of board b itself sends the next ping.  If it gets no pong, it  *)
(* is not the third in a row: a pong that is one round old has arrived,    *)
(* and one that d had two rounds to send has too. *)
LEMMA OwnRoundKnown ==
  ASSUME PeersAssumption, MaxRounds <= 2, PeersTypeOK,
         cable = {} \/ cable \in Cables,
         NEW b \in cable, NEW d \in cable, b # d,
         Known(b, d), Ping(b)
  PROVE  Known(b, d)' /\ (link[b] = "calm" => peer'[b] = peer[b])
<1> DEFINE k == Kind[d]
           r == Sends(b)
<1>1. b \in Boards /\ d \in Boards /\ chan[b] \in Seq(Packet) /\ chan[d] \in Seq(Packet)
      /\ <<>> \in Seq(Packet)
  BY EmptySeq DEF PeersTypeOK
<1>2. r \in Seq(Packet) /\ Has(r, "ping")
  BY <1>1, SendsIsSeq, SendsBoth
<1>3. /\ chan'[b] = Crossed(b, chan[b] \o <<>>) /\ chan'[d] = Crossed(b, chan[d] \o r)
      /\ since'[b] = since[b] + 1 /\ before'[b] = before[b] /\ flags'[b] = {}
      /\ noPong'[b] = Missed(b) /\ peer'[b] = NextPeer(b) /\ recvPing'[d] = recvPing[d]
      /\ link'[b] = IF link[b] # "touched" /\ (link[b] = "calm" \/ Hears(b)) THEN "calm"
                    ELSE "settling"
  BY <1>1 DEF Ping, PeersTypeOK
<1> HIDE DEF r
<1>4. Clean(<<>>, k)
  BY DEF Clean
<1>5. /\ From(chan[b], k, d) => From(chan'[b], k, d)
      /\ NewFrom(chan'[b], k, d, b)
      /\ Has(chan[b], k) => Has(chan'[b], k) /\ HasOld(chan'[b], k, b)
  BY <1>1, <1>3, <1>4, RoundKnown
<1>6. HasOld(chan'[d], "ping", b)
  BY <1>1, <1>2, <1>3, RoundKnown
<1>7. /\ ~ HasOld(chan[b], k, b) /\ ~ HasOld(chan[d], "ping", b)
      /\ NewFrom(chan[b], k, d, b) => From(chan[b], k, d)
  <2>1. /\ \A i \in DOMAIN chan[b] : b \notin chan[b][i].crossed
        /\ \A i \in DOMAIN chan[d] : b \notin chan[d][i].crossed
    BY <1>1 DEF Ping, InTime
  <2>2. DOMAIN chan[b] = 1 .. Len(chan[b]) /\ DOMAIN chan[d] = 1 .. Len(chan[d])
    BY <1>1
  <2> QED  BY <2>1, <2>2 DEF HasOld, NewFrom, From
<1>8. since[b] \in {0, 1} /\ (Has(chan[b], k) => before[b] \in {0, 1})
  <2>1. since[b] \in 0 .. MaxRounds /\ before[b] \in 0 .. MaxRounds /\ MaxRounds \in Nat
    BY <1>1 DEF PeersTypeOK, PeersAssumption
  <2>2. since[b] < MaxRounds /\ (chan[b] # <<>> => before[b] < MaxRounds)
    BY DEF Ping, InTime
  <2>3. Has(chan[b], k) => chan[b] # <<>>
    <3>1. Len(<<>>) = 0
      OBVIOUS
    <3> QED  BY <3>1 DEF Has
  <2> QED  BY <2>1, <2>2, <2>3
<1>9. k \in PeerType /\ k # None /\ noPong[b] \in 0 .. kMissed
  BY <1>1 DEF PeersAssumption, PeersTypeOK
<1>10. AtOtherEnd(b) = k
  BY OtherEnd
<1> HIDE DEF k
<1>11. Kind[d] = k
  BY DEF k
<1>12. Settling(b, d)'
  BY <1>5, <1>6, <1>11 DEF Settling
<1>13. ASSUME link[b] # "touched", link[b] = "calm" \/ Hears(b)
       PROVE  /\ From(chan'[b], k, d)
              /\ since'[b] >= 2 => recvPing'[d]
  <2>1. Settling(b, d)
    BY <1>13 DEF Known
  <2>2. From(chan'[b], k, d)
    BY <1>5, <1>7, <1>11, <2>1 DEF Settling
  <2>3. since[b] >= 1 => recvPing[d]
    BY <1>7, <2>1 DEF Settling
  <2> QED  BY <1>3, <1>8, <2>2, <2>3
<1>14. ASSUME ValidPong(b) = {k}
       PROVE  noPong'[b] = 0 /\ peer'[b] = k
  BY <1>3, <1>14 DEF Missed, NextPeer
<1>15. ASSUME link[b] = "calm", ValidPong(b) # {k}
       PROVE  /\ peer'[b] = k /\ noPong'[b] \in {1, 2}
              /\ noPong'[b] = 1 => PongNear(b, d)' \/ (recvPing[d] /\ since'[b] >= 1)
              /\ noPong'[b] = 2 => HasOld(chan'[b], k, b) \/ (since'[b] >= 2 /\ recvPing[d])
  <2>1. Calm(b, d)
    BY <1>15 DEF Known
  <2>2. flags[b] = {} /\ ValidPong(b) = {} /\ peer[b] = k
    BY <1>11, <1>15, <2>1 DEF Calm, ValidPong
  <2>3. flags[b] # {k}
    BY <2>2
  <2>4. noPong[b] # 2
    BY <1>7, <1>8, <1>11, <2>1, <2>3 DEF Calm
  <2>5. noPong[b] \in {0, 1} /\ Missed(b) = noPong[b] + 1
    BY <1>9, <2>1, <2>2, <2>4 DEF Calm, Missed, kMissed
  <2>6. peer'[b] = k /\ noPong'[b] = noPong[b] + 1
    BY <1>3, <2>2, <2>5 DEF NextPeer, kMissed
  <2>7. PongNear(b, d) => Has(chan[b], k)
    BY <1>11, <2>3 DEF PongNear
  <2>8. ASSUME noPong[b] = 0
        PROVE  PongNear(b, d)' \/ (recvPing[d] /\ since'[b] >= 1)
    <3>1. Has(chan[b], k) \/ recvPing[d]
      BY <1>7, <2>1, <2>7 DEF Calm
    <3>2. Has(chan'[b], k) => PongNear(b, d)'
      BY <1>11 DEF PongNear
    <3> QED  BY <1>3, <1>5, <1>8, <3>1, <3>2
  <2>9. ASSUME noPong[b] = 1
        PROVE  HasOld(chan'[b], k, b) \/ (since'[b] >= 2 /\ recvPing[d])
    <3>1. Has(chan[b], k) \/ (recvPing[d] /\ since[b] >= 1)
      BY <2>1, <2>7, <2>9 DEF Calm
    <3> QED  BY <1>3, <1>5, <1>8, <3>1
  <2> QED  BY <2>5, <2>6, <2>8, <2>9
<1>16. ASSUME link[b] # "touched", link[b] = "calm" \/ Hears(b)
       PROVE  Calm(b, d)'
  <2>1. CASE ValidPong(b) = {k}
    <3>1. noPong'[b] = 0 /\ peer'[b] = k
      BY <1>14, <2>1
    <3> QED  BY <1>3, <1>6, <1>11, <1>13, <1>16, <3>1 DEF Calm, kMissed
  <2>2. CASE ValidPong(b) # {k}
    <3>1. link[b] = "calm"
      BY <1>10, <1>16, <2>2 DEF Hears
    <3>2. /\ peer'[b] = k /\ noPong'[b] \in {1, 2}
          /\ noPong'[b] = 1 => PongNear(b, d)' \/ (recvPing'[d] /\ since'[b] >= 1)
          /\ noPong'[b] = 2 => HasOld(chan'[b], k, b) \/ (since'[b] >= 2 /\ recvPing'[d])
      BY <1>3, <1>15, <2>2, <3>1
    <3> QED  BY <1>3, <1>6, <1>11, <1>13, <1>16, <3>2 DEF Calm, kMissed
  <2> QED  BY <2>1, <2>2
<1>17. Known(b, d)'
  BY <1>3, <1>12, <1>16 DEF Known
<1>18. ASSUME link[b] = "calm"
       PROVE  peer'[b] = peer[b]
  <2>1. peer[b] = k
    BY <1>11, <1>18 DEF Known, Calm
  <2> QED  BY <1>14, <1>15, <1>18, <2>1
<1> QED  BY <1>17, <1>18

(* A round of a board that is not plugged in changes nothing for the two   *)
(* that are. *)
LEMMA OtherRoundKnown ==
  ASSUME PeersTypeOK, NEW b \in cable, NEW d \in cable, Known(b, d),
         NEW e \in Boards, e \notin cable, Ping(e)
  PROVE  Known(b, d)'
<1> DEFINE k == Kind[d]
<1>1. b \in Boards /\ d \in Boards /\ chan[b] \in Seq(Packet) /\ chan[d] \in Seq(Packet)
      /\ <<>> \in Seq(Packet) /\ b # e /\ d # e
  BY EmptySeq DEF PeersTypeOK
<1>2. /\ chan'[b] = Crossed(e, chan[b] \o <<>>) /\ chan'[d] = Crossed(e, chan[d] \o <<>>)
      /\ since'[b] = since[b] /\ before'[b] = before[b] /\ flags'[b] = flags[b]
      /\ noPong'[b] = noPong[b] /\ peer'[b] = peer[b] /\ recvPing'[d] = recvPing[d]
      /\ link'[b] = link[b]
  BY <1>1 DEF Ping, PeersTypeOK
<1>3. Clean(<<>>, k)
  BY DEF Clean
<1>4. /\ From(chan[b], k, d) => From(chan'[b], k, d)
      /\ NewFrom(chan[b], k, d, b) => NewFrom(chan'[b], k, d, b)
      /\ Has(chan[b], k) => Has(chan'[b], k)
  BY <1>1, <1>2, <1>3, RoundKnown
<1>5. HasOld(chan[b], k, b) => HasOld(chan'[b], k, b)
  BY <1>1, <1>2, RoundKnown
<1>6. HasOld(chan[d], "ping", b) => HasOld(chan'[d], "ping", b)
  BY <1>1, <1>2, RoundKnown
<1>7. PongNear(b, d) => PongNear(b, d)'
  BY <1>2, <1>4 DEF PongNear
<1>8. ASSUME Settling(b, d) PROVE Settling(b, d)'
  BY <1>2, <1>4, <1>6, <1>8 DEF Settling
<1>9. ASSUME Calm(b, d) PROVE Calm(b, d)'
  BY <1>2, <1>4, <1>5, <1>6, <1>7, <1>9 DEF Calm
<1> QED  BY <1>2, <1>8, <1>9 DEF Known

(* In every step boards keep what they know, and one that is calm keeps    *)
(* its peer. *)
LEMMA CalmStep ==
  ASSUME PeersAssumption, MaxRounds <= 2, PeersInv, RealInv, CalmInv, [Next]_peerVars
  PROVE  CalmInv' /\ \A b \in Boards : link[b] = "calm" => peer'[b] = peer[b]
<1> DEFINE Goal == CalmInv' /\ \A b \in Boards : link[b] = "calm" => peer'[b] = peer[b]
<1>1. PeersTypeOK /\ (cable = {} \/ cable \in Cables) /\ cable \subseteq Boards
  BY DEF PeersInv, PeersTypeOK, RealInv
<1>2. ASSUME NEW e \in Boards, Parse(e) PROVE Goal
  <2>1. cable' = cable /\ link' = link /\ peer' = peer
    BY <1>2 DEF Parse, envVars
  <2>2. \A b, d \in cable : b # d => Known(b, d)'
    BY <1>1, <1>2, ParseKnown DEF CalmInv
  <2> QED  BY <2>1, <2>2 DEF CalmInv
<1>3. ASSUME NEW e \in Boards, Ping(e) PROVE Goal
  <2>1. /\ cable' = cable
        /\ \A b \in Boards \ {e} : link'[b] = link[b] /\ peer'[b] = peer[b]
        /\ link'[e] = "calm" => link[e] = "calm" \/ Hears(e)
    BY <1>1, <1>3 DEF Ping, envVars, PeersTypeOK
  <2>2. \A b \in Boards : link'[b] = "calm" => b \in cable
    BY <2>1 DEF CalmInv, Hears
  <2>3. ASSUME NEW b \in cable, NEW d \in cable, b # d
        PROVE  Known(b, d)' /\ (e = b /\ link[b] = "calm" => peer'[b] = peer[b])
    <3>1. Known(b, d)
      BY <2>3 DEF CalmInv
    <3>2. CASE e = b
      BY <1>1, <1>3, <2>3, <3>1, <3>2, OwnRoundKnown
    <3>3. CASE e = d
      BY <1>1, <1>3, <2>3, <3>1, <3>3, FarRoundKnown
    <3>4. CASE e # b /\ e # d
      <4>1. e \notin cable
        <5>1. cable \in Cables
          BY <1>1, <2>3
        <5>2. PICK x, y \in Boards : x # y /\ cable = {x, y}
          BY <5>1 DEF PeersAssumption
        <5> QED  BY <2>3, <3>4, <5>2
      <4> QED  BY <1>1, <1>3, <3>1, <3>4, <4>1, OtherRoundKnown
    <3> QED  BY <3>2, <3>3, <3>4
  <2>4. ASSUME link[e] = "calm"
        PROVE  peer'[e] = peer[e]
    <3>1. e \in cable
      BY <2>4 DEF CalmInv
    <3>2. PICK x, y \in Boards : x # y /\ cable = {x, y}
      BY <1>1, <3>1 DEF PeersAssumption
    <3>3. PICK d \in cable : d # e
      BY <3>2
    <3> QED  BY <2>3, <2>4, <3>1, <3>3
  <2>5. CalmInv'
    BY <2>1, <2>2, <2>3 DEF CalmInv
  <2> QED  BY <2>1, <2>4, <2>5
<1>4. CASE (\E b \in Boards : Lose(b)) \/ (\E c \in Cables : Plug(c)) \/ Unplug
  <2>1. /\ \A b \in Boards : link'[b] = "touched"
        /\ cable' \subseteq Boards /\ peer' = peer
    BY <1>1, <1>4 DEF Lose, Plug, Unplug, Touched, PeersAssumption
  <2>2. CalmInv'
    BY <2>1 DEF CalmInv, Known
  <2> QED  BY <2>1, <2>2
<1>5. CASE UNCHANGED peerVars
  <2>1. /\ cable' = cable /\ link' = link /\ chan' = chan /\ since' = since /\ before' = before
        /\ recvPing' = recvPing /\ flags' = flags /\ noPong' = noPong /\ peer' = peer
    BY <1>5 DEF peerVars
  <2>2. CalmInv'
    BY <2>1 DEF CalmInv, Known, Settling, Calm, PongNear
  <2> QED  BY <2>1, <2>2
<1> QED  BY <1>2, <1>3, <1>4, <1>5 DEF Next

(* What a board knows of the other end once it has heard it.  The order of *)
(* the rounds matters here: with three rounds of one board between two of  *)
(* the other one it would not hold. *)
THEOREM CalmInvHolds ==
  ASSUME MaxRounds <= 2
  PROVE  Spec => []CalmInv
<1>1. PeersAssumption
  BY PeersAssumption
<1>2. Init => CalmInv
  BY DEF Init, CalmInv
<1>3. PeersInv /\ RealInv /\ CalmInv /\ [Next]_peerVars => CalmInv'
  BY <1>1, CalmStep
<1> QED  BY <1>2, <1>3, RealInvHolds, PeersInvHolds, PTL DEF Spec

(* Jitter of the two clocks never makes a board count three rounds without *)
(* a pong (CheckPong), however often the cable was moved before and        *)
(* whatever was lost then; and no peer turns into another. *)
THEOREM JitterNeverDisconnects ==
  ASSUME MaxRounds <= 2
  PROVE  Spec => StaysConnected
<1> DEFINE Stays == \A b \in Boards :
             /\ link[b] = "calm" => peer'[b] = peer[b]
             /\ peer'[b] # peer[b] => None \in {peer'[b], peer[b]}
           Swap == \A b \in Boards : peer'[b] # peer[b] => None \in {peer'[b], peer[b]}
<1>1. PeersAssumption
  BY PeersAssumption
<1>2. PeersInv /\ RealInv /\ CalmInv /\ [Next]_peerVars /\ [Swap]_peerVars => [Stays]_peerVars
  BY <1>1, CalmStep
<1>3. Spec => [][Swap]_peerVars
  BY NoSwap DEF PeerChangesThroughNone
<1> QED  BY <1>2, <1>3, CalmInvHolds, RealInvHolds, PeersInvHolds, PTL DEF Spec, StaysConnected
=============================================================================
