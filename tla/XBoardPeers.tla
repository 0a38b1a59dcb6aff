---------------------------- MODULE XBoardPeers ----------------------------
(***************************************************************************)
(* Logic/XBoardLogic.cc above the packets: every board sends a ping every  *)
(* 200 ms, answers a ping with the pong of its kind, and tells by the      *)
(* pongs it gets which kind of device is at the other end of the cable.    *)
(* Connecting takes a blocker of the suspender, disconnecting gives it     *)
(* back, so a board that stayed connected for ever could never erase its   *)
(* flash again.                                                            *)
(*                                                                         *)
(* Time is kept by the order of the rounds (runs of PingRoutine).  A       *)
(* packet needs some 30 ms to be sent and parsed.  With rounds 200 ms      *)
(* apart, give or take 80 ms, no board has two rounds while a packet is on *)
(* its way, the round that sent it included, and from a round of one board *)
(* until the packets of its next one have arrived the other board has at   *)
(* most MaxRounds = 2.  Their clocks may drift apart as they like.         *)
(***************************************************************************)
EXTENDS Integers, Sequences

CONSTANTS
  Boards,
  Cables,      (* the pairs of boards that may be connected                *)
  Kind,        (* SELF_PONG_TYPE of each board, as a PeerType              *)
  PeerType,    (* the PeerTypes but None                                   *)
  None,
  MaxRounds,   (* rounds of a board between two of the other one           *)
  MaxEvents    (* bound on the cables plugged in and the packets lost      *)

kMissed  == 3  (* rounds without a pong until a peer is taken for gone     *)
MaxStale == 4  (* rounds a board may keep a peer that is not there         *)

ASSUME PeersAssumption ==
  /\ \A c \in Cables : \E b, d \in Boards : b # d /\ c = {b, d}
  /\ Kind \in [Boards -> PeerType]
  /\ None \notin PeerType /\ "ping" \notin PeerType
  /\ MaxRounds \in Nat \ {0} /\ MaxEvents \in Nat

VARIABLES
  cable,     (* the two boards it connects, {} when unplugged              *)
  since,     (* rounds of a cabled board since the last one of the other   *)
  before,    (* rounds of a cabled board between the last two of the other *)
  chan,      (* the packets on their way to each board or in its rx_queue; *)
             (* each with the boards that had a round since it was sent    *)
  recvPing,  (* recv_ping                                                  *)
  flags,     (* recv_pong_flags, as the set of the PeerTypes               *)
  noPong,    (* no_pong_count                                              *)
  peer,      (* peer                                                       *)
  blockers,  (* Suspender::blockers_ of each board                         *)
  events,    (* cables plugged in and packets lost so far                  *)
  stale,     (* auxiliary: rounds since the cable was changed after which  *)
             (* the board had a peer that is not at the other end          *)
  link       (* auxiliary: how long the cable has been left alone and no   *)
             (* packet lost.  "touched": the board had no round since;     *)
             (* "settling": it had; "calm": one round, not the first, has  *)
             (* heard the device at the other end                          *)

envVars  == <<cable, events>>
peerVars == <<cable, since, before, chan, recvPing, flags, noPong, peer, blockers,
              events, stale, link>>

(* Boards that were on for three rounds before a cable is first plugged in. *)
Init ==
  /\ cable = {}
  /\ since = [b \in Boards |-> 0] /\ before = [b \in Boards |-> 0]
  /\ chan = [b \in Boards |-> <<>>]
  /\ recvPing = [b \in Boards |-> FALSE]
  /\ flags = [b \in Boards |-> {}]
  /\ noPong = [b \in Boards |-> kMissed]
  /\ peer = [b \in Boards |-> None]
  /\ blockers = [b \in Boards |-> 0]
  /\ events = 0
  /\ stale = [b \in Boards |-> 0]
  /\ link = [b \in Boards |-> "touched"]

-----------------------------------------------------------------------------
(* ParsePacket: a ping or a pong sets a flag for the next round. *)
Parse(b) ==
  /\ chan[b] # <<>>
  /\ chan' = [chan EXCEPT ![b] = Tail(@)]
  /\ LET what == Head(chan[b]).what IN
       IF what = "ping"
         THEN recvPing' = [recvPing EXCEPT ![b] = TRUE] /\ UNCHANGED flags
         ELSE flags' = [flags EXCEPT ![b] = @ \cup {what}] /\ UNCHANGED recvPing
  /\ UNCHANGED <<envVars, since, before, noPong, peer, blockers, stale, link>>

-----------------------------------------------------------------------------
(* PingRoutine.                                                            *)

(* SendPing, and SendPeerPong when CheckPing finds a ping. *)
Sends(b) ==
  LET packet(w) == [what |-> w, crossed |-> {}]
  IN  <<packet("ping")>> \o (IF recvPing[b] THEN <<packet(Kind[b])>> ELSE <<>>)

(* Every packet on its way now has this round behind it. *)
Crossed(b, c) == [i \in DOMAIN c |-> [c[i] EXCEPT !.crossed = @ \cup {b}]]

InTime(b) ==
  /\ \A d \in Boards : \A i \in DOMAIN chan[d] : b \notin chan[d][i].crossed
  /\ since[b] < MaxRounds
  /\ chan[b] # <<>> => before[b] < MaxRounds

(* The pong that counts: the only kind received, and the kind connected to *)
(* if there is one. *)
ValidPong(b) ==
  {k \in flags[b] : flags[b] = {k} /\ peer[b] \in {None, k}}

(* Mutant of Missed: pongs do not reset the count. *)
MissedEver(b) == IF noPong[b] < kMissed THEN noPong[b] + 1 ELSE kMissed

(* Mutant of Missed: the count is not stopped at three. *)
MissedUncapped(b) ==
  IF ValidPong(b) # {} THEN 0
  ELSE IF noPong[b] <= kMissed THEN noPong[b] + 1 ELSE noPong[b]

(* no_pong_count after CheckPong. *)
Missed(b) ==
  IF ValidPong(b) # {} THEN 0
  ELSE IF noPong[b] < kMissed THEN noPong[b] + 1 ELSE noPong[b]

(* Mutant of NextPeer: off by one, three rounds are not enough. *)
NextPeerLate(b) ==
  IF ValidPong(b) # {} THEN CHOOSE k \in ValidPong(b) : TRUE
  ELSE IF Missed(b) > kMissed THEN None ELSE peer[b]

(* Mutant of NextPeer: two rounds without a pong are enough. *)
NextPeerEarly(b) ==
  IF ValidPong(b) # {} THEN CHOOSE k \in ValidPong(b) : TRUE
  ELSE IF Missed(b) >= kMissed - 1 THEN None ELSE peer[b]

NextPeer(b) ==
  IF ValidPong(b) # {} THEN CHOOSE k \in ValidPong(b) : TRUE
  ELSE IF Missed(b) >= kMissed THEN None ELSE peer[b]

AtOtherEnd(b) == IF b \in cable THEN Kind[CHOOSE d \in cable : d # b] ELSE None

(* Mutant of Connects: counts a blocker on every valid pong. *)
ConnectsAgain(b) == NextPeer(b) # None

Connects(b)    == peer[b] = None /\ NextPeer(b) # None
Disconnects(b) == peer[b] # None /\ NextPeer(b) = None

(* The round gets a valid pong, of the kind at the other end. *)
Hears(b) == b \in cable /\ ValidPong(b) = {AtOtherEnd(b)}

Ping(b) ==
  /\ InTime(b)
  /\ chan' = [d \in Boards |->
       Crossed(b, chan[d] \o (IF b \in cable /\ d \in cable \ {b} THEN Sends(b)
                              ELSE <<>>))]
  /\ since' = [d \in Boards |-> IF b \in cable /\ d = b THEN since[d] + 1
                                ELSE IF b \in cable /\ d \in cable THEN 0 ELSE since[d]]
  /\ before' = [d \in Boards |-> IF b \in cable /\ d \in cable \ {b} THEN since[d]
                                 ELSE before[d]]
  /\ recvPing' = [recvPing EXCEPT ![b] = FALSE]
  /\ flags' = [flags EXCEPT ![b] = {}]
  /\ noPong' = [noPong EXCEPT ![b] = Missed(b)]
  /\ peer' = [peer EXCEPT ![b] = NextPeer(b)]
  /\ blockers' = [blockers EXCEPT ![b] =
       IF Connects(b) THEN @ + 1 ELSE IF Disconnects(b) THEN @ - 1 ELSE @]
  /\ stale' = [stale EXCEPT ![b] = IF NextPeer(b) \in {None, AtOtherEnd(b)} THEN 0
                                   ELSE @ + 1]
  /\ link' = [link EXCEPT ![b] =
       IF @ # "touched" /\ (@ = "calm" \/ Hears(b)) THEN "calm" ELSE "settling"]
  /\ UNCHANGED envVars

-----------------------------------------------------------------------------
(* The cable.                                                              *)

Touched ==
  /\ stale' = [b \in Boards |-> 0]
  /\ link' = [b \in Boards |-> "touched"]
  /\ since' = [b \in Boards |-> 0] /\ before' = [b \in Boards |-> 0]

Plug(c) ==
  /\ cable = {}
  /\ events < MaxEvents
  /\ cable' = c
  /\ events' = events + 1
  /\ Touched
  /\ UNCHANGED <<chan, recvPing, flags, noPong, peer, blockers>>

(* What has reached an rx_queue stays there. *)
Unplug ==
  /\ cable # {}
  /\ cable' = {}
  /\ chan' \in [Boards -> {<<>>} \cup {chan[b] : b \in cable}]
  /\ \A b \in Boards : chan'[b] \in {<<>>, chan[b]}
  /\ Touched
  /\ UNCHANGED <<recvPing, flags, noPong, peer, blockers, events>>

Lose(b) ==
  /\ chan[b] # <<>>
  /\ events < MaxEvents
  /\ events' = events + 1
  /\ chan' = [chan EXCEPT ![b] = Tail(@)]
  /\ link' = [d \in Boards |-> "touched"]
  /\ UNCHANGED <<cable, since, before, recvPing, flags, noPong, peer, blockers, stale>>

Next ==
  \/ \E b \in Boards : Parse(b) \/ Ping(b) \/ Lose(b)
  \/ \E c \in Cables : Plug(c)
  \/ Unplug

Spec == Init /\ [][Next]_peerVars

(* The periodic tasks of every board run, either before the other runs     *)
(* twice.  Nobody has to plug or unplug. *)
FairSpec ==
  /\ Spec
  /\ \A b \in Boards : WF_peerVars(Parse(b) \/ Ping(b))

-----------------------------------------------------------------------------
(* The types of the variables. *)
Packet == [what : {"ping"} \cup PeerType, crossed : SUBSET Boards]

PeersTypeOK ==
  /\ cable \subseteq Boards /\ events \in 0 .. MaxEvents
  /\ since \in [Boards -> 0 .. MaxRounds] /\ before \in [Boards -> 0 .. MaxRounds]
  /\ chan \in [Boards -> Seq(Packet)]
  /\ recvPing \in [Boards -> BOOLEAN]
  /\ flags \in [Boards -> SUBSET PeerType]
  /\ noPong \in [Boards -> 0 .. kMissed]
  /\ peer \in [Boards -> PeerType \cup {None}]
  /\ blockers \in [Boards -> {0, 1}]
  /\ DOMAIN stale = Boards
  /\ link \in [Boards -> {"touched", "settling", "calm"}]

(* When the cable is changed a board takes a device for its peer that is   *)
(* no longer at the other end for MaxStale rounds (0.8 s) at most: neither *)
(* packets that were still on their way nor a device of another kind       *)
(* plugged in at once keep the old connection alive. *)
PeerIsReal == \A b \in Boards : stale[b] <= MaxStale

(* A board that is connected holds exactly one blocker, one that is not    *)
(* holds none. *)
BlockersMatchPeer ==
  \A b \in Boards : blockers[b] = IF peer[b] = None THEN 0 ELSE 1

(* Jitter alone never ends a connection: rounds in which no pong arrives   *)
(* happen between two boards with clocks of their own, three in a row do   *)
(* not, from the second round after the cable was touched on that heard    *)
(* the other end.  (Before, the pong may be one a device of that kind had  *)
(* sent before the cable was moved, and a board that is connected may      *)
(* already have missed two.)  And applications never see one peer turn     *)
(* into another.                                                           *)
StaysConnected ==
  [][\A b \in Boards :
       /\ link[b] = "calm" => peer'[b] = peer[b]
       /\ peer'[b] # peer[b] => None \in {peer'[b], peer[b]}]_peerVars

(* Once the cable is left alone (MaxEvents is a bound on the times it is   *)
(* not), two boards that are plugged together both know each other, and    *)
(* one that is alone has given its blocker back. *)
PeersSettle ==
  <>[](\A b \in Boards : IF b \in cable THEN peer[b] = AtOtherEnd(b)
                         ELSE blockers[b] = 0)

=============================================================================
