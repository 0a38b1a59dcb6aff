----------------------------- MODULE PetBattle -----------------------------
(***************************************************************************)
(* Two pets that battle over the board-to-board link (App/TamaApp.cc).     *)
(* Each badge repeats its whole packet every 500 ms and acts on the last   *)
(* different packet it has seen: both accept the invitation, both play the *)
(* same reaction game (the QTE), both send their score and each decides by *)
(* itself who won.  Nothing is acknowledged.                               *)
(*                                                                         *)
(* The game in single player is modelled as far as it shares state with    *)
(* the battle: training plays the same QTE, steps and training raise the   *)
(* level, hunger and healing set the hit points.  Pets are hatched.        *)
(* Abstracted: the display, the pet's type, the badge id and the nonce of  *)
(* a packet, which decide nothing; the moves of the QTE (it yields some    *)
(* score); the two levels of a pet, taken as one number.                   *)
(***************************************************************************)
EXTENDS Naturals, Sequences, FiniteSets

CONSTANTS
  Badges,     \* the two badges
  Raws,       \* what a QTE yields, short of a critical hit
  Crit,       \* CRITICAL_HIT_SCORE
  Frames,     \* frames a picture is shown (8)
  MaxHp,      \* the hit points of a healthy pet (3)
  MaxLevel,   \* the highest level
  Prize,      \* levels won in a battle (3)
  MaxLost,    \* assumed: packets lost in a row, to one badge
  MaxLead,    \* assumed: runs of one badge's routine between two of the other's
  MaxEntries, \* bound: entries of the app, over both badges
  MaxUpsets   \* bound: times the app is left for another, trainings, runs of the hunger and step tasks

ASSUME BadgesAssumption == IsFiniteSet(Badges) /\ Cardinality(Badges) = 2
ASSUME ScoresAssumption == Crit \in Nat \ {0} /\ Raws \subseteq 0..(Crit - 1)
ASSUME PetAssumption == {Frames, MaxHp, MaxLevel, Prize} \subseteq Nat \ {0}
ASSUME BoundsAssumption == {MaxLost, MaxLead, MaxEntries, MaxUpsets} \subseteq Nat

VARIABLES
  pet,     \* TamaApp of each badge
  wire,    \* packets sent to each badge and not parsed yet
  lost,    \* packets to each badge lost since one arrived
  lead,    \* runs of each badge's routine since the other's last one
  entries, leaves, gains,  \* what the bounds count
  verdict  \* history: the last verdict of each badge, with the two scores it is about

vars == <<pet, wire, lost, lead, entries, leaves, gains, verdict>>

Other(b) == CHOOSE c \in Badges : c # b

\* TAMA_XBOARD_STATE, in its order.
Order == <<"invite", "unavailable", "leave", "encounter", "qte", "sent_score", "end">>
Rank(state) == CHOOSE i \in DOMAIN Order : Order[i] = state
XboardStates == {Order[i] : i \in DOMAIN Order}

\* battle is a history number: the score a packet carries is that of the sender's battle-th QTE.
Packet(state) == [state |-> state, score |-> 0, battle |-> 0]
Packets == [state : XboardStates, score : 0..(Crit * MaxLevel), battle : 0..MaxEntries]

(* Whether the app is shown, and in which player_mode; whether its packet  *)
(* handler is registered; my_packet and enemy_packet; the invitation's     *)
(* choice; _frame_count, up to Frames; whether the QTE's task is enabled   *)
(* (its state is not kDone); its score; the level; hp; _state = TRAINING_  *)
(* QTE.  battles counts the scores sent.                                   *)
Pets ==
  [open : {"away", "single", "multi"}, handler : BOOLEAN, my : Packets, enemy : Packets,
   accept : BOOLEAN, frame : 0..Frames, playing : BOOLEAN, raw : Raws \cup {0, Crit},
   level : 1..MaxLevel, hp : 0..MaxHp, training : BOOLEAN, battles : 0..MaxEntries]

NoVerdict == [won |-> FALSE, mine |-> 0, theirs |-> 0, exact |-> FALSE]

Init ==
  /\ pet = [b \in Badges |->
       [open |-> "away", handler |-> FALSE, my |-> Packet("invite"), enemy |-> Packet("invite"),
        accept |-> FALSE, frame |-> 0, playing |-> FALSE, raw |-> 0,
        level |-> 1, hp |-> MaxHp, training |-> FALSE, battles |-> 0]]
  /\ wire = [b \in Badges |-> <<>>]
  /\ lost = [b \in Badges |-> 0]
  /\ lead = [b \in Badges |-> 0]
  /\ entries = 0 /\ leaves = 0 /\ gains = 0
  /\ verdict = [b \in Badges |-> NoVerdict]

----------------------------------------------------------------------------
Least(m, n) == IF m < n THEN m ELSE n

\* The score of the last QTE, at the level the pet has now.
GetScore(p) == IF p.raw = Crit THEN Crit ELSE p.raw * p.level

(* Mutant of Gained: no upper limit. *)
GainedUnbounded(p, n) == [p EXCEPT !.level = @ + n]

(* SetQteLevel and SetStepLevel. *)
Gained(p, n) == [p EXCEPT !.level = Least(@ + n, MaxLevel)]

\* SetMultiplayer and OnEntry: a weak pet is not available.
EnterMulti(p) ==
  [p EXCEPT !.open = "multi", !.handler = TRUE, !.accept = FALSE, !.frame = 0,
            !.my = Packet(IF p.hp = 0 THEN "unavailable" ELSE "invite"),
            !.enemy = Packet("invite")]

EnterSingle(p) == [p EXCEPT !.open = "single", !.frame = 0, !.training = FALSE]

\* OnExit: with my_packet in the QTE, the QTE is stopped.  The next entry resets _frame_count.
Exit(p) == [p EXCEPT !.open = "away", !.frame = 0, !.playing = @ /\ p.my.state # "qte"]

\* Not on the invitation: nothing tests _frame_count there, and OK resets it.
Render(p) == [p EXCEPT !.frame = Least(@ + 1, Frames)]

SentScore(p) ==
  [p EXCEPT !.my = [state |-> "sent_score", score |-> GetScore(p), battle |-> p.battles + 1],
            !.battles = @ + 1, !.frame = 0]

(* Mutant of Won: a tie is won. *)
WonOnTie(p) == GetScore(p) >= p.enemy.score

Won(p) == GetScore(p) > p.enemy.score

\* The verdict, and what it does to the pet.
Judged(p) ==
  LET shown == [p EXCEPT !.my.state = "end", !.frame = 0]
  IN IF p.enemy.score = Crit THEN [shown EXCEPT !.hp = 0]
     ELSE IF Won(p) THEN Gained(shown, Prize)
     ELSE [shown EXCEPT !.hp = IF @ = 0 THEN 0 ELSE @ - 1]

(* A score was sent, and the enemy's has come. *)
Judges(p) == p.my.state = "sent_score" /\ Rank(p.enemy.state) >= Rank("sent_score")

(* Mutant of Accepted: an enemy that has begun the QTE does not count. *)
AcceptedNow(p) == p.enemy.state = "encounter"

(* The enemy has accepted too, or is further already. *)
Accepted(p) == Rank(p.enemy.state) >= Rank("encounter")

\* What XbRoutine does after it has sent the packet.
XbRoutine(p) ==
  IF p.my.state \in {"unavailable", "leave", "invite"} \/ p.enemy.state = "unavailable" THEN p
  ELSE CASE p.my.state = "encounter" ->
              IF ~Accepted(p) THEN p
              ELSE IF p.frame >= Frames THEN [p EXCEPT !.my.state = "qte", !.playing = TRUE]
              ELSE Render(p)
         [] p.my.state = "qte" -> IF p.playing THEN p ELSE SentScore(p)
         [] p.my.state = "sent_score" -> IF Judges(p) THEN Render(Judged(p)) ELSE p
         [] p.my.state = "end" -> IF p.frame >= Frames THEN Exit(p) ELSE Render(p)

(* OnXBoardRecv: a packet with the state seen last is ignored; one of a    *)
(* pet that left or is not available ends this side's battle too.          *)
OnXBoardRecv(p, packet) ==
  IF packet.state = p.enemy.state THEN p
  ELSE LET seen == [p EXCEPT !.enemy = packet]
       IN CASE packet.state \in {"encounter", "sent_score"} -> [seen EXCEPT !.frame = 0]
            [] packet.state \in {"leave", "unavailable"} -> [seen EXCEPT !.my.state = packet.state]
            [] OTHER -> seen

----------------------------------------------------------------------------
Become(b, p) == pet' = [pet EXCEPT ![b] = p]

Link == <<wire, lost, lead>>
Counts == <<entries, leaves, gains>>

Enter(b) ==
  /\ pet[b].open = "away"
  /\ entries < MaxEntries
  /\ entries' = entries + 1
  /\ Become(b, EnterMulti(pet[b])) \/ Become(b, EnterSingle(pet[b]))
  /\ lead' = [c \in Badges |-> 0]
  /\ UNCHANGED <<wire, lost, leaves, gains, verdict>>

(* The routine in multiplayer: the packet, as it was, then the routine.    *)
(* The other badge parses every 20 ms, so its wire is empty by now, and    *)
(* its own routine has the same period.                                    *)
Routine(b) ==
  LET p == pet[b]
      c == Other(b)
  IN /\ p.open = "multi"
     /\ wire[c] = <<>>
     /\ pet[c].open = "multi" => lead[b] < MaxLead
     /\ lead' = [lead EXCEPT ![b] = IF pet[c].open = "multi" THEN @ + 1 ELSE 0, ![c] = 0]
     /\ \/ /\ wire' = [wire EXCEPT ![c] = <<p.my>>]
           /\ lost' = [lost EXCEPT ![c] = 0]
        \/ /\ lost[c] < MaxLost
           /\ lost' = [lost EXCEPT ![c] = @ + 1]
           /\ UNCHANGED wire
     /\ Become(b, XbRoutine(p))
     /\ verdict' = IF p.enemy.state # "unavailable" /\ Judges(p)
                   THEN [verdict EXCEPT ![b] =
                           [won |-> Won(p), mine |-> p.my.battle, theirs |-> p.enemy.battle,
                            exact |-> GetScore(p) = p.my.score]]
                   ELSE verdict
     /\ UNCHANGED Counts

Receive(b) ==
  /\ wire[b] # <<>>
  /\ Become(b, IF pet[b].handler THEN OnXBoardRecv(pet[b], Head(wire[b])) ELSE pet[b])
  /\ wire' = [wire EXCEPT ![b] = Tail(@)]
  /\ UNCHANGED <<lost, lead, Counts, verdict>>

\* LEFT and RIGHT on the invitation.
Choose(b) ==
  /\ pet[b].open = "multi"
  /\ pet[b].my.state = "invite"
  /\ \E accept \in BOOLEAN : Become(b, [pet[b] EXCEPT !.accept = accept])
  /\ UNCHANGED <<Link, Counts, verdict>>

OK(b) ==
  /\ pet[b].open = "multi"
  /\ pet[b].my.state = "invite"
  /\ Become(b, [pet[b] EXCEPT !.my.state = IF pet[b].accept THEN "encounter" ELSE "leave", !.frame = 0])
  /\ UNCHANGED <<Link, Counts, verdict>>

\* The fifth round of the QTE is over: the score is saved and the task disabled.
QteDone(b) ==
  /\ pet[b].playing
  /\ \E raw \in Raws \cup {Crit} : Become(b, [pet[b] EXCEPT !.playing = FALSE, !.raw = raw])
  /\ UNCHANGED <<Link, Counts, verdict>>

(* Another app takes over: BACK, a lost connection, a text.  BACK stops    *)
(* the QTE of a training; a change of app does not.                        *)
Leave(b) ==
  /\ pet[b].open # "away"
  /\ leaves + gains < MaxUpsets
  /\ leaves' = leaves + 1
  /\ \/ Become(b, Exit(pet[b]))
     \/ /\ pet[b].open = "single" /\ pet[b].training
        /\ Become(b, Exit([pet[b] EXCEPT !.playing = FALSE]))
  /\ UNCHANGED <<Link, entries, gains, verdict>>

----------------------------------------------------------------------------
\* The pet in single player: training plays the QTE, and its routine sees the end of it.
Train(b) ==
  /\ pet[b].open = "single" /\ ~pet[b].training
  /\ pet[b].hp > 0
  /\ leaves + gains < MaxUpsets
  /\ gains' = gains + 1
  /\ Become(b, [pet[b] EXCEPT !.training = TRUE, !.playing = TRUE])
  /\ UNCHANGED <<Link, entries, leaves, verdict>>

TrainingEnd(b) ==
  /\ pet[b].open = "single" /\ pet[b].training /\ ~pet[b].playing
  /\ \E n \in {0, 1, 10} : Become(b, Gained([pet[b] EXCEPT !.training = FALSE], n))
  /\ UNCHANGED <<Link, Counts, verdict>>

Heal(b) ==
  /\ pet[b].open = "single" /\ ~pet[b].training
  /\ Become(b, [pet[b] EXCEPT !.hp = MaxHp])
  /\ UNCHANGED <<Link, Counts, verdict>>

(* The tasks that run whatever app is shown.  Starving redraws the picture *)
(* and so resets _frame_count; a level gained does if the level was shown  *)
(* when the app was last left in single player.                            *)
HungerRoutine(b) ==
  /\ pet[b].hp > 0
  /\ leaves + gains < MaxUpsets
  /\ gains' = gains + 1
  /\ Become(b, [pet[b] EXCEPT !.hp = 0, !.frame = 0])
  /\ UNCHANGED <<Link, entries, leaves, verdict>>

LevelUpRoutine(b) ==
  /\ pet[b].hp > 0
  /\ leaves + gains < MaxUpsets
  /\ gains' = gains + 1
  /\ \E frame \in {0, pet[b].frame} : Become(b, Gained([pet[b] EXCEPT !.frame = frame], 1))
  /\ UNCHANGED <<Link, entries, leaves, verdict>>

Next ==
  \E b \in Badges :
    \/ Enter(b)
    \/ Routine(b)
    \/ Receive(b)
    \/ Choose(b)
    \/ OK(b)
    \/ QteDone(b)
    \/ Leave(b)
    \/ Train(b)
    \/ TrainingEnd(b)
    \/ Heal(b)
    \/ HungerRoutine(b)
    \/ LevelUpRoutine(b)

Spec == Init /\ [][Next]_vars

FairSpec ==
  Spec /\ \A b \in Badges : WF_vars(Routine(b)) /\ WF_vars(Receive(b)) /\ WF_vars(QteDone(b))

----------------------------------------------------------------------------
(* The types of the variables: hit points and level stay in what IsDataValid accepts. *)
PetTypeOK ==
  /\ pet \in [Badges -> Pets]
  /\ wire \in [Badges -> Seq(Packets)]
  /\ \A b \in Badges : Len(wire[b]) <= 1
  /\ lost \in [Badges -> 0..MaxLost]
  /\ lead \in [Badges -> 0..MaxLead]
  /\ entries \in 0..MaxEntries /\ leaves \in 0..MaxUpsets /\ gains \in 0..MaxUpsets
  /\ verdict \in [Badges -> [won : BOOLEAN, mine : 0..MaxEntries, theirs : 0..MaxEntries, exact : BOOLEAN]]

(* Two badges that decided on the same two scores, each by itself and at   *)
(* its own time, do not both win.  exact leaves out a badge whose score at *)
(* its level had changed since it was sent: XbRoutine computes it again,   *)
(* so a level gained in between can make both win.                         *)
VerdictsAgree ==
  \A b, c \in Badges :
    LET v == verdict[b]
        w == verdict[c]
    IN b # c /\ v.mine > 0 /\ v.mine = w.theirs /\ v.theirs = w.mine /\ v.exact /\ w.exact
       => ~(v.won /\ w.won)

InBattle(b) == pet[b].open = "multi" /\ pet[b].my.state \in {"encounter", "qte", "sent_score"}

(* A battle both have accepted comes to an end on both badges, unless one  *)
(* is left, although packets are lost and the first to finish shows its    *)
(* result for a number of frames only and then stops sending: repeating    *)
(* the packet is enough.                                                   *)
BattleEnds ==
  (\A b \in Badges : InBattle(b)) ~> (\A b \in Badges : ~InBattle(b)) \/ leaves > 0
============================================================================
