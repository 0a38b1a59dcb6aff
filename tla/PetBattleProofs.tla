-------------------------- MODULE PetBattleProofs --------------------------
(***************************************************************************)
(* Proofs about PetBattle, for any scores of a QTE, any level, hit points, *)
(* frames, and any number of battles, packets lost and upsets.             *)
(*                                                                         *)
(* What a badge knows of the other's score is a copy of a packet it sent   *)
(* once: the invariant says that all copies of the packet with the score   *)
(* of a battle carry the same score, whether on the wire, received, or     *)
(* behind a verdict.                                                       *)
(***************************************************************************)
EXTENDS PetBattle, FiniteSetTheorems, SequenceTheorems, TLAPS

----------------------------------------------------------------------------
(* The constants.                                                          *)

(* There are exactly two badges, each the other's enemy. *)
LEMMA TwoBadges ==
  ASSUME NEW b \in Badges
  PROVE  /\ Other(b) \in Badges /\ Other(b) # b
         /\ \A c \in Badges : c # b => c = Other(b)
<1>1. /\ IsFiniteSet(Badges \ {b})
      /\ Cardinality(Badges \ {b}) = 1
  BY BadgesAssumption, FS_RemoveElement
<1>2. PICK c : Badges \ {b} = {c}
  BY <1>1, FS_Singleton
<1> QED  BY <1>2 DEF Other

(* The numbers. *)
LEMMA Numbers ==
  /\ Frames \in Nat \ {0} /\ MaxHp \in Nat \ {0} /\ MaxLevel \in Nat \ {0}
  /\ Prize \in Nat \ {0}
  /\ MaxLost \in Nat /\ MaxLead \in Nat /\ MaxEntries \in Nat /\ MaxUpsets \in Nat
  /\ Crit \in Nat \ {0} /\ \A r \in Raws : r \in 0..(Crit - 1)
BY ScoresAssumption, PetAssumption, BoundsAssumption

LEMMA StateNames ==
  XboardStates = {"invite", "unavailable", "leave", "encounter", "qte", "sent_score", "end"}
BY DEF XboardStates, Order

(* A score at any level is one a packet can carry. *)
LEMMA ScoreRange ==
  ASSUME NEW p \in Pets
  PROVE  GetScore(p) \in 0..(Crit * MaxLevel)
<1>1. /\ p.level \in 1..MaxLevel /\ p.raw \in Nat /\ p.raw <= Crit
  BY Numbers DEF Pets
<1> DEFINE l == p.level
           r == p.raw
<1>2. l \in Nat /\ r \in Nat /\ r <= Crit /\ 1 <= l /\ l <= MaxLevel
  BY <1>1, Numbers
<1> HIDE DEF l, r
<1>3. /\ r * l \in Nat /\ Crit * l \in Nat /\ Crit * MaxLevel \in Nat
  BY <1>2, Numbers
<1>4. r * l <= Crit * l
  BY <1>2, Numbers
<1>5. Crit * l <= Crit * MaxLevel
  BY <1>2, Numbers
<1>6. Crit <= Crit * l
  BY <1>2, Numbers
<1>7. r * l \in 0..(Crit * MaxLevel) /\ Crit \in 0..(Crit * MaxLevel)
  BY <1>3, <1>4, <1>5, <1>6, Numbers
<1> QED  BY <1>7 DEF GetScore, l, r

----------------------------------------------------------------------------
(* What an operation may do to a pet.                                      *)

(* The badge has still a score to send in the battle it is in. *)
Pending(p) ==
  IF p.open = "multi" /\ p.my.state \in {"invite", "encounter", "qte"} THEN 1 ELSE 0

(* The scores sent and seen stay; none becomes pending. *)
Kept(p, q) ==
  /\ q \in Pets
  /\ q.battles = p.battles
  /\ q.enemy = p.enemy
  /\ q.my.battle = p.my.battle /\ q.my.score = p.my.score
  /\ q.my.state = "sent_score" => p.my.state = "sent_score"
  /\ Pending(q) <= Pending(p)

LEMMA PendingRange == \A p : Pending(p) \in {0, 1}
BY DEF Pending

LEMMA KeptItself ==
  ASSUME NEW p \in Pets
  PROVE  Kept(p, p)
BY PendingRange DEF Kept

LEMMA KeptTwice ==
  ASSUME NEW p, NEW q, NEW r, Kept(p, q), Kept(q, r)
  PROVE  Kept(p, r)
BY PendingRange DEF Kept

(* A change of the fields that no packet shows. *)
LEMMA KeptFields ==
  ASSUME NEW p \in Pets
  PROVE  /\ \A f \in 0..Frames : Kept(p, [p EXCEPT !.frame = f])
         /\ \A l \in 1..MaxLevel : Kept(p, [p EXCEPT !.level = l])
         /\ \A h \in 0..MaxHp : Kept(p, [p EXCEPT !.hp = h])
         /\ \A a \in BOOLEAN : Kept(p, [p EXCEPT !.accept = a])
         /\ \A t \in BOOLEAN : Kept(p, [p EXCEPT !.training = t])
         /\ \A r \in Raws \cup {0, Crit} : Kept(p, [p EXCEPT !.raw = r])
<1>1. \A f \in 0..Frames : Kept(p, [p EXCEPT !.frame = f])
  BY DEF Kept, Pets, Pending
<1>2. \A l \in 1..MaxLevel : Kept(p, [p EXCEPT !.level = l])
  BY DEF Kept, Pets, Pending
<1>3. \A h \in 0..MaxHp : Kept(p, [p EXCEPT !.hp = h])
  BY DEF Kept, Pets, Pending
<1>4. \A a \in BOOLEAN : Kept(p, [p EXCEPT !.accept = a])
  BY DEF Kept, Pets, Pending
<1>5. \A t \in BOOLEAN : Kept(p, [p EXCEPT !.training = t])
  BY DEF Kept, Pets, Pending
<1>6. \A r \in Raws \cup {0, Crit} : Kept(p, [p EXCEPT !.raw = r])
  BY DEF Kept, Pets, Pending
<1> QED  BY <1>1, <1>2, <1>3, <1>4, <1>5, <1>6

(* The QTE starts or stops. *)
LEMMA KeptPlaying ==
  ASSUME NEW p \in Pets, NEW t \in BOOLEAN
  PROVE  Kept(p, [p EXCEPT !.playing = t])
BY DEF Kept, Pets, Pending

(* The app is left, or shown in single player. *)
LEMMA KeptOpen ==
  ASSUME NEW p \in Pets, NEW o \in {"away", "single"}
  PROVE  Kept(p, [p EXCEPT !.open = o])
BY DEF Kept, Pets, Pending

(* A battle goes on towards the QTE, or to its end. *)
LEMMA KeptState ==
  ASSUME NEW p \in Pets, NEW s \in XboardStates, s # "sent_score",
         \/ s \in {"unavailable", "leave", "end"}
         \/ p.my.state \in {"invite", "encounter"} /\ s \in {"encounter", "qte"}
  PROVE  Kept(p, [p EXCEPT !.my.state = s])
<1> DEFINE q == [p EXCEPT !.my.state = s]
<1>1. /\ p.my \in Packets /\ q.my = [p.my EXCEPT !.state = s]
      /\ q.open = p.open /\ q.battles = p.battles /\ q.enemy = p.enemy
  BY DEF Pets
<1>2. q.my \in Packets /\ q.my.state = s /\ q.my.score = p.my.score /\ q.my.battle = p.my.battle
  BY <1>1 DEF Packets
<1>3. q \in Pets
  BY <1>1, <1>2 DEF Pets
<1>4. Pending(q) <= Pending(p)
  BY <1>1, <1>2 DEF Pending
<1> QED  BY <1>1, <1>2, <1>3, <1>4 DEF Kept

LEMMA LeastOf ==
  ASSUME NEW m \in Nat, NEW n \in Nat
  PROVE  Least(m, n) \in Nat /\ Least(m, n) <= n /\ Least(m, n) <= m
         /\ (Least(m, n) = m \/ Least(m, n) = n)
BY DEF Least

LEMMA KeptRender ==
  ASSUME NEW p \in Pets
  PROVE  Kept(p, Render(p))
<1>1. p.frame \in 0..Frames
  BY DEF Pets
<1>2. Least(p.frame + 1, Frames) \in 0..Frames
  BY <1>1, LeastOf, Numbers
<1>3. Render(p) = [p EXCEPT !.frame = Least(p.frame + 1, Frames)]
  BY DEF Render
<1> QED  BY <1>2, <1>3, KeptFields

LEMMA KeptGained ==
  ASSUME NEW p \in Pets, NEW n \in Nat
  PROVE  Kept(p, Gained(p, n))
<1>1. p.level \in Nat /\ p.level >= 1
  BY Numbers DEF Pets
<1>2. Least(p.level + n, MaxLevel) \in 1..MaxLevel
  BY <1>1, LeastOf, Numbers DEF Least
<1>3. Gained(p, n) = [p EXCEPT !.level = Least(p.level + n, MaxLevel)]
  BY DEF Gained
<1> QED  BY <1>2, <1>3, KeptFields

LEMMA KeptExit ==
  ASSUME NEW p \in Pets
  PROVE  Kept(p, Exit(p))
<1> DEFINE t == p.playing /\ p.my.state # "qte"
           p1 == [p EXCEPT !.open = "away"]
           p2 == [p1 EXCEPT !.frame = 0]
           p3 == [p2 EXCEPT !.playing = t]
<1>1. Kept(p, p1) /\ p1 \in Pets
  BY KeptOpen DEF Kept
<1>2. Kept(p1, p2) /\ p2 \in Pets
  <2> HIDE DEF p1
  <2>1. 0 \in 0..Frames
    BY Numbers
  <2>2. Kept(p1, p2)
    BY <1>1, <2>1, KeptFields
  <2> QED  BY <2>2 DEF Kept
<1>3. t \in BOOLEAN
  BY DEF Pets
<1>4. Kept(p2, p3)
  BY <1>2, <1>3, KeptPlaying
<1>5. Exit(p) = p3
  BY DEF Exit, Pets
<1> HIDE DEF p1, p2, p3
<1> QED  BY <1>1, <1>2, <1>4, <1>5, KeptTwice

LEMMA KeptJudged ==
  ASSUME NEW p \in Pets
  PROVE  Kept(p, Judged(p))
<1> DEFINE p1 == [p EXCEPT !.my.state = "end"]
           shown == [p EXCEPT !.my.state = "end", !.frame = 0]
<1>1. Kept(p, p1) /\ p1 \in Pets
  BY KeptState, StateNames DEF Kept
<1>2. shown = [p1 EXCEPT !.frame = 0]
  OBVIOUS
<1>3. Kept(p1, shown) /\ shown \in Pets
  <2> HIDE DEF p1, shown
  <2>1. 0 \in 0..Frames
    BY Numbers
  <2>2. Kept(p1, shown)
    BY <1>1, <1>2, <2>1, KeptFields
  <2> QED  BY <2>2 DEF Kept
<1>4. Kept(p, shown)
  BY <1>1, <1>3, KeptTwice
<1>5. shown.hp \in 0..MaxHp
  BY <1>3 DEF Pets
<1>6. Judged(p) \in {[shown EXCEPT !.hp = 0], Gained(shown, Prize),
                     [shown EXCEPT !.hp = IF shown.hp = 0 THEN 0 ELSE shown.hp - 1]}
  BY DEF Judged
<1> HIDE DEF shown
<1>7. Kept(shown, [shown EXCEPT !.hp = 0])
  BY <1>3, KeptFields, Numbers
<1>8. Kept(shown, [shown EXCEPT !.hp = IF shown.hp = 0 THEN 0 ELSE shown.hp - 1])
  <2>1. (IF shown.hp = 0 THEN 0 ELSE shown.hp - 1) \in 0..MaxHp
    BY <1>5, Numbers
  <2> QED  BY <2>1, <1>3, KeptFields
<1>9. Kept(shown, Gained(shown, Prize))
  BY <1>3, KeptGained, Numbers
<1>10. Kept(shown, Judged(p))
  BY <1>6, <1>7, <1>8, <1>9
<1> QED  BY <1>4, <1>10, KeptTwice

(* The routine sends a score when the QTE is over, and only then does what *)
(* the badge sends change otherwise than towards the end. *)
LEMMA KeptXbRoutine ==
  ASSUME NEW p \in Pets, ~ (p.my.state = "qte" /\ ~ p.playing /\ p.enemy.state # "unavailable")
  PROVE  Kept(p, XbRoutine(p))
<1> DEFINE pq == [p EXCEPT !.my.state = "qte"]
<1>1. p.my.state \in XboardStates
  BY DEF Pets, Packets
<1>2. CASE p.my.state = "encounter" /\ p.frame >= Frames
  <2>1. Kept(p, pq) /\ pq \in Pets
    BY <1>2, KeptState, StateNames DEF Kept
  <2>2. Kept(pq, [pq EXCEPT !.playing = TRUE])
    BY <2>1, KeptPlaying
  <2>3. XbRoutine(p) \in {p, [p EXCEPT !.my.state = "qte", !.playing = TRUE]}
    BY <1>2 DEF XbRoutine
  <2>4. [p EXCEPT !.my.state = "qte", !.playing = TRUE] = [pq EXCEPT !.playing = TRUE]
    OBVIOUS
  <2>5. Kept(p, [pq EXCEPT !.playing = TRUE])
    BY <2>1, <2>2, KeptTwice
  <2>6. Kept(p, p)
    BY KeptItself
  <2> QED  BY <2>3, <2>4, <2>5, <2>6
<1>3. CASE ~ (p.my.state = "encounter" /\ p.frame >= Frames)
  <2>1. XbRoutine(p) \in {p, Render(Judged(p)), Exit(p), Render(p)}
    BY <1>1, <1>3, StateNames DEF XbRoutine
  <2>2. Kept(p, Render(Judged(p)))
    <3>1. Judged(p) \in Pets
      BY KeptJudged DEF Kept
    <3>2. Kept(Judged(p), Render(Judged(p)))
      BY <3>1, KeptRender
    <3> QED  BY <3>2, KeptJudged, KeptTwice
  <2> QED  BY <2>1, <2>2, KeptItself, KeptExit, KeptRender
<1> QED  BY <1>2, <1>3

(* The score is that of the QTE just over, under a number of its own. *)
LEMMA ScoreSent ==
  ASSUME NEW p \in Pets, p.battles < MaxEntries
  PROVE  /\ SentScore(p) \in Pets
         /\ SentScore(p).battles = p.battles + 1
         /\ SentScore(p).enemy = p.enemy
         /\ SentScore(p).my = [state |-> "sent_score", score |-> GetScore(p),
                               battle |-> p.battles + 1]
         /\ Pending(SentScore(p)) = 0
<1> DEFINE k == [state |-> "sent_score", score |-> GetScore(p), battle |-> p.battles + 1]
           q == SentScore(p)
<1>1. p.battles + 1 \in 0..MaxEntries
  BY Numbers DEF Pets
<1>2. k \in Packets
  BY <1>1, ScoreRange, StateNames DEF Packets
<1>3. q = [p EXCEPT !.my = k, !.battles = p.battles + 1, !.frame = 0]
  BY DEF SentScore
<1>4. 0 \in 0..Frames
  BY Numbers
<1> HIDE DEF k, q
<1>5. q \in Pets
  BY <1>1, <1>2, <1>3, <1>4 DEF Pets
<1>6. q.battles = p.battles + 1 /\ q.enemy = p.enemy /\ q.my = k
  BY <1>3 DEF Pets
<1>7. Pending(q) = 0
  BY <1>6 DEF k, Pending
<1> QED  BY <1>5, <1>6, <1>7 DEF k, q

(* A packet received is the enemy's packet from then on, or ignored. *)
LEMMA PacketReceived ==
  ASSUME NEW p \in Pets, NEW k \in Packets
  PROVE  LET q == OnXBoardRecv(p, k)
         IN  /\ q \in Pets
             /\ q.battles = p.battles
             /\ q.enemy \in {p.enemy, k}
             /\ q.my.battle = p.my.battle /\ q.my.score = p.my.score
             /\ q.my.state = "sent_score" => p.my.state = "sent_score"
             /\ Pending(q) <= Pending(p)
<1> DEFINE seen == [p EXCEPT !.enemy = k]
           q == OnXBoardRecv(p, k)
<1>1. /\ seen \in Pets /\ seen.battles = p.battles /\ seen.enemy = k /\ seen.my = p.my
      /\ seen.open = p.open
  BY DEF Pets
<1>2. Pending(seen) = Pending(p)
  BY <1>1 DEF Pending
<1>3. \/ q = p
      \/ q = seen
      \/ q = [seen EXCEPT !.frame = 0]
      \/ k.state \in {"leave", "unavailable"} /\ q = [seen EXCEPT !.my.state = k.state]
  BY DEF OnXBoardRecv
<1> HIDE DEF seen, q
<1>4. q = p \/ Kept(seen, q)
  <2>1. Kept(seen, seen)
    BY <1>1, KeptItself
  <2>2. Kept(seen, [seen EXCEPT !.frame = 0])
    BY <1>1, KeptFields, Numbers
  <2>3. k.state \in {"leave", "unavailable"} => Kept(seen, [seen EXCEPT !.my.state = k.state])
    BY <1>1, KeptState, StateNames
  <2> QED  BY <1>3, <2>1, <2>2, <2>3
<1>5. CASE q = p
  BY <1>5, PendingRange DEF q
<1>6. CASE Kept(seen, q)
  BY <1>1, <1>2, <1>6, PendingRange DEF Kept, q
<1> QED  BY <1>4, <1>5, <1>6

(* A new battle starts with empty packets. *)
LEMMA BattleEntered ==
  ASSUME NEW p \in Pets
  PROVE  LET q == EnterMulti(p)
         IN  /\ q \in Pets
             /\ q.battles = p.battles
             /\ q.enemy = Packet("invite")
             /\ q.my \in {Packet("invite"), Packet("unavailable")}
<1> DEFINE s == IF p.hp = 0 THEN "unavailable" ELSE "invite"
           q == EnterMulti(p)
<1>1. 0 \in 0..(Crit * MaxLevel) /\ 0 \in 0..MaxEntries
  <2>1. Crit * MaxLevel \in Nat
    BY Numbers
  <2> QED  BY <2>1, Numbers
<1>2. Packet(s) \in Packets /\ Packet("invite") \in Packets
  BY <1>1, StateNames DEF Packet, Packets
<1>3. 0 \in 0..Frames
  BY Numbers
<1>4. q = [p EXCEPT !.open = "multi", !.handler = TRUE, !.accept = FALSE, !.frame = 0,
                    !.my = Packet(s), !.enemy = Packet("invite")]
  BY DEF EnterMulti
<1> HIDE DEF q
<1>5. q \in Pets
  BY <1>2, <1>3, <1>4 DEF Pets
<1>6. q.battles = p.battles /\ q.enemy = Packet("invite") /\ q.my = Packet(s)
  BY <1>4 DEF Pets
<1> QED  BY <1>5, <1>6 DEF q

----------------------------------------------------------------------------
(* The scores of the battles, and what refers to them.                     *)

(* A packet of a badge that has sent n scores, which are s[1] .. s[n]. *)
Carries(s, n, k) == k.battle <= n /\ (k.battle > 0 => k.score = s[k.battle])

(* A verdict on one of the m scores s and one of the n scores t. *)
VerdictRight(s, m, t, n, v) ==
  /\ v.mine <= m /\ v.theirs <= n
  /\ v.theirs > 0 => v.mine > 0
  /\ v.won /\ v.exact /\ v.mine > 0 /\ v.theirs > 0 => s[v.mine] > t[v.theirs]

(* S[b][n] is the score of badge b's n-th battle. *)
Scores == [Badges -> [Nat -> Nat]]

(* Every copy of a packet agrees with it, and so does every verdict. *)
PacketsAgree(S) ==
  \A b, c \in Badges : b # c =>
    /\ Carries(S[b], pet[b].battles, pet[b].my)
    /\ Carries(S[b], pet[b].battles, pet[c].enemy)
    /\ \A i \in 1..Len(wire[c]) : Carries(S[b], pet[b].battles, wire[c][i])

RecordsAgree(S) ==
  \A b, c \in Badges : b # c =>
    VerdictRight(S[b], pet[b].battles, S[c], pet[c].battles, verdict[b])

AgreeInv == \E S \in Scores : PacketsAgree(S) /\ RecordsAgree(S)

(* Every score sent, and every battle that may still send one, took an     *)
(* entry of the app. *)
CountInv ==
  /\ \A b \in Badges : pet[b].my.state = "sent_score" => pet[b].my.battle > 0
  /\ \A b, c \in Badges : b # c =>
       pet[b].battles + Pending(pet[b]) + pet[c].battles + Pending(pet[c]) <= entries

PetInv == PetTypeOK /\ CountInv /\ AgreeInv

----------------------------------------------------------------------------
(* The invariant holds and every step keeps it.                            *)

LEMMA InitPets == Init => PetInv
<1> SUFFICES ASSUME Init PROVE PetInv
  OBVIOUS
<1>1. 0 \in 0..(Crit * MaxLevel) /\ 0 \in 0..MaxEntries /\ 0 \in 0..Frames /\ 1 \in 1..MaxLevel
      /\ MaxHp \in 0..MaxHp /\ 0 \in 0..MaxUpsets /\ 0 \in 0..MaxLost /\ 0 \in 0..MaxLead
  <2>1. Crit * MaxLevel \in Nat
    BY Numbers
  <2> QED  BY <2>1, Numbers
<1>2. Packet("invite") \in Packets /\ Packet("invite").battle = 0 /\ Packet("invite").state = "invite"
  BY <1>1, StateNames DEF Packet, Packets
<1>3. pet \in [Badges -> Pets]
  BY <1>1, <1>2 DEF Init, Pets
<1>4. \A b \in Badges : wire[b] = <<>>
  BY DEF Init
<1>5. \A b \in Badges : wire[b] \in Seq(Packets) /\ Len(wire[b]) = 0
  <2>1. <<>> \in Seq(Packets) /\ Len(<<>>) = 0
    BY EmptySeq
  <2> QED  BY <1>4, <2>1
<1>6. verdict \in [Badges -> [won : BOOLEAN, mine : 0..MaxEntries, theirs : 0..MaxEntries, exact : BOOLEAN]]
  BY <1>1 DEF Init, NoVerdict
<1>7. PetTypeOK
  <2>1. wire \in [Badges -> Seq(Packets)] /\ \A b \in Badges : Len(wire[b]) <= 1
    BY <1>5 DEF Init
  <2>2. lost \in [Badges -> 0..MaxLost] /\ lead \in [Badges -> 0..MaxLead]
    BY <1>1 DEF Init
  <2>3. entries \in 0..MaxEntries /\ leaves \in 0..MaxUpsets /\ gains \in 0..MaxUpsets
    BY <1>1 DEF Init
  <2> QED  BY <1>3, <1>6, <2>1, <2>2, <2>3 DEF PetTypeOK
<1>8. \A b \in Badges : pet[b].my = Packet("invite") /\ pet[b].enemy = Packet("invite")
                        /\ pet[b].battles = 0 /\ Pending(pet[b]) = 0
  BY <1>2 DEF Init, Pending
<1>9. CountInv
  <2>1. entries = 0
    BY DEF Init
  <2>2. \A b, c \in Badges :
          pet[b].battles + Pending(pet[b]) + pet[c].battles + Pending(pet[c]) = 0
    BY <1>8
  <2> QED  BY <1>2, <1>8, <2>1, <2>2 DEF CountInv
<1>10. AgreeInv
  <2> DEFINE S == [b \in Badges |-> [n \in Nat |-> 0]]
  <2>1. S \in Scores
    BY DEF Scores
  <2>2. PacketsAgree(S)
    BY <1>2, <1>5, <1>8 DEF PacketsAgree, Carries
  <2>3. \A b \in Badges : verdict[b].mine = 0 /\ verdict[b].theirs = 0
    BY DEF Init, NoVerdict
  <2>4. RecordsAgree(S)
    BY <1>8, <2>3 DEF RecordsAgree, VerdictRight
  <2> QED  BY <2>1, <2>2, <2>4 DEF AgreeInv
<1> QED  BY <1>7, <1>9, <1>10 DEF PetInv

(* The pet of badge b becomes q: no more battles than entries. *)
LEMMA PetChange ==
  ASSUME PetInv, NEW b \in Badges, NEW q \in Pets, pet' = [pet EXCEPT ![b] = q],
         entries' \in Nat, entries' >= entries,
         q.battles + Pending(q) + entries <= pet[b].battles + Pending(pet[b]) + entries',
         q.my.state = "sent_score" => q.my.battle > 0
  PROVE  pet' \in [Badges -> Pets] /\ CountInv'
<1>1. /\ pet \in [Badges -> Pets] /\ entries \in Nat
      /\ \A c \in Badges : pet'[c] = IF c = b THEN q ELSE pet[c]
  BY DEF PetInv, PetTypeOK
<1>2. pet' \in [Badges -> Pets]
  BY <1>1
<1>3. \A c \in Badges : pet'[c].my.state = "sent_score" => pet'[c].my.battle > 0
  BY <1>1 DEF PetInv, CountInv
<1>4. \A c \in Badges : c # b =>
        q.battles + Pending(q) + pet[c].battles + Pending(pet[c]) <= entries'
  <2> SUFFICES ASSUME NEW c \in Badges, c # b
               PROVE  q.battles + Pending(q) + pet[c].battles + Pending(pet[c]) <= entries'
    OBVIOUS
  <2>1. pet[b].battles + Pending(pet[b]) + pet[c].battles + Pending(pet[c]) <= entries
    BY DEF PetInv, CountInv
  <2>2. /\ pet[b].battles \in Nat /\ pet[c].battles \in Nat /\ q.battles \in Nat
    BY <1>1 DEF Pets
  <2>3. Pending(pet[b]) \in Nat /\ Pending(pet[c]) \in Nat /\ Pending(q) \in Nat
    BY PendingRange
  <2> QED  BY <1>1, <2>1, <2>2, <2>3
<1>5. \A c, d \in Badges : c # d =>
       pet'[c].battles + Pending(pet'[c]) + pet'[d].battles + Pending(pet'[d]) <= entries'
  <2> SUFFICES ASSUME NEW c \in Badges, NEW d \in Badges, c # d
               PROVE  pet'[c].battles + Pending(pet'[c]) + pet'[d].battles + Pending(pet'[d]) <= entries'
    OBVIOUS
  <2>1. c = b \/ d = b
    BY TwoBadges
  <2>2. /\ \A x \in Badges : pet[x].battles \in Nat /\ Pending(pet[x]) \in Nat
        /\ q.battles \in Nat /\ Pending(q) \in Nat
    BY <1>1, PendingRange DEF Pets
  <2>3. CASE c = b
    <3>1. pet'[c] = q /\ pet'[d] = pet[d]
      BY <1>1, <2>3
    <3> QED  BY <1>4, <2>2, <2>3, <3>1
  <2>4. CASE d = b
    <3>1. pet'[d] = q /\ pet'[c] = pet[c]
      BY <1>1, <2>4
    <3>2. q.battles + Pending(q) + pet[c].battles + Pending(pet[c]) <= entries'
      BY <1>4, <2>4
    <3> QED  BY <2>2, <3>1, <3>2
  <2> QED  BY <2>1, <2>3, <2>4
<1>6. CountInv'
  BY <1>3, <1>5 DEF CountInv
<1> QED  BY <1>2, <1>6

(* The same when the scores sent stay. *)
LEMMA KeptChange ==
  ASSUME PetInv, NEW b \in Badges, NEW q, Kept(pet[b], q), pet' = [pet EXCEPT ![b] = q],
         entries' \in Nat, entries' >= entries
  PROVE  pet' \in [Badges -> Pets] /\ CountInv'
<1>1. q \in Pets /\ pet[b] \in Pets /\ entries \in Nat
  BY DEF Kept, PetInv, PetTypeOK
<1>2. q.battles \in Nat /\ pet[b].battles \in Nat /\ Pending(q) \in Nat /\ Pending(pet[b]) \in Nat
  BY <1>1, PendingRange DEF Pets
<1>3. q.battles = pet[b].battles /\ Pending(q) <= Pending(pet[b])
  BY DEF Kept
<1>4. q.battles + Pending(q) + entries <= pet[b].battles + Pending(pet[b]) + entries'
  BY <1>1, <1>2, <1>3
<1>5. q.my.state = "sent_score" => q.my.battle > 0
  BY DEF Kept, PetInv, CountInv
<1> QED  BY <1>1, <1>4, <1>5, PetChange

(* The copies still agree when the pet of badge b becomes q, of as many    *)
(* battles, and whatever is on the wires agrees. *)
LEMMA PacketsStay ==
  ASSUME NEW S \in Scores, PacketsAgree(S), pet \in [Badges -> Pets],
         NEW b \in Badges, NEW q, pet' = [pet EXCEPT ![b] = q],
         q.battles = pet[b].battles,
         Carries(S[b], pet[b].battles, q.my),
         Carries(S[Other(b)], pet[Other(b)].battles, q.enemy),
         \A d \in Badges : \A i \in 1..Len(wire'[d]) :
            Carries(S[Other(d)], pet[Other(d)].battles, wire'[d][i])
  PROVE  PacketsAgree(S)'
<1>1. \A c \in Badges : pet'[c] = IF c = b THEN q ELSE pet[c]
  OBVIOUS
<1>2. \A c \in Badges : pet'[c].battles = pet[c].battles
  BY <1>1
<1> SUFFICES ASSUME NEW x \in Badges, NEW y \in Badges, x # y
             PROVE  /\ Carries(S[x], pet'[x].battles, pet'[x].my)
                    /\ Carries(S[x], pet'[x].battles, pet'[y].enemy)
                    /\ \A i \in 1..Len(wire'[y]) : Carries(S[x], pet'[x].battles, wire'[y][i])
  BY DEF PacketsAgree
<1>3. x = Other(y)
  BY TwoBadges
<1>4. Carries(S[x], pet'[x].battles, pet'[x].my)
  <2>1. Carries(S[x], pet[x].battles, pet[x].my)
    BY DEF PacketsAgree
  <2> QED  BY <1>1, <1>2, <2>1
<1>5. Carries(S[x], pet'[x].battles, pet'[y].enemy)
  <2>1. Carries(S[x], pet[x].battles, pet[y].enemy)
    BY DEF PacketsAgree
  <2> QED  BY <1>1, <1>2, <1>3, <2>1
<1>6. \A i \in 1..Len(wire'[y]) : Carries(S[x], pet'[x].battles, wire'[y][i])
  BY <1>2, <1>3
<1> QED  BY <1>4, <1>5, <1>6

(* What is on the wires carries the scores. *)
LEMMA WiresAgree ==
  ASSUME NEW S \in Scores, PacketsAgree(S)
  PROVE  /\ \A d \in Badges : \A i \in 1..Len(wire[d]) :
              Carries(S[Other(d)], pet[Other(d)].battles, wire[d][i])
         /\ \A d \in Badges : Carries(S[d], pet[d].battles, pet[d].my)
         /\ \A d \in Badges : Carries(S[Other(d)], pet[Other(d)].battles, pet[d].enemy)
BY TwoBadges DEF PacketsAgree

(* The verdicts do, while no score is sent. *)
LEMMA RecordsStay ==
  ASSUME NEW S \in Scores, RecordsAgree(S), verdict' = verdict,
         \A c \in Badges : pet'[c].battles = pet[c].battles
  PROVE  RecordsAgree(S)'
BY DEF RecordsAgree

(* A pet changes and shows no other score. *)
LEMMA QuietStep ==
  ASSUME PetInv, NEW b \in Badges, NEW q, Kept(pet[b], q),
         pet' = [pet EXCEPT ![b] = q], entries' \in Nat, entries' >= entries,
         UNCHANGED <<wire, verdict>>
  PROVE  pet' \in [Badges -> Pets] /\ CountInv' /\ AgreeInv'
<1>1. pet' \in [Badges -> Pets] /\ CountInv'
  BY KeptChange
<1>2. PICK S \in Scores : PacketsAgree(S) /\ RecordsAgree(S)
  BY DEF PetInv, AgreeInv
<1>3. /\ pet \in [Badges -> Pets]
      /\ \A c \in Badges : pet'[c] = IF c = b THEN q ELSE pet[c]
  BY DEF PetInv, PetTypeOK
<1>4. /\ q.battles = pet[b].battles /\ q.enemy = pet[b].enemy
      /\ q.my.battle = pet[b].my.battle /\ q.my.score = pet[b].my.score
  BY DEF Kept
<1>5. Carries(S[b], pet[b].battles, q.my)
  BY <1>2, <1>4, WiresAgree DEF Carries
<1>6. Carries(S[Other(b)], pet[Other(b)].battles, q.enemy)
  BY <1>2, <1>4, WiresAgree
<1>7. \A d \in Badges : \A i \in 1..Len(wire'[d]) :
         Carries(S[Other(d)], pet[Other(d)].battles, wire'[d][i])
  BY <1>2, WiresAgree
<1>8. PacketsAgree(S)'
  BY <1>2, <1>3, <1>4, <1>5, <1>6, <1>7, PacketsStay
<1>9. RecordsAgree(S)'
  BY <1>2, <1>3, <1>4, RecordsStay
<1> QED  BY <1>1, <1>2, <1>8, <1>9 DEF AgreeInv

(* A packet on the wire of badge b is received, or comes to nothing. *)
LEMMA ReceiveStep ==
  ASSUME PetInv, NEW b \in Badges, Receive(b)
  PROVE  PetInv'
<1> DEFINE p == pet[b]
           k == Head(wire[b])
           q == IF p.handler THEN OnXBoardRecv(p, k) ELSE p
<1>1. /\ wire[b] # <<>> /\ pet' = [pet EXCEPT ![b] = q]
      /\ wire' = [wire EXCEPT ![b] = Tail(@)]
      /\ UNCHANGED <<lost, lead, entries, leaves, gains, verdict>>
  BY DEF Receive, Become, Counts
<1>2. /\ pet \in [Badges -> Pets] /\ p \in Pets /\ entries \in Nat
      /\ wire \in [Badges -> Seq(Packets)] /\ \A d \in Badges : Len(wire[d]) <= 1
  BY DEF PetInv, PetTypeOK
<1>3. k \in Packets /\ k = wire[b][1] /\ 1 \in 1..Len(wire[b])
      /\ Tail(wire[b]) \in Seq(Packets) /\ Len(Tail(wire[b])) = 0
  <2>1. wire[b] \in Seq(Packets) /\ Len(wire[b]) \in Nat /\ Len(wire[b]) # 0 /\ Len(wire[b]) <= 1
    BY <1>1, <1>2, EmptySeq
  <2>2. Len(wire[b]) = 1
    <3> DEFINE n == Len(wire[b])
    <3>1. n \in Nat /\ n # 0 /\ n <= 1
      BY <2>1
    <3> HIDE DEF n
    <3>2. n = 1
      BY <3>1
    <3> QED  BY <3>2 DEF n
  <2>3. k \in Packets /\ k = wire[b][1] /\ Tail(wire[b]) \in Seq(Packets)
        /\ Len(Tail(wire[b])) = Len(wire[b]) - 1
    BY <1>1, <2>1, HeadTailProperties
  <2> QED  BY <2>2, <2>3
<1>4. /\ q \in Pets
      /\ q.battles = p.battles
      /\ q.enemy \in {p.enemy, k}
      /\ q.my.battle = p.my.battle /\ q.my.score = p.my.score
      /\ q.my.state = "sent_score" => p.my.state = "sent_score"
      /\ Pending(q) <= Pending(p)
  BY <1>2, <1>3, PacketReceived, PendingRange
<1> HIDE DEF q, k
<1>5. pet' \in [Badges -> Pets] /\ CountInv'
  <2>1. q \in Pets /\ p \in Pets
    BY <1>2, <1>4
  <2> HIDE DEF p
  <2>2. q.battles \in Nat /\ p.battles \in Nat
    BY <2>1 DEF Pets
  <2>3. Pending(q) \in Nat /\ Pending(p) \in Nat
    BY PendingRange
  <2>4. q.battles + Pending(q) + entries <= p.battles + Pending(p) + entries'
    BY <1>1, <1>2, <1>4, <2>2, <2>3
  <2>5. q.my.state = "sent_score" => q.my.battle > 0
    BY <1>4 DEF PetInv, CountInv, p
  <2>6. entries' \in Nat /\ entries' >= entries /\ pet' = [pet EXCEPT ![b] = q]
    BY <1>1, <1>2
  <2> QED  BY <2>1, <2>4, <2>5, <2>6, PetChange DEF p
<1>6. wire' \in [Badges -> Seq(Packets)] /\ \A d \in Badges : Len(wire'[d]) <= 1
  BY <1>1, <1>2, <1>3
<1>7. PetTypeOK'
  BY <1>1, <1>5, <1>6 DEF PetInv, PetTypeOK
<1>8. PICK S \in Scores : PacketsAgree(S) /\ RecordsAgree(S)
  BY DEF PetInv, AgreeInv
<1>9. Carries(S[b], p.battles, q.my)
  BY <1>4, <1>8, WiresAgree DEF Carries
<1>10. Carries(S[Other(b)], pet[Other(b)].battles, q.enemy)
  <2>1. Carries(S[Other(b)], pet[Other(b)].battles, k)
    BY <1>3, <1>8, WiresAgree
  <2> QED  BY <1>4, <1>8, <2>1, WiresAgree
<1>11. \A d \in Badges : \A i \in 1..Len(wire'[d]) :
         Carries(S[Other(d)], pet[Other(d)].battles, wire'[d][i])
  <2>1. wire'[b] = Tail(wire[b]) /\ \A d \in Badges \ {b} : wire'[d] = wire[d]
    BY <1>1, <1>2
  <2>2. \A i \in 1..Len(wire'[b]) : FALSE
    <3>1. Len(wire'[b]) = 0
      BY <1>3, <2>1
    <3> QED  BY <3>1
  <2> QED  BY <1>8, <2>1, <2>2, WiresAgree
<1>12. PacketsAgree(S)'
  BY <1>1, <1>2, <1>4, <1>8, <1>9, <1>10, <1>11, PacketsStay
<1>13. RecordsAgree(S)'
  <2>1. \A c \in Badges : pet'[c].battles = pet[c].battles
    BY <1>1, <1>2, <1>4
  <2> QED  BY <1>1, <1>8, <2>1, RecordsStay
<1> QED  BY <1>5, <1>7, <1>8, <1>12, <1>13 DEF PetInv, AgreeInv

(* A battle is entered with packets that carry no score. *)
LEMMA EnterStep ==
  ASSUME PetInv, NEW b \in Badges, Enter(b)
  PROVE  PetInv'
<1> DEFINE p == pet[b]
<1>1. /\ p.open = "away" /\ entries < MaxEntries /\ entries' = entries + 1
      /\ pet' = [pet EXCEPT ![b] = EnterMulti(p)] \/ pet' = [pet EXCEPT ![b] = EnterSingle(p)]
      /\ lead' = [c \in Badges |-> 0]
      /\ UNCHANGED <<wire, lost, leaves, gains, verdict>>
  BY DEF Enter, Become
<1>2. /\ pet \in [Badges -> Pets] /\ p \in Pets /\ entries \in Nat
  BY DEF PetInv, PetTypeOK
<1>3. Pending(p) = 0
  BY <1>1 DEF Pending
<1>4. entries' \in Nat /\ entries' >= entries /\ entries' \in 0..MaxEntries
  BY <1>1, <1>2, Numbers
<1>5. 0 \in 0..MaxLead
  BY Numbers
<1>6. lead' \in [Badges -> 0..MaxLead]
  BY <1>1, <1>5
<1>7. pet' \in [Badges -> Pets] => PetTypeOK'
  BY <1>1, <1>4, <1>6 DEF PetInv, PetTypeOK
<1>8. CASE pet' = [pet EXCEPT ![b] = EnterMulti(p)]
  <2> DEFINE q == EnterMulti(p)
  <2>1. /\ q \in Pets
        /\ q.battles = p.battles
        /\ q.enemy = Packet("invite")
        /\ q.my \in {Packet("invite"), Packet("unavailable")}
    BY <1>2, BattleEntered
  <2> HIDE DEF q
  <2>2. /\ q.enemy.battle = 0 /\ q.my.battle = 0 /\ q.my.state # "sent_score"
    BY <2>1 DEF Packet
  <2>3. pet' \in [Badges -> Pets] /\ CountInv'
    <3>1. q.battles \in Nat /\ p.battles \in Nat /\ Pending(q) \in Nat /\ Pending(q) <= 1
      BY <1>2, <2>1, PendingRange DEF Pets
    <3>2. q.battles + Pending(q) + entries <= p.battles + Pending(p) + entries'
      BY <1>1, <1>2, <1>3, <2>1, <3>1
    <3>3. pet' = [pet EXCEPT ![b] = q]
      BY <1>8 DEF q
    <3> QED  BY <1>4, <2>1, <2>2, <3>2, <3>3, PetChange
  <2>4. PICK S \in Scores : PacketsAgree(S) /\ RecordsAgree(S)
    BY DEF PetInv, AgreeInv
  <2>5. \A c \in Badges : pet[c].battles \in Nat
    BY <1>2 DEF Pets
  <2>6. /\ Carries(S[b], p.battles, q.my)
        /\ Carries(S[Other(b)], pet[Other(b)].battles, q.enemy)
    BY <2>2, <2>5, TwoBadges DEF Carries
  <2>7. \A d \in Badges : \A i \in 1..Len(wire'[d]) :
         Carries(S[Other(d)], pet[Other(d)].battles, wire'[d][i])
    BY <1>1, <2>4, WiresAgree
  <2>8. PacketsAgree(S)'
    <3>1. pet' = [pet EXCEPT ![b] = q]
      BY <1>8 DEF q
    <3> QED  BY <1>2, <2>1, <2>4, <2>6, <2>7, <3>1, PacketsStay
  <2>9. RecordsAgree(S)'
    <3>1. \A c \in Badges : pet'[c].battles = pet[c].battles
      BY <1>2, <1>8, <2>1 DEF q
    <3> QED  BY <1>1, <2>4, <3>1, RecordsStay
  <2> QED  BY <1>7, <2>3, <2>4, <2>8, <2>9 DEF PetInv, AgreeInv
<1>9. CASE pet' = [pet EXCEPT ![b] = EnterSingle(p)]
  <2> DEFINE p1 == [p EXCEPT !.open = "single"]
             p2 == [p1 EXCEPT !.frame = 0]
             p3 == [p2 EXCEPT !.training = FALSE]
  <2>1. EnterSingle(p) = p3
    BY DEF EnterSingle
  <2>2. Kept(p, p1) /\ p1 \in Pets
    BY <1>2, KeptOpen DEF Kept
  <2>3. 0 \in 0..Frames
    BY Numbers
  <2> HIDE DEF p1
  <2>4. Kept(p1, p2) /\ p2 \in Pets
    BY <2>2, <2>3, KeptFields DEF Kept
  <2> HIDE DEF p2
  <2>5. Kept(p2, p3)
    BY <2>4, KeptFields
  <2>6. Kept(p, EnterSingle(p))
    BY <2>1, <2>2, <2>4, <2>5, KeptTwice
  <2> QED  BY <1>1, <1>4, <1>7, <1>9, <2>6, QuietStep DEF PetInv
<1> QED  BY <1>1, <1>8, <1>9

(* The score of one more battle does not change those before it. *)
LEMMA CarriesMore ==
  ASSUME NEW s \in [Nat -> Nat], NEW n \in Nat, NEW v \in Nat, NEW k,
         k.battle \in Nat, Carries(s, n, k)
  PROVE  Carries([s EXCEPT ![n + 1] = v], n + 1, k)
BY DEF Carries

(* The routine sends the packet as it was and goes on without a score. *)
LEMMA RoutineQuiet ==
  ASSUME PetInv, NEW b \in Badges, Routine(b),
         ~ (pet[b].my.state = "qte" /\ ~ pet[b].playing /\ pet[b].enemy.state # "unavailable")
  PROVE  pet' \in [Badges -> Pets] /\ CountInv' /\ AgreeInv'
<1> DEFINE p == pet[b]
           q == XbRoutine(p)
           c == Other(b)
<1>1. /\ pet' = [pet EXCEPT ![b] = q]
      /\ wire' = [wire EXCEPT ![c] = <<p.my>>] \/ wire' = wire
      /\ entries' = entries
  BY DEF Routine, Become, Counts
<1>2. /\ pet \in [Badges -> Pets] /\ p \in Pets /\ entries \in Nat
      /\ wire \in [Badges -> Seq(Packets)] /\ verdict \in [Badges ->
            [won : BOOLEAN, mine : 0..MaxEntries, theirs : 0..MaxEntries, exact : BOOLEAN]]
  BY DEF PetInv, PetTypeOK
<1>3. Kept(p, q)
  BY <1>2, KeptXbRoutine
<1>4. \/ verdict' = verdict
      \/ /\ p.my.state = "sent_score"
         /\ verdict' = [verdict EXCEPT ![b] =
                          [won |-> Won(p), mine |-> p.my.battle, theirs |-> p.enemy.battle,
                           exact |-> GetScore(p) = p.my.score]]
  BY DEF Routine, Judges
<1>5. c \in Badges /\ c # b /\ \A d \in Badges : d # b => d = c
  BY TwoBadges
<1> HIDE DEF q, c
<1>6. pet' \in [Badges -> Pets] /\ CountInv'
  <2>1. entries' \in Nat /\ entries' >= entries
    BY <1>1, <1>2
  <2> QED  BY <1>1, <1>3, <2>1, KeptChange
<1>7. PICK S \in Scores : PacketsAgree(S) /\ RecordsAgree(S)
  BY DEF PetInv, AgreeInv
<1>8. /\ q.battles = p.battles /\ q.enemy = p.enemy
      /\ q.my.battle = p.my.battle /\ q.my.score = p.my.score
  BY <1>3 DEF Kept
<1>9. \A d \in Badges : pet'[d].battles = pet[d].battles
  BY <1>1, <1>2, <1>8
<1>10. /\ Carries(S[b], pet[b].battles, p.my)
       /\ Carries(S[c], pet[c].battles, p.enemy)
  BY <1>7, WiresAgree DEF c
<1>11. \A d \in Badges : \A i \in 1..Len(wire'[d]) :
         Carries(S[Other(d)], pet[Other(d)].battles, wire'[d][i])
  <2>1. \A d \in Badges : wire'[d] = wire[d] \/ (d = c /\ wire'[d] = <<p.my>>)
    <3> DEFINE z == <<p.my>>
    <3> HIDE DEF z
    <3>1. wire' = [wire EXCEPT ![c] = z] \/ wire' = wire
      BY <1>1 DEF z
    <3>2. \A d \in Badges : wire'[d] = wire[d] \/ (d = c /\ wire'[d] = z)
      BY <1>2, <3>1
    <3> QED  BY <3>2 DEF z
  <2>2. Other(c) = b
    BY <1>5, TwoBadges
  <2>3. \A i \in 1..Len(<<p.my>>) : <<p.my>>[i] = p.my
    OBVIOUS
  <2> SUFFICES ASSUME NEW d \in Badges, NEW i \in 1..Len(wire'[d])
               PROVE  Carries(S[Other(d)], pet[Other(d)].battles, wire'[d][i])
    OBVIOUS
  <2>4. CASE wire'[d] = wire[d]
    BY <1>7, <2>4, WiresAgree
  <2>5. CASE d = c /\ wire'[d] = <<p.my>>
    <3>1. wire'[d][i] = p.my /\ Other(d) = b
      BY <2>2, <2>3, <2>5
    <3> QED  BY <1>10, <3>1
  <2> QED  BY <2>1, <2>4, <2>5
<1>12. PacketsAgree(S)'
  <2>1. Carries(S[b], pet[b].battles, q.my)
    BY <1>8, <1>10 DEF Carries
  <2>2. Carries(S[Other(b)], pet[Other(b)].battles, q.enemy)
    BY <1>8, <1>10 DEF c
  <2> QED  BY <1>1, <1>2, <1>7, <1>8, <1>11, <2>1, <2>2, PacketsStay
<1>13. RecordsAgree(S)'
  <2>1. CASE verdict' = verdict
    BY <1>7, <1>9, <2>1, RecordsStay
  <2>2. CASE /\ p.my.state = "sent_score"
             /\ verdict' = [verdict EXCEPT ![b] =
                         [won |-> Won(p), mine |-> p.my.battle, theirs |-> p.enemy.battle,
                          exact |-> GetScore(p) = p.my.score]]
    <3> DEFINE v == [won |-> Won(p), mine |-> p.my.battle, theirs |-> p.enemy.battle,
                     exact |-> GetScore(p) = p.my.score]
    <3>1. p.my.battle > 0
      BY <2>2 DEF PetInv, CountInv
    <3>2. v.won /\ v.exact /\ v.theirs > 0 => S[b][v.mine] > S[c][v.theirs]
      <4> SUFFICES ASSUME Won(p), GetScore(p) = p.my.score, p.enemy.battle > 0
                   PROVE  S[b][p.my.battle] > S[c][p.enemy.battle]
        OBVIOUS
      <4>1. p.my.score > p.enemy.score
        BY DEF Won
      <4>2. p.my.score = S[b][p.my.battle] /\ p.enemy.score = S[c][p.enemy.battle]
        BY <1>10, <3>1 DEF Carries
      <4> QED  BY <4>1, <4>2
    <3>3. v.mine <= pet[b].battles /\ v.theirs <= pet[c].battles
      BY <1>10 DEF Carries
    <3>4. VerdictRight(S[b], pet[b].battles, S[c], pet[c].battles, v)
      BY <3>1, <3>2, <3>3 DEF VerdictRight
    <3>5. /\ verdict'[b] = v /\ \A d \in Badges \ {b} : verdict'[d] = verdict[d]
      BY <1>2, <2>2
    <3> HIDE DEF v
    <3>6. \A d, e \in Badges : d # e =>
            VerdictRight(S[d], pet[d].battles, S[e], pet[e].battles, verdict'[d])
      BY <1>5, <1>7, <3>4, <3>5 DEF RecordsAgree
    <3> QED  BY <1>9, <3>6 DEF RecordsAgree
  <2> QED  BY <1>4, <2>1, <2>2
<1> QED  BY <1>6, <1>7, <1>12, <1>13 DEF AgreeInv

(* The routine finds the QTE over and makes a packet of its score. *)
LEMMA RoutineScore ==
  ASSUME PetInv, NEW b \in Badges, Routine(b),
         pet[b].my.state = "qte", ~ pet[b].playing, pet[b].enemy.state # "unavailable"
  PROVE  pet' \in [Badges -> Pets] /\ CountInv' /\ AgreeInv'
<1> DEFINE p == pet[b]
           q == SentScore(p)
           c == Other(b)
           n == p.battles
           x == GetScore(p)
<1>1. /\ p.open = "multi" /\ entries' = entries
      /\ wire' = [wire EXCEPT ![c] = <<p.my>>] \/ wire' = wire
      /\ verdict' = verdict
  BY DEF Routine, Counts, Judges
<1>2. /\ pet \in [Badges -> Pets] /\ p \in Pets /\ entries \in 0..MaxEntries
      /\ wire \in [Badges -> Seq(Packets)]
  BY DEF PetInv, PetTypeOK
<1>3. pet' = [pet EXCEPT ![b] = q]
  BY DEF Routine, Become, XbRoutine
<1>4. c \in Badges /\ c # b /\ \A d \in Badges : d # b => d = c
  BY TwoBadges
<1>5. \A d \in Badges : pet[d].battles \in Nat
  BY <1>2 DEF Pets
<1>6. Pending(p) = 1
  BY <1>1 DEF Pending
<1>7. n \in Nat /\ n < MaxEntries
  <2>1. n + Pending(p) + pet[c].battles + Pending(pet[c]) <= entries
    BY <1>4 DEF PetInv, CountInv
  <2>2. Pending(pet[c]) \in Nat /\ pet[c].battles \in Nat /\ n \in Nat
    BY <1>4, <1>5, PendingRange
  <2> HIDE DEF n, p
  <2> QED  BY <1>2, <1>6, <2>1, <2>2, Numbers
<1>8. /\ q \in Pets /\ q.battles = n + 1 /\ q.enemy = p.enemy /\ Pending(q) = 0
      /\ q.my = [state |-> "sent_score", score |-> x, battle |-> n + 1]
  BY <1>2, <1>7, ScoreSent
<1>9. x \in Nat
  <2>1. Crit * MaxLevel \in Nat
    BY Numbers
  <2> QED  BY <1>2, <2>1, ScoreRange
<1> HIDE DEF q, c, x
<1>10. pet' \in [Badges -> Pets] /\ CountInv'
  <2>1. q.battles + Pending(q) + entries <= p.battles + Pending(p) + entries'
    BY <1>1, <1>2, <1>6, <1>7, <1>8
  <2>2. q.my.battle > 0
    BY <1>7, <1>8
  <2>3. entries' \in Nat /\ entries' >= entries
    BY <1>1, <1>2, Numbers
  <2> QED  BY <1>3, <1>8, <2>1, <2>2, <2>3, PetChange
<1>11. PICK S \in Scores : PacketsAgree(S) /\ RecordsAgree(S)
  BY DEF PetInv, AgreeInv
<1>12. PICK T \in Scores : T[b] = [S[b] EXCEPT ![n + 1] = x] /\ \A d \in Badges \ {b} : T[d] = S[d]
  <2> DEFINE U == [S EXCEPT ![b] = [S[b] EXCEPT ![n + 1] = x]]
  <2>1. /\ U \in Scores /\ U[b] = [S[b] EXCEPT ![n + 1] = x]
        /\ \A d \in Badges \ {b} : U[d] = S[d]
    BY <1>7, <1>9 DEF Scores
  <2> HIDE DEF U
  <2> QED  BY <2>1
<1>13. /\ pet'[b] = q /\ \A d \in Badges \ {b} : pet'[d] = pet[d]
  BY <1>2, <1>3
<1>14. \A k \in Packets : Carries(S[b], n, k) => Carries(T[b], n + 1, k)
  <2> SUFFICES ASSUME NEW k \in Packets, Carries(S[b], n, k)
               PROVE  Carries(T[b], n + 1, k)
    OBVIOUS
  <2>1. k.battle \in Nat
    BY Numbers DEF Packets
  <2>2. S[b] \in [Nat -> Nat]
    BY DEF Scores
  <2> HIDE DEF n
  <2>3. Carries([S[b] EXCEPT ![n + 1] = x], n + 1, k)
    BY <1>7, <1>9, <2>1, <2>2, CarriesMore
  <2> QED  BY <1>12, <2>3 DEF n
<1>15. \A d \in Badges : pet[d].my \in Packets /\ pet[d].enemy \in Packets
  BY <1>2 DEF Pets
<1>16. Carries(T[b], n + 1, q.my)
  <2>1. T[b][n + 1] = x
    BY <1>7, <1>12 DEF Scores
  <2> QED  BY <1>7, <1>8, <2>1 DEF Carries
<1>17. PacketsAgree(T)'
  <2>1. /\ Carries(S[b], n, p.my) /\ Carries(S[b], n, pet[c].enemy)
        /\ Carries(S[c], pet[c].battles, pet[c].my)
        /\ Carries(S[c], pet[c].battles, p.enemy)
        /\ \A i \in 1..Len(wire[c]) : Carries(S[b], n, wire[c][i])
        /\ \A i \in 1..Len(wire[b]) : Carries(S[c], pet[c].battles, wire[b][i])
    BY <1>4, <1>11 DEF PacketsAgree
  <2>2. \A i \in 1..Len(wire'[c]) : Carries(T[b], n + 1, wire'[c][i])
    <3>1. CASE wire' = wire
      <4>1. \A i \in 1..Len(wire[c]) : wire[c][i] \in Packets
        BY <1>2, <1>4, ElementOfSeq
      <4> QED  BY <1>14, <2>1, <3>1, <4>1
    <3>2. CASE wire' = [wire EXCEPT ![c] = <<p.my>>]
      <4>1. wire'[c] = <<p.my>>
        BY <1>2, <1>4, <3>2
      <4>2. \A i \in 1..Len(<<p.my>>) : <<p.my>>[i] = p.my
        OBVIOUS
      <4> QED  BY <1>14, <1>15, <2>1, <4>1, <4>2
    <3> QED  BY <1>1, <3>1, <3>2
  <2>3. wire'[b] = wire[b]
    BY <1>1, <1>2, <1>4
  <2>4. T[c] = S[c] /\ pet'[c] = pet[c]
    BY <1>4, <1>12, <1>13
  <2>5. /\ Carries(T[b], pet'[b].battles, pet'[b].my)
        /\ Carries(T[b], pet'[b].battles, pet'[c].enemy)
        /\ \A i \in 1..Len(wire'[c]) : Carries(T[b], pet'[b].battles, wire'[c][i])
    BY <1>4, <1>8, <1>13, <1>14, <1>15, <1>16, <2>1, <2>2, <2>4
  <2>6. /\ Carries(T[c], pet'[c].battles, pet'[c].my)
        /\ Carries(T[c], pet'[c].battles, pet'[b].enemy)
        /\ \A i \in 1..Len(wire'[b]) : Carries(T[c], pet'[c].battles, wire'[b][i])
    BY <1>8, <1>13, <2>1, <2>3, <2>4
  <2> SUFFICES ASSUME NEW d \in Badges, NEW e \in Badges, d # e
               PROVE  /\ Carries(T[d], pet'[d].battles, pet'[d].my)
                      /\ Carries(T[d], pet'[d].battles, pet'[e].enemy)
                      /\ \A i \in 1..Len(wire'[e]) : Carries(T[d], pet'[d].battles, wire'[e][i])
    BY DEF PacketsAgree
  <2>7. CASE d = b /\ e = c
    BY <2>5, <2>7
  <2>8. CASE d = c /\ e = b
    BY <2>6, <2>8
  <2>9. (d = b /\ e = c) \/ (d = c /\ e = b)
    BY <1>4
  <2> QED  BY <2>7, <2>8, <2>9
<1>18. RecordsAgree(T)'
  <2>1. /\ VerdictRight(S[b], n, S[c], pet[c].battles, verdict[b])
        /\ VerdictRight(S[c], pet[c].battles, S[b], n, verdict[c])
    BY <1>4, <1>11 DEF RecordsAgree
  <2>2. \A d \in Badges : verdict[d].mine \in Nat /\ verdict[d].theirs \in Nat
    BY Numbers DEF PetInv, PetTypeOK
  <2>3. \A i \in Nat : i <= n => T[b][i] = S[b][i]
    BY <1>7, <1>12
  <2>4. VerdictRight(T[b], n + 1, T[c], pet[c].battles, verdict[b])
    BY <1>4, <1>7, <1>12, <2>1, <2>2, <2>3 DEF VerdictRight
  <2>5. VerdictRight(T[c], pet[c].battles, T[b], n + 1, verdict[c])
    BY <1>4, <1>7, <1>12, <2>1, <2>2, <2>3 DEF VerdictRight
  <2> SUFFICES ASSUME NEW d \in Badges, NEW e \in Badges, d # e
               PROVE  VerdictRight(T[d], pet'[d].battles, T[e], pet'[e].battles, verdict'[d])
    BY DEF RecordsAgree
  <2>6. pet'[b].battles = n + 1 /\ pet'[c].battles = pet[c].battles /\ verdict' = verdict
    BY <1>1, <1>4, <1>8, <1>13
  <2>7. CASE d = b /\ e = c
    BY <2>4, <2>6, <2>7
  <2>8. CASE d = c /\ e = b
    BY <2>5, <2>6, <2>8
  <2>9. (d = b /\ e = c) \/ (d = c /\ e = b)
    BY <1>4
  <2> QED  BY <2>7, <2>8, <2>9
<1>19. AgreeInv'
  BY <1>12, <1>17, <1>18 DEF AgreeInv
<1> QED  BY <1>10, <1>19

(* The routine keeps what the wires and counters may hold. *)
LEMMA RoutineTypes ==
  ASSUME PetInv, NEW b \in Badges, Routine(b), pet' \in [Badges -> Pets]
  PROVE  PetTypeOK'
<1> DEFINE p == pet[b]
           c == Other(b)
           v == [won |-> Won(p), mine |-> p.my.battle, theirs |-> p.enemy.battle,
                 exact |-> GetScore(p) = p.my.score]
<1>1. /\ p \in Pets /\ c \in Badges /\ c # b
      /\ wire \in [Badges -> Seq(Packets)] /\ \A d \in Badges : Len(wire[d]) <= 1
      /\ lost \in [Badges -> 0..MaxLost] /\ lead \in [Badges -> 0..MaxLead]
      /\ verdict \in [Badges -> [won : BOOLEAN, mine : 0..MaxEntries, theirs : 0..MaxEntries, exact : BOOLEAN]]
  BY TwoBadges DEF PetInv, PetTypeOK
<1> HIDE DEF p, c
<1>2. p.my \in Packets /\ p.enemy \in Packets
  BY <1>1 DEF Pets
<1>3. wire' \in [Badges -> Seq(Packets)] /\ \A d \in Badges : Len(wire'[d]) <= 1
  <2>1. wire' = wire \/ wire' = [wire EXCEPT ![c] = <<p.my>>]
    BY DEF Routine, c, p
  <2>2. <<p.my>> \in Seq(Packets) /\ Len(<<p.my>>) = 1
    BY <1>2
  <2>3. CASE wire' = [wire EXCEPT ![c] = <<p.my>>]
    <3> DEFINE w == <<p.my>>
    <3> HIDE DEF w
    <3>1. wire' = [wire EXCEPT ![c] = w] /\ w \in Seq(Packets) /\ Len(w) = 1
      BY <2>2, <2>3 DEF w
    <3>2. wire' \in [Badges -> Seq(Packets)]
      BY <1>1, <3>1
    <3>3. \A d \in Badges : wire'[d] = IF d = c THEN w ELSE wire[d]
      BY <1>1, <3>1
    <3>4. \A d \in Badges : Len(wire'[d]) <= 1
      <4> SUFFICES ASSUME NEW d \in Badges PROVE Len(wire'[d]) <= 1
        OBVIOUS
      <4>1. CASE d = c
        <5>1. Len(wire'[d]) = Len(w)
          BY <3>3, <4>1
        <5>2. Len(w) = 1
          BY <3>1
        <5>3. Len(wire'[d]) = 1
          BY <5>1, <5>2
        <5> QED  BY <5>3
      <4>2. CASE d # c
        <5>1. Len(wire'[d]) = Len(wire[d])
          BY <3>3, <4>2
        <5> QED  BY <1>1, <5>1
      <4> QED  BY <4>1, <4>2
    <3> QED  BY <3>2, <3>4
  <2> QED  BY <1>1, <2>1, <2>3
<1>4. lost' \in [Badges -> 0..MaxLost]
  <2>1. \/ lost' = [lost EXCEPT ![c] = 0]
        \/ lost[c] < MaxLost /\ lost' = [lost EXCEPT ![c] = lost[c] + 1]
    BY DEF Routine, c, p
  <2>2. 0 \in 0..MaxLost /\ (lost[c] < MaxLost => lost[c] + 1 \in 0..MaxLost)
    BY <1>1, Numbers
  <2> QED  BY <1>1, <2>1, <2>2
<1>5. lead' \in [Badges -> 0..MaxLead]
  <2>1. /\ lead' = [lead EXCEPT ![b] = IF pet[c].open = "multi" THEN lead[b] + 1 ELSE 0, ![c] = 0]
        /\ pet[c].open = "multi" => lead[b] < MaxLead
    BY DEF Routine, c, p
  <2>2. 0 \in 0..MaxLead
    BY Numbers
  <2>3. (IF pet[c].open = "multi" THEN lead[b] + 1 ELSE 0) \in 0..MaxLead
    <3>1. lead[b] \in 0..MaxLead
      BY <1>1
    <3> QED  BY <2>1, <2>2, <3>1, Numbers
  <2> QED  BY <1>1, <2>1, <2>2, <2>3
<1>6. v \in [won : BOOLEAN, mine : 0..MaxEntries, theirs : 0..MaxEntries, exact : BOOLEAN]
  BY <1>2 DEF Packets, Won
<1>7. verdict' \in [Badges -> [won : BOOLEAN, mine : 0..MaxEntries, theirs : 0..MaxEntries, exact : BOOLEAN]]
  <2>1. verdict' = verdict \/ verdict' = [verdict EXCEPT ![b] = v]
    BY DEF Routine, p
  <2> HIDE DEF v
  <2> QED  BY <1>1, <1>6, <2>1
<1>8. UNCHANGED <<entries, leaves, gains>>
  BY DEF Routine, Counts
<1> QED  BY <1>3, <1>4, <1>5, <1>7, <1>8 DEF PetInv, PetTypeOK

(* What changes a pet and no packet. *)
LEMMA PetStep ==
  ASSUME PetInv, NEW b \in Badges, NEW q, Kept(pet[b], q), Become(b, q),
         leaves' \in 0..MaxUpsets, gains' \in 0..MaxUpsets,
         UNCHANGED <<wire, lost, lead, entries, verdict>>
  PROVE  PetInv'
<1>1. entries' \in Nat /\ entries' >= entries
  BY Numbers DEF PetInv, PetTypeOK
<1>2. pet' \in [Badges -> Pets] /\ CountInv' /\ AgreeInv'
  BY <1>1, QuietStep DEF Become
<1>3. PetTypeOK'
  BY <1>2 DEF PetInv, PetTypeOK
<1> QED  BY <1>2, <1>3 DEF PetInv

(* Every operation keeps the invariant. *)
LEMMA PetInvStep == PetInv /\ [Next]_vars => PetInv'
<1> SUFFICES ASSUME PetInv, [Next]_vars
             PROVE  PetInv'
  OBVIOUS
<1>1. CASE UNCHANGED vars
  BY <1>1 DEF vars, PetInv, PetTypeOK, CountInv, AgreeInv, PacketsAgree, RecordsAgree
<1>2. ASSUME NEW b \in Badges,
             \/ Enter(b) \/ Routine(b) \/ Receive(b) \/ Choose(b) \/ OK(b) \/ QteDone(b)
             \/ Leave(b) \/ Train(b) \/ TrainingEnd(b) \/ Heal(b)
             \/ HungerRoutine(b) \/ LevelUpRoutine(b)
      PROVE  PetInv'
  <2> DEFINE p == pet[b]
  <2>1. /\ p \in Pets /\ leaves \in 0..MaxUpsets /\ gains \in 0..MaxUpsets
        /\ 0 \in 0..Frames /\ 0 \in 0..MaxHp /\ MaxHp \in 0..MaxHp
    BY Numbers DEF PetInv, PetTypeOK
  <2>2. leaves + gains < MaxUpsets => leaves + 1 \in 0..MaxUpsets /\ gains + 1 \in 0..MaxUpsets
    BY <2>1, Numbers
  <2>3. CASE Enter(b)
    BY <2>3, EnterStep
  <2>4. CASE Routine(b)
    <3>1. pet' \in [Badges -> Pets] /\ CountInv' /\ AgreeInv'
      BY <2>4, RoutineQuiet, RoutineScore
    <3> QED  BY <2>4, <3>1, RoutineTypes DEF PetInv
  <2>5. CASE Receive(b)
    BY <2>5, ReceiveStep
  <2>6. CASE Choose(b)
    <3>1. PICK a \in BOOLEAN : Become(b, [p EXCEPT !.accept = a])
      BY <2>6 DEF Choose
    <3>2. UNCHANGED <<wire, lost, lead, entries, leaves, gains, verdict>>
      BY <2>6 DEF Choose, Link, Counts
    <3>3. Kept(p, [p EXCEPT !.accept = a])
      BY <2>1, KeptFields
    <3> QED  BY <2>1, <3>1, <3>2, <3>3, PetStep
  <2>7. CASE OK(b)
    <3> DEFINE s == IF p.accept THEN "encounter" ELSE "leave"
               p1 == [p EXCEPT !.my.state = s]
    <3>1. Kept(p, p1)
      BY <2>1, <2>7, KeptState, StateNames DEF OK
    <3>2. p1 \in Pets
      BY <3>1 DEF Kept
    <3>3. Become(b, [p1 EXCEPT !.frame = 0])
      <4>1. Become(b, [p EXCEPT !.my.state = s, !.frame = 0])
        BY <2>7 DEF OK
      <4>2. [p EXCEPT !.my.state = s, !.frame = 0] = [p1 EXCEPT !.frame = 0]
        OBVIOUS
      <4> QED  BY <4>1, <4>2
    <3> HIDE DEF p1
    <3>4. Kept(p1, [p1 EXCEPT !.frame = 0])
      BY <2>1, <3>2, KeptFields
    <3>5. Kept(p, [p1 EXCEPT !.frame = 0])
      BY <3>1, <3>4, KeptTwice
    <3>6. UNCHANGED <<wire, lost, lead, entries, leaves, gains, verdict>>
      BY <2>7 DEF OK, Link, Counts
    <3> QED  BY <2>1, <3>3, <3>5, <3>6, PetStep
  <2>8. CASE QteDone(b)
    <3>1. PICK r \in Raws \cup {Crit} : Become(b, [p EXCEPT !.playing = FALSE, !.raw = r])
      BY <2>8 DEF QteDone
    <3> DEFINE p1 == [p EXCEPT !.playing = FALSE]
    <3>2. Kept(p, p1) /\ p1 \in Pets
      BY <2>1, KeptPlaying DEF Kept
    <3>3. Become(b, [p1 EXCEPT !.raw = r])
      BY <3>1
    <3> HIDE DEF p1
    <3>4. Kept(p1, [p1 EXCEPT !.raw = r])
      BY <3>2, KeptFields
    <3>5. Kept(p, [p1 EXCEPT !.raw = r])
      BY <3>2, <3>4, KeptTwice
    <3>6. UNCHANGED <<wire, lost, lead, entries, leaves, gains, verdict>>
      BY <2>8 DEF QteDone, Link, Counts
    <3> QED  BY <2>1, <3>3, <3>5, <3>6, PetStep
  <2>9. CASE Leave(b)
    <3> DEFINE p1 == [p EXCEPT !.playing = FALSE]
    <3>1. PICK q \in {Exit(p), Exit(p1)} : Become(b, q)
      BY <2>9 DEF Leave
    <3>2. Kept(p, p1) /\ p1 \in Pets
      BY <2>1, KeptPlaying DEF Kept
    <3> HIDE DEF p1
    <3>3. Kept(p, Exit(p)) /\ Kept(p1, Exit(p1))
      BY <2>1, <3>2, KeptExit
    <3>4. Kept(p, q)
      BY <3>2, <3>3, KeptTwice
    <3>5. leaves' \in 0..MaxUpsets /\ UNCHANGED <<wire, lost, lead, entries, gains, verdict>>
      BY <2>2, <2>9 DEF Leave, Link
    <3> QED  BY <2>1, <3>1, <3>4, <3>5, PetStep
  <2>10. CASE Train(b)
    <3> DEFINE p1 == [p EXCEPT !.training = TRUE]
    <3>1. Kept(p, p1) /\ p1 \in Pets
      BY <2>1, KeptFields DEF Kept
    <3>2. Become(b, [p1 EXCEPT !.playing = TRUE])
      BY <2>10 DEF Train
    <3> HIDE DEF p1
    <3>3. Kept(p1, [p1 EXCEPT !.playing = TRUE])
      BY <3>1, KeptPlaying
    <3>4. Kept(p, [p1 EXCEPT !.playing = TRUE])
      BY <3>1, <3>3, KeptTwice
    <3>5. gains' \in 0..MaxUpsets /\ UNCHANGED <<wire, lost, lead, entries, leaves, verdict>>
      BY <2>2, <2>10 DEF Train, Link
    <3> QED  BY <2>1, <3>2, <3>4, <3>5, PetStep
  <2>11. CASE TrainingEnd(b)
    <3> DEFINE p1 == [p EXCEPT !.training = FALSE]
    <3>1. PICK n \in {0, 1, 10} : Become(b, Gained(p1, n))
      BY <2>11 DEF TrainingEnd
    <3>2. Kept(p, p1) /\ p1 \in Pets
      BY <2>1, KeptFields DEF Kept
    <3> HIDE DEF p1
    <3>3. Kept(p, Gained(p1, n))
      BY <3>2, KeptGained, KeptTwice
    <3>4. UNCHANGED <<wire, lost, lead, entries, leaves, gains, verdict>>
      BY <2>11 DEF TrainingEnd, Link, Counts
    <3> QED  BY <2>1, <3>1, <3>3, <3>4, PetStep
  <2>12. CASE Heal(b)
    <3>1. Become(b, [p EXCEPT !.hp = MaxHp])
      BY <2>12 DEF Heal
    <3>2. Kept(p, [p EXCEPT !.hp = MaxHp])
      BY <2>1, KeptFields
    <3>3. UNCHANGED <<wire, lost, lead, entries, leaves, gains, verdict>>
      BY <2>12 DEF Heal, Link, Counts
    <3> QED  BY <2>1, <3>1, <3>2, <3>3, PetStep
  <2>13. CASE HungerRoutine(b)
    <3> DEFINE p1 == [p EXCEPT !.hp = 0]
    <3>1. Become(b, [p1 EXCEPT !.frame = 0])
      BY <2>13 DEF HungerRoutine
    <3>2. Kept(p, p1) /\ p1 \in Pets
      BY <2>1, KeptFields DEF Kept
    <3> HIDE DEF p1
    <3>3. Kept(p1, [p1 EXCEPT !.frame = 0])
      BY <2>1, <3>2, KeptFields
    <3>4. Kept(p, [p1 EXCEPT !.frame = 0])
      BY <3>2, <3>3, KeptTwice
    <3>5. gains' \in 0..MaxUpsets /\ UNCHANGED <<wire, lost, lead, entries, leaves, verdict>>
      BY <2>2, <2>13 DEF HungerRoutine, Link
    <3> QED  BY <2>1, <3>1, <3>4, <3>5, PetStep
  <2>14. CASE LevelUpRoutine(b)
    <3>1. PICK f \in {0, p.frame} : Become(b, Gained([p EXCEPT !.frame = f], 1))
      BY <2>14 DEF LevelUpRoutine
    <3> DEFINE p1 == [p EXCEPT !.frame = f]
    <3>2. f \in 0..Frames
      BY <2>1 DEF Pets
    <3>3. Kept(p, p1) /\ p1 \in Pets
      BY <2>1, <3>2, KeptFields DEF Kept
    <3> HIDE DEF p1
    <3>4. Kept(p, Gained(p1, 1))
      BY <3>3, KeptGained, KeptTwice
    <3>5. gains' \in 0..MaxUpsets /\ UNCHANGED <<wire, lost, lead, entries, leaves, verdict>>
      BY <2>2, <2>14 DEF LevelUpRoutine, Link
    <3>6. Become(b, Gained(p1, 1))
      BY <3>1 DEF p1
    <3> QED  BY <2>1, <3>4, <3>5, <3>6, PetStep
  <2> QED  BY <1>2, <2>3, <2>4, <2>5, <2>6, <2>7, <2>8, <2>9, <2>10, <2>11, <2>12, <2>13, <2>14
<1> QED  BY <1>1, <1>2 DEF Next

----------------------------------------------------------------------------
(* What follows from it.                                                   *)

(* The packets of a badge with the score of one battle all carry the same  *)
(* score, on the wire, received and behind a verdict (TamaApp::XbRoutine,  *)
(* OnXBoardRecv), and every score sent took an entry of the app. *)
THEOREM PetInvHolds == Spec => []PetInv
<1> QED  BY InitPets, PetInvStep, PTL DEF Spec

(* Hit points, level, frames and scores stay in their ranges, and a wire    *)
(* holds one packet at most. *)
THEOREM PetTypesHold == Spec => []PetTypeOK
<1>1. PetInv => PetTypeOK
  BY DEF PetInv
<1> QED  BY <1>1, PetInvHolds, PTL

(* Two badges that decided on the same two scores do not both win,         *)
(* whatever packets were lost or repeated in between, and whichever side   *)
(* left and came back. *)
THEOREM NeverBothWin == Spec => []VerdictsAgree
<1>1. PetInv => VerdictsAgree
  <2> SUFFICES ASSUME PetInv, NEW b \in Badges, NEW c \in Badges, b # c,
                      verdict[b].mine > 0, verdict[b].mine = verdict[c].theirs,
                      verdict[b].theirs = verdict[c].mine,
                      verdict[b].exact, verdict[c].exact, verdict[b].won, verdict[c].won
               PROVE  FALSE
    BY DEF VerdictsAgree
  <2> DEFINE m == verdict[b].mine
             n == verdict[c].mine
  <2>1. PICK S \in Scores : RecordsAgree(S)
    BY DEF PetInv, AgreeInv
  <2>2. m \in Nat /\ n \in Nat
    BY Numbers DEF PetInv, PetTypeOK
  <2>3. n > 0
    BY <2>1 DEF RecordsAgree, VerdictRight
  <2>4. S[b][m] > S[c][n] /\ S[c][n] > S[b][m]
    BY <2>1, <2>3 DEF RecordsAgree, VerdictRight
  <2>5. S[b][m] \in Nat /\ S[c][n] \in Nat
    BY <2>2 DEF Scores
  <2> QED  BY <2>4, <2>5
<1> QED  BY <1>1, PetInvHolds, PTL
============================================================================
