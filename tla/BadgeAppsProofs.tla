-------------------------- MODULE BadgeAppsProofs --------------------------
(***************************************************************************)
(* What holds of any number of packets, texts, lost connections and games: *)
(* the types, that the periodic tasks follow the app shown, that Snake is  *)
(* never shown with a game that is over, and how a badge without a peer    *)
(* comes to be where only a badge with one belongs.                        *)
(*                                                                         *)
(* Every handler ends in change_app or leaves the app alone, so the proof  *)
(* is about one badge: what change_app makes of a badge that is steady,    *)
(* whatever its games are doing.                                           *)
(***************************************************************************)
EXTENDS BadgeApps, SequenceTheorems, FiniteSetTheorems, TLAPS

Steady(s) ==
  /\ s \in BadgeStates
  /\ \A t \in Tasks \ {"snake"} : t \in s.enabled <=> s.app = t
  /\ "show_name" \notin s.failed /\ "tetris" \notin s.failed

\* Between an exit and the next entry.
Idle(s) ==
  /\ s \in BadgeStates
  /\ \A t \in Tasks \ {"snake"} : t \notin s.enabled
  /\ "show_name" \notin s.failed /\ "tetris" \notin s.failed

Good(s) == Steady(s) /\ (s.app = "snake" => ~s.gameOver)

WireOK == wire \in [Badges -> Seq(Packets)] /\ \A b \in Badges : Len(wire[b]) <= MaxFlight

CountsOK == drops \in 0..MaxDrops /\ texts \in 0..MaxTexts /\ entries \in 0..MaxEntries

BadgesGood == badge \in [Badges -> BadgeStates] /\ \A b \in Badges : Good(badge[b])

AppsInv == BadgesGood /\ WireOK /\ CountsOK

\* A step from s to r does not strand the badge, or is the end of a text.
Rightly(s, r) == ~Stranded(s) /\ Stranded(r) => s.surprise /\ ~r.surprise

\* What an action does to the badges.
Moves == BadgesGood' /\ \A b \in Badges : Rightly(badge[b], badge'[b])

\* What change_app leaves alone.
Keeps(s, r) == r.peer = s.peer /\ r.multi = s.multi /\ r.surprise = s.surprise /\ r.stored = s.stored

-----------------------------------------------------------------------------
(* After its exit no periodic task is left but the snake's, which nobody   *)
(* enabled in vain. *)
LEMMA OnExitStops ==
  ASSUME GamesAssumption, NEW s, Steady(s)
  PROVE  Idle(OnExit(s)) /\ Keeps(s, OnExit(s))
<1> USE DEF Steady, Idle, GamesAssumption
<1>1. CASE s.app = "snake"
  <2>1. OnExit(s) = IF "snake" \in s.enabled THEN [s EXCEPT !.enabled = @ \ {"snake"}] ELSE s
    BY <1>1 DEF OnExit, DisablePeriodic
  <2> QED
    BY <1>1, <2>1 DEF BadgeStates, Keeps, Tasks
<1>2. CASE s.app \in {"tetris", "show_name"}
  <2>1. s.app \in Tasks \ {"snake"} /\ s.app \in s.enabled
    BY <1>2 DEF BadgeStates, Tasks, Apps
  <2>2. OnExit(s) = [s EXCEPT !.enabled = @ \ {s.app}]
    BY <1>2, <2>1 DEF OnExit, DisablePeriodic
  <2> QED
    BY <2>1, <2>2 DEF BadgeStates, Keeps
<1>3. CASE s.app \notin {"snake", "tetris", "show_name"}
  <2>1. OnExit(s) = s
    BY <1>3 DEF OnExit
  <2> QED
    BY <1>3, <2>1 DEF BadgeStates, Keeps, Tasks
<1> QED
  BY <1>1, <1>2, <1>3

LEMMA RegisteredIdle ==
  ASSUME NEW s, Idle(s), NEW g \in Games
  PROVE  Idle(Registered(s, g)) /\ Keeps(s, Registered(s, g)) /\ Registered(s, g).app = s.app
<1>1. [s.state EXCEPT ![g] = "wait"] \in [Games -> {"none", "wait", "playing", "over"}]
  BY DEF Idle, BadgeStates
<1>2. Registered(s, g) = [s EXCEPT !.handlers = @ \cup {g}, !.state = [s.state EXCEPT ![g] = "wait"]]
  BY DEF Registered, Idle, BadgeStates
<1>3. s.handlers \cup {g} \in SUBSET Games
  BY DEF Idle, BadgeStates
<1> QED
  BY <1>1, <1>2, <1>3 DEF Idle, BadgeStates, Keeps

(* The entry of an app enables its task, found disabled, and Snake's       *)
(* clears _game_over. *)
LEMMA OnEntryStarts ==
  ASSUME GamesAssumption, NEW s, Idle(s)
  PROVE  Good(OnEntry(s)) /\ OnEntry(s).app = s.app /\ Keeps(s, OnEntry(s))
<1> USE DEF Steady, Idle, Good, GamesAssumption
<1>1. CASE s.app = "snake"
  <2>1. "snake" \in Games
    BY <1>1 DEF BadgeStates, Apps
  <2>2. OnEntry(s) = [Registered(s, "snake") EXCEPT !.gameOver = FALSE]
    BY <1>1 DEF OnEntry
  <2>3. Idle(Registered(s, "snake")) /\ Keeps(s, Registered(s, "snake")) /\ Registered(s, "snake").app = s.app
    BY <2>1, RegisteredIdle
  <2> QED
    BY <1>1, <2>2, <2>3 DEF BadgeStates, Keeps, Tasks
<1>2. CASE s.app = "tetris"
  <2> DEFINE r == Registered(s, "tetris")
  <2>1. "tetris" \in Games
    BY <1>2 DEF BadgeStates, Apps
  <2>2. Idle(r) /\ Keeps(s, r) /\ r.app = s.app
    BY <2>1, RegisteredIdle
  <2>3. OnEntry(s) = EnablePeriodic(r, "tetris")
    BY <1>2 DEF OnEntry
  <2> HIDE DEF r
  <2>4. OnEntry(s) = [r EXCEPT !.enabled = @ \cup {"tetris"}]
    BY <2>1, <2>2, <2>3 DEF EnablePeriodic, Tasks
  <2> QED
    BY <1>2, <2>1, <2>2, <2>4 DEF BadgeStates, Keeps, Tasks
<1>3. CASE s.app = "show_name"
  <2>1. OnEntry(s) = [s EXCEPT !.enabled = @ \cup {"show_name"}]
    BY <1>3 DEF OnEntry, EnablePeriodic, Tasks
  <2> QED
    BY <1>3, <2>1 DEF BadgeStates, Keeps, Tasks
<1>4. CASE s.app \notin {"snake", "tetris", "show_name"}
  <2>1. OnEntry(s) = s
    BY <1>4 DEF OnEntry
  <2> QED
    BY <1>4, <2>1 DEF BadgeStates, Keeps, Tasks
<1> QED
  BY <1>1, <1>2, <1>3, <1>4

(* change_app makes a steady badge a good one, from wherever it is. *)
LEMMA ChangeAppGood ==
  ASSUME GamesAssumption, NEW s, Steady(s), NEW new \in Apps
  PROVE  Good(ChangeApp(s, new)) /\ ChangeApp(s, new).app = new /\ Keeps(s, ChangeApp(s, new))
<1> DEFINE r == [OnExit(s) EXCEPT !.app = new]
<1>1. Idle(r) /\ r.app = new /\ Keeps(s, r)
  BY OnExitStops DEF Idle, BadgeStates, Keeps
<1> HIDE DEF r
<1>2. Good(OnEntry(r)) /\ OnEntry(r).app = new /\ Keeps(r, OnEntry(r))
  BY <1>1, OnEntryStarts
<1>3. ChangeApp(s, new) = OnEntry(r)
  BY DEF ChangeApp, r
<1> QED
  BY <1>1, <1>2, <1>3 DEF Keeps

LEMMA BackToMenuGood ==
  ASSUME GamesAssumption, NEW s, Steady(s), NEW ending
  PROVE  /\ Good(BackToMenu(s, ending)) /\ BackToMenu(s, ending).app = Menu(s)
         /\ Keeps(s, BackToMenu(s, ending))
<1> DEFINE r == IF s.app = ending THEN s ELSE Failed(s, "ending_app")
<1>1. Steady(r) /\ Keeps(s, r)
  BY DEF Steady, Failed, BadgeStates, Keeps
<1>2. Menu(s) \in Apps
  BY DEF Menu, Apps
<1> HIDE DEF r
<1>3. Good(ChangeApp(r, Menu(s))) /\ ChangeApp(r, Menu(s)).app = Menu(s) /\ Keeps(r, ChangeApp(r, Menu(s)))
  BY <1>1, <1>2, ChangeAppGood
<1>4. BackToMenu(s, ending) = ChangeApp(r, Menu(s))
  BY DEF BackToMenu, r
<1> QED
  BY <1>1, <1>3, <1>4 DEF Keeps

LEMMA GameOverGood ==
  ASSUME GamesAssumption, NEW s, Steady(s), NEW g
  PROVE  Good(GameOver(s, g)) /\ GameOver(s, g).app = "show_score" /\ Keeps(s, GameOver(s, g))
<1> DEFINE r == IF g = "snake" THEN [s EXCEPT !.gameOver = TRUE] ELSE s
<1>1. Steady(r) /\ Keeps(s, r)
  BY DEF Steady, BadgeStates, Keeps
<1> HIDE DEF r
<1>2. /\ Good(ChangeApp(r, "show_score")) /\ ChangeApp(r, "show_score").app = "show_score"
      /\ Keeps(r, ChangeApp(r, "show_score"))
  BY <1>1, ChangeAppGood DEF Apps
<1>3. GameOver(s, g) = ChangeApp(r, "show_score")
  BY DEF GameOver, r
<1> QED
  BY <1>1, <1>2, <1>3 DEF Keeps

(* Starting a game enables at most the snake's task. *)
LEMMA StartGameGood ==
  ASSUME GamesAssumption, NEW s, Good(s), NEW g \in Games
  PROVE  Good(StartGame(s, g)) /\ StartGame(s, g).app = s.app /\ Keeps(s, StartGame(s, g))
<1> DEFINE r == [s EXCEPT !.state[g] = "playing"]
<1>1. Good(r) /\ Keeps(s, r) /\ r.app = s.app
  BY DEF Good, Steady, BadgeStates, Keeps
<1> HIDE DEF r
<1>2. CASE g = "snake"
  <2>1. StartGame(s, g) = EnablePeriodic(r, "snake")
    BY <1>2 DEF StartGame, r
  <2>2. "snake" \in Tasks
    BY <1>2 DEF Tasks
  <2> QED
    BY <1>1, <2>1, <2>2 DEF Good, Steady, BadgeStates, Keeps, EnablePeriodic, Failed, Tasks
<1>3. CASE g # "snake"
  <2>1. StartGame(s, g) = r
    BY <1>3 DEF StartGame, r
  <2> QED
    BY <1>1, <2>1
<1> QED
  BY <1>2, <1>3

-----------------------------------------------------------------------------
(* Only the badge an action is about has to be looked at. *)
LEMMA OneMoves ==
  ASSUME BadgesGood, NEW b \in Badges, NEW r, Become(b, r), Good(r), Rightly(badge[b], r)
  PROVE  Moves
<1>1. r \in BadgeStates
  BY DEF Good, Steady
<1>2. badge' \in [Badges -> BadgeStates] /\ badge'[b] = r
  BY <1>1 DEF Become, BadgesGood
<1>3. \A c \in Badges \ {b} : badge'[c] = badge[c]
  BY DEF Become, BadgesGood
<1>4. \A c \in Badges : Good(badge'[c])
  BY <1>2, <1>3 DEF BadgesGood
<1>5. \A c \in Badges : Rightly(badge[c], badge'[c])
  BY <1>2, <1>3 DEF Rightly
<1> QED
  BY <1>2, <1>4, <1>5 DEF Moves, BadgesGood

LEMMA NoneMoves == ASSUME BadgesGood, UNCHANGED badge PROVE Moves
<1>1. \A b \in Badges : Rightly(badge[b], badge'[b])
  BY DEF Rightly
<1> QED
  BY <1>1 DEF Moves, BadgesGood

LEMMA OtherIsBadge == ASSUME BadgesAssumption, NEW b \in Badges PROVE Other(b) \in Badges /\ Other(b) # b
<1>1. Badges # {b}
  BY FS_Singleton DEF BadgesAssumption
<1>2. \E c \in Badges : c # b
  BY <1>1
<1> QED
  BY <1>2 DEF Other

LEMMA AppendWire ==
  ASSUME BoundsAssumption, WireOK, NEW b \in Badges, NEW p \in Packets, NEW q \in Seq(Packets),
         Len(q) < MaxFlight
  PROVE  Append(q, p) \in Seq(Packets) /\ Len(Append(q, p)) <= MaxFlight
BY DEF BoundsAssumption

LEMMA SendToWire ==
  ASSUME BoundsAssumption, WireOK, NEW b \in Badges, NEW g \in Games, NEW kind \in Kinds, SendTo(b, g, kind)
  PROVE  WireOK'
<1> DEFINE p == [game |-> g, kind |-> kind]
<1>1. p \in Packets
  BY DEF Packets
<1> HIDE DEF p
<1>2. CASE wire' = [wire EXCEPT ![b] = Append(@, p)] /\ Len(wire[b]) < MaxFlight
  <2>1. Append(wire[b], p) \in Seq(Packets) /\ Len(Append(wire[b], p)) <= MaxFlight
    BY <1>1, <1>2, AppendWire DEF WireOK
  <2> QED
    BY <1>2, <2>1 DEF WireOK
<1>3. CASE wire' = wire
  BY <1>3 DEF WireOK
<1> QED
  BY <1>2, <1>3 DEF SendTo, p

LEMMA SendIfWire ==
  ASSUME BadgesAssumption, BoundsAssumption, WireOK, NEW b \in Badges, NEW g \in Games, NEW kind \in Kinds,
         SendIfMultiplayer(b, g, kind)
  PROVE  WireOK'
<1>1. CASE SendTo(Other(b), g, kind)
  BY <1>1, SendToWire, OtherIsBadge
<1>2. CASE wire' = wire
  BY <1>2 DEF WireOK
<1> QED
  BY <1>1, <1>2 DEF SendIfMultiplayer

(* A badge that ends its game goes to the menu its peer stands for. *)
LEMMA MenuRight ==
  ASSUME GamesAssumption, NEW s, Steady(s), NEW ending
  PROVE  Rightly(s, BackToMenu(s, ending))
<1>1. /\ BackToMenu(s, ending).app = Menu(s)
      /\ Keeps(s, BackToMenu(s, ending))
  BY BackToMenuGood
<1>2. s.multi \subseteq Games
  BY DEF Steady, BadgeStates
<1> QED
  BY <1>1, <1>2 DEF Rightly, Stranded, Keeps, Menu, GamesAssumption

LEMMA OverRight ==
  ASSUME GamesAssumption, NEW s, Steady(s), NEW g
  PROVE  Rightly(s, GameOver(s, g))
<1>1. GameOver(s, g).app = "show_score" /\ Keeps(s, GameOver(s, g))
  BY GameOverGood
<1>2. s.multi \subseteq Games
  BY DEF Steady, BadgeStates
<1> QED
  BY <1>1, <1>2 DEF Rightly, Stranded, Keeps, GamesAssumption

-----------------------------------------------------------------------------
LEMMA InitAppsInv == GamesAssumption /\ BoundsAssumption /\ Init => AppsInv
<1> SUFFICES ASSUME GamesAssumption, BoundsAssumption, Init PROVE AppsInv
  OBVIOUS
<1>1. [g \in Games |-> "none"] \in [Games -> {"none", "wait", "playing", "over"}]
  OBVIOUS
<1>2. Good(Start)
  BY <1>1 DEF Good, Steady, Start, BadgeStates, Apps, Tasks, NoApp, GamesAssumption
<1>3. BadgesGood
  BY <1>2 DEF BadgesGood, Init, Good, Steady
<1> QED
  BY <1>3, EmptySeq DEF AppsInv, WireOK, CountsOK, Init, BoundsAssumption

-----------------------------------------------------------------------------
(* Each action: the badge it is about stays good and is not stranded, the  *)
(* packets fit, the bounds hold. *)
Kept == AppsInv' /\ Moves

LEMMA QuietKept ==
  ASSUME AppsInv, Moves, WireOK', Quiet
  PROVE  Kept
<1>1. CountsOK'
  BY DEF CountsOK, Quiet, AppsInv
<1> QED
  BY <1>1 DEF Kept, AppsInv, Moves

LEMMA SameWire == ASSUME WireOK, UNCHANGED wire PROVE WireOK'
BY DEF WireOK

LEMMA MenuButtonKept ==
  ASSUME GamesAssumption, AppsInv, NEW b \in Badges, MenuButton(b)
  PROVE  Kept
<1> DEFINE s == badge[b]
           new == IF s.app = "main_menu" THEN "show_name" ELSE Menu(s)
<1>1. Steady(s) /\ s.multi \subseteq Games
  BY DEF AppsInv, BadgesGood, Good, Steady, BadgeStates
<1>2. new \in Apps
  BY DEF Apps, Menu
<1>3. Good(ChangeApp(s, new)) /\ ChangeApp(s, new).app = new /\ Keeps(s, ChangeApp(s, new))
  BY <1>1, <1>2, ChangeAppGood
<1>4. Rightly(s, ChangeApp(s, new))
  BY <1>1, <1>3 DEF Rightly, Stranded, Keeps, Menu, GamesAssumption
<1>5. Moves
  BY <1>3, <1>4, OneMoves DEF MenuButton, AppsInv
<1> QED
  BY <1>5, QuietKept, SameWire DEF MenuButton, AppsInv

LEMMA MenuOKKept ==
  ASSUME GamesAssumption, BoundsAssumption, AppsInv, NEW b \in Badges, NEW g \in Games, MenuOK(b, g)
  PROVE  Kept
<1> DEFINE s == badge[b]
           multi == IF s.app = "connect_menu" THEN s.multi \cup {g} ELSE s.multi \ {g}
           r == [s EXCEPT !.multi = multi]
<1>1. Good(s) /\ s.multi \subseteq Games
  BY DEF AppsInv, BadgesGood, Good, Steady, BadgeStates
<1>2. multi \in SUBSET Games
  BY <1>1
<1>3. Steady(r) /\ r.multi = multi /\ r.peer = s.peer
  <2> HIDE DEF multi
  <2> QED
    BY <1>1, <1>2 DEF Good, Steady, BadgeStates
<1>4. Good(ChangeApp(r, g)) /\ ChangeApp(r, g).app = g /\ Keeps(r, ChangeApp(r, g))
  BY <1>3, ChangeAppGood DEF Apps
<1>5. Rightly(s, ChangeApp(r, g))
  BY <1>3, <1>4 DEF Rightly, Stranded, Keeps, MenuOK, GamesAssumption
<1>6. Become(b, ChangeApp(r, g)) /\ UNCHANGED <<wire, drops, texts>>
      /\ entries < MaxEntries /\ entries' = entries + 1
  BY DEF MenuOK
<1>7. Moves
  BY <1>4, <1>5, <1>6, OneMoves DEF AppsInv
<1>8. CountsOK'
  BY <1>6 DEF AppsInv, CountsOK, BoundsAssumption
<1> QED
  BY <1>6, <1>7, <1>8, SameWire DEF Kept, AppsInv, Moves

LEMMA ScoreBackKept ==
  ASSUME GamesAssumption, AppsInv, NEW b \in Badges, ScoreBack(b)
  PROVE  Kept
<1>1. Steady(badge[b])
  BY DEF AppsInv, BadgesGood, Good
<1>2. Good(BackToMenu(badge[b], "show_score")) /\ Rightly(badge[b], BackToMenu(badge[b], "show_score"))
  BY <1>1, BackToMenuGood, MenuRight
<1>3. Moves
  BY <1>2, OneMoves DEF ScoreBack, AppsInv
<1> QED
  BY <1>3, QuietKept, SameWire DEF ScoreBack, AppsInv

LEMMA GameOKKept ==
  ASSUME BadgesAssumption, GamesAssumption, BoundsAssumption, AppsInv,
         NEW b \in Badges, NEW g \in Games, GameOK(b, g)
  PROVE  Kept
<1> DEFINE s == badge[b]
           again == IF g = "snake" /\ s.gameOver THEN ChangeApp(s, "snake") ELSE s
<1>1. Good(s) /\ s.app = g
  BY DEF AppsInv, BadgesGood, GameOK
<1>2. Good(again) /\ again.app = s.app /\ Keeps(s, again)
  <2>1. CASE g = "snake" /\ s.gameOver
    <3>1. Good(ChangeApp(s, "snake")) /\ ChangeApp(s, "snake").app = "snake" /\ Keeps(s, ChangeApp(s, "snake"))
      BY <1>1, <2>1, ChangeAppGood DEF Good, Apps
    <3> QED
      BY <1>1, <2>1, <3>1
  <2>2. CASE ~(g = "snake" /\ s.gameOver)
    BY <1>1, <2>2 DEF Keeps
  <2> QED
    BY <2>1, <2>2
<1>3. Rightly(s, again)
  BY <1>2 DEF Rightly, Stranded, Keeps
<1>4. \/ Become(b, StartGame(again, g)) /\ SendIfMultiplayer(b, g, "START")
      \/ Become(b, again) /\ UNCHANGED wire
  BY DEF GameOK
<1> HIDE DEF again
<1>5. Good(StartGame(again, g)) /\ Rightly(s, StartGame(again, g))
  <2>1. Good(StartGame(again, g)) /\ StartGame(again, g).app = again.app /\ Keeps(again, StartGame(again, g))
    BY <1>2, StartGameGood
  <2> QED
    BY <1>2, <2>1 DEF Rightly, Stranded, Keeps
<1>6. Moves
  BY <1>2, <1>3, <1>4, <1>5, OneMoves DEF AppsInv
<1>7. WireOK'
  BY <1>4, SendIfWire, SameWire DEF AppsInv, Kinds
<1> QED
  BY <1>6, <1>7, QuietKept DEF GameOK

LEMMA GameBackKept ==
  ASSUME BadgesAssumption, GamesAssumption, BoundsAssumption, AppsInv,
         NEW b \in Badges, NEW g \in Games, GameBack(b, g)
  PROVE  Kept
<1>1. Steady(badge[b])
  BY DEF AppsInv, BadgesGood, Good
<1>2. Good(AbortGame(badge[b], g)) /\ Rightly(badge[b], AbortGame(badge[b], g))
  BY <1>1, BackToMenuGood, MenuRight DEF AbortGame
<1>3. Moves
  BY <1>2, OneMoves DEF GameBack, AppsInv
<1>4. WireOK'
  BY SendIfWire DEF GameBack, AppsInv, Kinds
<1> QED
  BY <1>3, <1>4, QuietKept DEF GameBack

(* A game that ends in its periodic task. *)
LEMMA GameEndsKept ==
  ASSUME BadgesAssumption, GamesAssumption, BoundsAssumption, AppsInv,
         NEW b \in Badges, NEW g \in Games,
         Become(b, GameOver(badge[b], g)), SendIfMultiplayer(b, g, "GAME_OVER"), Quiet
  PROVE  Kept
<1>1. Steady(badge[b])
  BY DEF AppsInv, BadgesGood, Good
<1>2. Good(GameOver(badge[b], g)) /\ Rightly(badge[b], GameOver(badge[b], g))
  BY <1>1, GameOverGood, OverRight
<1>3. Moves
  BY <1>2, OneMoves DEF AppsInv
<1>4. WireOK'
  BY SendIfWire DEF AppsInv, Kinds
<1> QED
  BY <1>3, <1>4, QuietKept

LEMMA PeriodicKept ==
  ASSUME BadgesAssumption, GamesAssumption, BoundsAssumption, AppsInv,
         NEW b \in Badges, SnakeRoutine(b) \/ TetrisPeriodic(b)
  PROVE  Kept
<1>1. badge[b].enabled \subseteq {"show_name"} \cup Games
  BY DEF AppsInv, BadgesGood, BadgeStates, Tasks
<1>2. CASE SnakeRoutine(b)
  BY <1>1, <1>2, GameEndsKept DEF SnakeRoutine
<1>3. CASE TetrisPeriodic(b)
  BY <1>1, <1>3, GameEndsKept DEF TetrisPeriodic
<1> QED
  BY <1>2, <1>3

LEMMA TetrisFullKept ==
  ASSUME GamesAssumption, AppsInv, NEW b \in Badges, "tetris" \in Games, TetrisFull(b)
  PROVE  Kept
<1> DEFINE s == badge[b]
           r == [s EXCEPT !.state = [s.state EXCEPT !["tetris"] = "over"]]
<1>1. Good(s)
  BY DEF AppsInv, BadgesGood
<1>2. [s.state EXCEPT !["tetris"] = "over"] \in [Games -> {"none", "wait", "playing", "over"}]
  BY <1>1 DEF Good, Steady, BadgeStates
<1>3. Good(r) /\ Keeps(s, r) /\ r.app = s.app
  BY <1>1, <1>2 DEF Good, Steady, BadgeStates, Keeps
<1>4. Become(b, r)
  BY <1>1 DEF TetrisFull, Good, Steady, BadgeStates
<1> HIDE DEF r
<1>5. Rightly(s, r)
  BY <1>3 DEF Rightly, Stranded, Keeps
<1>6. Moves
  BY <1>3, <1>4, <1>5, OneMoves DEF AppsInv
<1> QED
  BY <1>6, QuietKept, SameWire DEF TetrisFull, AppsInv

(* A packet: whatever the badge shows when it comes. *)
LEMMA ReceiveKept ==
  ASSUME BadgesAssumption, GamesAssumption, BoundsAssumption, AppsInv, NEW b \in Badges, Receive(b)
  PROVE  Kept
<1> DEFINE s == badge[b]
           p == Head(wire[b])
           rest == [wire EXCEPT ![b] = Tail(@)]
           c == Other(b)
           ack == [game |-> p.game, kind |-> "GAME_OVER_ACK"]
<1>1. wire[b] \in Seq(Packets) /\ wire[b] # <<>> /\ Len(wire[b]) <= MaxFlight /\ c \in Badges
  BY OtherIsBadge DEF AppsInv, WireOK, Receive
<1>2. p \in Packets /\ Tail(wire[b]) \in Seq(Packets) /\ Len(Tail(wire[b])) <= MaxFlight
  <2>1. p \in Packets /\ Tail(wire[b]) \in Seq(Packets) /\ Len(Tail(wire[b])) = Len(wire[b]) - 1
    BY <1>1, HeadTailProperties
  <2>2. Len(wire[b]) \in Nat /\ MaxFlight \in Nat
    BY <1>1, LenProperties DEF BoundsAssumption
  <2> QED
    BY <1>1, <2>1, <2>2
<1>3. rest \in [Badges -> Seq(Packets)] /\ \A d \in Badges : Len(rest[d]) <= MaxFlight
  BY <1>2 DEF AppsInv, WireOK
<1>4. ack \in Packets
  BY <1>2 DEF Packets, Kinds
<1>5. \/ /\ wire' = rest
         /\ \/ UNCHANGED badge
            \/ /\ p.game \in s.handlers
               /\ Become(b, CASE p.kind = "START" -> StartGame(s, p.game)
                               [] p.kind = "ABORT" -> AbortGame(s, p.game)
                               [] OTHER -> GameOver(s, p.game))
      \/ /\ Become(b, GameOver(s, p.game))
         /\ Len(wire[c]) < MaxFlight
         /\ wire' = [rest EXCEPT ![c] = Append(@, ack)]
  BY DEF Receive
<1>6. WireOK'
  <2>1. CASE wire' = rest
    BY <1>3, <2>1 DEF WireOK
  <2>2. CASE Len(wire[c]) < MaxFlight /\ wire' = [rest EXCEPT ![c] = Append(@, ack)]
    <3>1. rest[c] \in Seq(Packets) /\ Len(rest[c]) < MaxFlight
      <4>1. c # b
        BY OtherIsBadge
      <4>2. rest[c] = wire[c]
        BY <1>1, <4>1 DEF AppsInv, WireOK
      <4> QED
        BY <1>1, <2>2, <4>2 DEF AppsInv, WireOK
    <3> HIDE DEF rest, ack
    <3>2. Append(rest[c], ack) \in Seq(Packets) /\ Len(Append(rest[c], ack)) <= MaxFlight
      BY <1>4, <3>1, AppendWire, <1>1 DEF AppsInv
    <3> QED
      BY <1>3, <2>2, <3>2 DEF WireOK
  <2> QED
    BY <1>5, <2>1, <2>2
<1>7. Good(s) /\ p.game \in Games
  BY <1>2 DEF AppsInv, BadgesGood, Packets
<1> HIDE DEF p
<1>8. Good(StartGame(s, p.game)) /\ Rightly(s, StartGame(s, p.game))
  <2>1. Good(StartGame(s, p.game)) /\ StartGame(s, p.game).app = s.app /\ Keeps(s, StartGame(s, p.game))
    BY <1>7, StartGameGood
  <2> QED
    BY <2>1 DEF Rightly, Stranded, Keeps
<1>9. Good(AbortGame(s, p.game)) /\ Rightly(s, AbortGame(s, p.game))
  BY <1>7, BackToMenuGood, MenuRight DEF AbortGame, Good
<1>10. Good(GameOver(s, p.game)) /\ Rightly(s, GameOver(s, p.game))
  BY <1>7, GameOverGood, OverRight DEF Good
<1>11. \/ UNCHANGED badge
       \/ Become(b, StartGame(s, p.game))
       \/ Become(b, AbortGame(s, p.game))
       \/ Become(b, GameOver(s, p.game))
  BY <1>5
<1>12. Moves
  BY <1>8, <1>9, <1>10, <1>11, OneMoves, NoneMoves DEF AppsInv
<1> QED
  BY <1>6, <1>12, QuietKept DEF Receive

LEMMA ConnectKept ==
  ASSUME GamesAssumption, AppsInv, NEW b \in Badges, Connect(b)
  PROVE  Kept
<1> DEFINE s == badge[b]
           m == ChangeApp(s, "connect_menu")
           r == [m EXCEPT !.peer = TRUE]
<1>1. Good(m)
  BY ChangeAppGood DEF AppsInv, BadgesGood, Good, Apps
<1> HIDE DEF m
<1>2. Good(r) /\ r.peer
  BY <1>1 DEF Good, Steady, BadgeStates
<1>3. Become(b, r)
  BY DEF Connect, m
<1> HIDE DEF r
<1>4. Moves
  BY <1>2, <1>3, OneMoves DEF AppsInv, Rightly, Stranded
<1> QED
  BY <1>4, QuietKept, SameWire DEF Connect, AppsInv

LEMMA DisconnectKept ==
  ASSUME GamesAssumption, BoundsAssumption, AppsInv, NEW b \in Badges, Disconnect(b)
  PROVE  Kept
<1> DEFINE s == badge[b]
           m == ChangeApp(s, "show_name")
           r == [m EXCEPT !.peer = FALSE]
<1>1. Good(m) /\ m.app = "show_name"
  BY ChangeAppGood DEF AppsInv, BadgesGood, Good, Apps
<1> HIDE DEF m
<1>2. Good(r) /\ r.app = "show_name" /\ r.multi \subseteq Games
  BY <1>1 DEF Good, Steady, BadgeStates
<1>3. Become(b, r) /\ UNCHANGED wire
  BY DEF Disconnect, m
<1> HIDE DEF r
<1>4. Rightly(s, r)
  BY <1>2 DEF Rightly, Stranded, GamesAssumption
<1>5. Moves
  BY <1>2, <1>3, <1>4, OneMoves DEF AppsInv
<1>6. CountsOK'
  BY DEF Disconnect, AppsInv, CountsOK, BoundsAssumption
<1> QED
  BY <1>3, <1>5, <1>6, SameWire DEF Kept, AppsInv, Moves

LEMMA ShowTextKept ==
  ASSUME GamesAssumption, BoundsAssumption, AppsInv, NEW b \in Badges, ShowText(b)
  PROVE  Kept
<1> DEFINE s == badge[b]
           m == [s EXCEPT !.stored = s.app, !.surprise = TRUE]
           r == ChangeApp(m, "show_name")
<1>0. Good(s)
  BY DEF AppsInv, BadgesGood
<1>1. Steady(m)
  BY <1>0 DEF Good, Steady, BadgeStates, Apps
<1>2. Become(b, r) /\ UNCHANGED wire
  BY DEF ShowText
<1> HIDE DEF m
<1>3. Good(r) /\ r.app = "show_name"
  BY <1>1, ChangeAppGood DEF Apps
<1>4. r.multi \subseteq Games
  BY <1>3 DEF Good, Steady, BadgeStates
<1> HIDE DEF r
<1>5. Rightly(s, r)
  BY <1>3, <1>4 DEF Rightly, Stranded, GamesAssumption
<1>6. Moves
  BY <1>2, <1>3, <1>5, OneMoves DEF AppsInv
<1>7. CountsOK'
  BY DEF ShowText, AppsInv, CountsOK, BoundsAssumption
<1> QED
  BY <1>2, <1>6, <1>7, SameWire DEF Kept, AppsInv, Moves

LEMMA ComboKept ==
  ASSUME GamesAssumption, BoundsAssumption, AppsInv, NEW b \in Badges, Combo(b)
  PROVE  Kept
<1> DEFINE s == badge[b]
           r == [s EXCEPT !.stored = s.app]
<1>0. Good(s)
  BY DEF AppsInv, BadgesGood
<1>1. Good(r) /\ r.app = s.app /\ r.peer = s.peer /\ r.multi = s.multi
  BY <1>0 DEF Good, Steady, BadgeStates, Apps
<1>2. Become(b, r) /\ UNCHANGED wire
  BY DEF Combo
<1> HIDE DEF r
<1>3. Rightly(s, r)
  BY <1>1 DEF Rightly, Stranded
<1>4. Moves
  BY <1>1, <1>2, <1>3, OneMoves DEF AppsInv
<1>5. CountsOK'
  BY DEF Combo, AppsInv, CountsOK, BoundsAssumption
<1> QED
  BY <1>2, <1>4, <1>5, SameWire DEF Kept, AppsInv, Moves

(* The end of a text brings back the stored app: the one step that strands *)
(* a badge. *)
LEMMA TextOverKept ==
  ASSUME GamesAssumption, AppsInv, NEW b \in Badges, TextOver(b)
  PROVE  Kept
<1> DEFINE s == badge[b]
           m == [s EXCEPT !.surprise = FALSE]
           q == IF m.stored = NoApp THEN m ELSE ChangeApp(m, m.stored)
           r == [q EXCEPT !.stored = NoApp]
<1>0. Good(s)
  BY DEF AppsInv, BadgesGood
<1>1. Good(m) /\ m.surprise = FALSE
  BY <1>0 DEF Good, Steady, BadgeStates, Apps
<1>2. Become(b, r) /\ s.surprise
  BY DEF TextOver, RestoreApp
<1> HIDE DEF m
<1>3. Good(q) /\ q.surprise = FALSE
  <2>1. CASE m.stored = NoApp
    BY <1>1, <2>1
  <2>2. CASE m.stored # NoApp
    <3>1. m.stored \in Apps
      BY <1>1, <2>2 DEF Good, Steady, BadgeStates
    <3>2. Good(ChangeApp(m, m.stored)) /\ Keeps(m, ChangeApp(m, m.stored))
      BY <1>1, <3>1, ChangeAppGood DEF Good
    <3> QED
      BY <1>1, <2>2, <3>2 DEF Keeps
  <2> QED
    BY <2>1, <2>2
<1> HIDE DEF q
<1>4. Good(r) /\ ~r.surprise
  BY <1>3 DEF Good, Steady, BadgeStates
<1> HIDE DEF r
<1>5. Moves
  BY <1>2, <1>4, OneMoves DEF AppsInv, Rightly
<1> QED
  BY <1>5, QuietKept, SameWire DEF TextOver, AppsInv

-----------------------------------------------------------------------------
LEMMA NextKept ==
  ASSUME BadgesAssumption, GamesAssumption, BoundsAssumption, AppsInv, Next
  PROVE  Kept
<1>1. PICK b \in Badges :
        \/ MenuButton(b) \/ ScoreBack(b)
        \/ \E g \in Games : MenuOK(b, g) \/ GameOK(b, g) \/ GameBack(b, g)
        \/ SnakeRoutine(b) \/ TetrisPeriodic(b) \/ ("tetris" \in Games /\ TetrisFull(b))
        \/ Receive(b) \/ Connect(b) \/ Disconnect(b)
        \/ ShowText(b) \/ Combo(b) \/ TextOver(b)
  BY DEF Next
<1>2. CASE MenuButton(b) \/ ScoreBack(b)
  BY <1>2, MenuButtonKept, ScoreBackKept
<1>3. ASSUME NEW g \in Games, MenuOK(b, g) \/ GameOK(b, g) \/ GameBack(b, g) PROVE Kept
  BY <1>3, MenuOKKept, GameOKKept, GameBackKept
<1>4. CASE SnakeRoutine(b) \/ TetrisPeriodic(b)
  BY <1>4, PeriodicKept
<1>5. CASE "tetris" \in Games /\ TetrisFull(b)
  BY <1>5, TetrisFullKept
<1>6. CASE Receive(b)
  BY <1>6, ReceiveKept
<1>7. CASE Connect(b) \/ Disconnect(b)
  BY <1>7, ConnectKept, DisconnectKept
<1>8. CASE ShowText(b) \/ Combo(b) \/ TextOver(b)
  BY <1>8, ShowTextKept, ComboKept, TextOverKept
<1> QED
  BY <1>1, <1>2, <1>3, <1>4, <1>5, <1>6, <1>7, <1>8

LEMMA StutterKept == ASSUME AppsInv, UNCHANGED vars PROVE Kept
<1>1. Moves
  BY NoneMoves DEF AppsInv, vars
<1>2. WireOK' /\ CountsOK'
  BY DEF AppsInv, vars, WireOK, CountsOK
<1> QED
  BY <1>1, <1>2 DEF Kept, AppsInv, Moves

(* The inductive invariant: the badges are good, the packets fit, the      *)
(* bounds hold. *)
THEOREM AppsInvHolds == Spec => []AppsInv
<1>1. Init => AppsInv
  BY InitAppsInv, GamesAssumption, BoundsAssumption
<1>2. AppsInv /\ [Next]_vars => AppsInv'
  BY NextKept, StutterKept, BadgesAssumption, GamesAssumption, BoundsAssumption DEF Kept
<1> QED
  BY <1>1, <1>2, PTL DEF Spec

(* The variables keep their types: no handler, wherever it finds the       *)
(* badge, shows an app that does not exist or overfills the queue. *)
THEOREM AppsTypes == Spec => []AppsTypeOK
<1>1. AppsInv => AppsTypeOK
  BY DEF AppsInv, BadgesGood, WireOK, CountsOK, AppsTypeOK
<1> QED
  BY <1>1, AppsInvHolds, PTL

(* The periodic tasks of show_name and Tetris are enabled exactly while    *)
(* their app is shown, and never twice. *)
THEOREM TasksFollow == Spec => []TasksFollowApps
<1>1. AppsInv => TasksFollowApps
  BY DEF AppsInv, BadgesGood, Good, Steady, TasksFollowApps
<1> QED
  BY <1>1, AppsInvHolds, PTL

(* Snake is never shown with a game that is over. *)
THEOREM SnakeInFront == Spec => []SnakeInFrontNotOver
<1>1. AppsInv => SnakeInFrontNotOver
  BY DEF AppsInv, BadgesGood, Good, SnakeInFrontNotOver
<1> QED
  BY <1>1, AppsInvHolds, PTL

(* Only the end of a text leaves a badge without a peer in the connect     *)
(* menu or in a game for two. *)
THEOREM OnlyRestoreStrands == Spec => StrandedByRestore
<1>1. AppsInv /\ [Next]_vars => [\A b \in Badges : ~Stranded(badge[b]) /\ Stranded(badge'[b]) => Restored(b)]_vars
  <2>1. Moves => \A b \in Badges : ~Stranded(badge[b]) /\ Stranded(badge'[b]) => Restored(b)
    BY DEF Moves, Rightly, Restored
  <2> QED
    BY <2>1, NextKept, BadgesAssumption, GamesAssumption, BoundsAssumption DEF Kept
<1> QED
  BY <1>1, AppsInvHolds, PTL DEF Spec, StrandedByRestore
=============================================================================
