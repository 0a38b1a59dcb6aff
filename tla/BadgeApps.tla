----------------------------- MODULE BadgeApps -----------------------------
(***************************************************************************)
(* The badge controller (Logic/BadgeController.cc) and the two multiplayer *)
(* games it runs (App/MultiplayerGame.cc, SnakeApp.cc, TetrisApp.cc) on    *)
(* two connected badges.  A badge shows one app at a time; change_app runs *)
(* the exit of the old one and the entry of the new one.  A game registers *)
(* its packet handler when it is first entered and never takes it back, so *)
(* the peer's packets reach it whatever the badge shows.                   *)
(*                                                                         *)
(* A button, a packet and a run of a periodic task are one action each:    *)
(* the scheduler runs one task at a time.  Abstracted: the boards of the   *)
(* games (a run of a game may or may not end it), ATTACK packets, which    *)
(* change a board only, the other apps of the menus, and scores.           *)
(***************************************************************************)
EXTENDS Naturals, Sequences, FiniteSets

CONSTANTS
  Badges,     \* the two badges
  Games,      \* the multiplayer games of the menus
  MaxFlight,  \* bound: packets to one badge sent and not parsed yet
  MaxDrops,   \* bound: connections lost
  MaxTexts,   \* bound: texts shown by an infrared packet, and combos pressed
  MaxEntries  \* bound: games chosen in a menu

ASSUME BadgesAssumption == Cardinality(Badges) = 2
ASSUME GamesAssumption == Games \subseteq {"snake", "tetris"}
ASSUME BoundsAssumption == {MaxFlight, MaxDrops, MaxTexts, MaxEntries} \subseteq Nat

VARIABLES
  badge,   \* the controller and the apps of each badge
  wire,    \* the packets on their way to each badge
  drops,   \* connections lost so far
  texts,   \* texts and combos so far
  entries  \* games chosen so far

vars == <<badge, wire, drops, texts, entries>>

Apps == {"show_name", "main_menu", "connect_menu", "show_score"} \cup Games
NoApp == "none"
Tasks == {"show_name"} \cup Games   \* the periodic tasks of the apps that have one
Kinds == {"START", "ABORT", "GAME_OVER", "GAME_OVER_ACK"}
Packets == [game : Games, kind : Kinds]

Other(b) == CHOOSE c \in Badges : c # b

(* current_app and stored_app; whether show_name shows a text (mode =      *)
(* Surprise); GetPeer() = Peer2025; the games with a registered handler    *)
(* and those whose playerCount is MULTIPLAYER; each game's state and       *)
(* SnakeApp's _game_over; the enabled periodic tasks; the asserts failed.  *)
BadgeStates ==
  [app : Apps, stored : Apps \cup {NoApp}, surprise : BOOLEAN, peer : BOOLEAN,
   handlers : SUBSET Games, multi : SUBSET Games,
   state : [Games -> {"none", "wait", "playing", "over"}], gameOver : BOOLEAN,
   enabled : SUBSET Tasks, failed : SUBSET ({"ending_app"} \cup Tasks)]

Start ==
  [app |-> "show_name", stored |-> NoApp, surprise |-> FALSE, peer |-> FALSE,
   handlers |-> {}, multi |-> {},
   state |-> [g \in Games |-> "none"], gameOver |-> FALSE,
   enabled |-> {"show_name"}, failed |-> {}]

Init ==
  /\ badge = [b \in Badges |-> Start]
  /\ wire = [b \in Badges |-> <<>>]
  /\ drops = 0
  /\ texts = 0
  /\ entries = 0

----------------------------------------------------------------------------
(* The scheduler's periodic tasks: enabling one that is enabled, disabling *)
(* one that is disabled, ends in AssertOverflow and changes nothing.       *)
Failed(s, what) == [s EXCEPT !.failed = @ \cup {what}]

EnablePeriodic(s, t) ==
  IF t \in s.enabled THEN Failed(s, t) ELSE [s EXCEPT !.enabled = @ \cup {t}]

DisablePeriodic(s, t) ==
  IF t \in s.enabled THEN [s EXCEPT !.enabled = @ \ {t}] ELSE Failed(s, t)

OnExit(s) ==
  CASE s.app = "snake" -> IF "snake" \in s.enabled THEN DisablePeriodic(s, "snake") ELSE s
    [] s.app \in {"tetris", "show_name"} -> DisablePeriodic(s, s.app)
    [] OTHER -> s

Registered(s, g) == [s EXCEPT !.handlers = @ \cup {g}, !.state[g] = "wait"]

(* Mutant of OnEntry: _game_over survives. *)
OnEntryKeepsOver(s) ==
  CASE s.app = "snake" -> Registered(s, "snake")
    [] s.app = "tetris" -> EnablePeriodic(Registered(s, "tetris"), "tetris")
    [] s.app = "show_name" -> EnablePeriodic(s, "show_name")
    [] OTHER -> s

OnEntry(s) ==
  CASE s.app = "snake" -> [Registered(s, "snake") EXCEPT !.gameOver = FALSE]
    [] s.app = "tetris" -> EnablePeriodic(Registered(s, "tetris"), "tetris")
    [] s.app = "show_name" -> EnablePeriodic(s, "show_name")
    [] OTHER -> s

(* Mutant of ChangeApp: the old app is not told. *)
ChangeAppNoExit(s, new) == OnEntry([s EXCEPT !.app = new])

(* change_app: exit, assignment, entry. *)
ChangeApp(s, new) == OnEntry([OnExit(s) EXCEPT !.app = new])

\* The menu a badge goes back to, and the one MODE opens.
Menu(s) == IF s.peer THEN "connect_menu" ELSE "main_menu"

\* my_assert halts a debug build only: a release build records nothing and goes on.
BackToMenu(s, ending) ==
  ChangeApp(IF s.app = ending THEN s ELSE Failed(s, "ending_app"), Menu(s))

(* Mutant of RestoreApp: stored_app is cleared first. *)
RestoreAppCleared(s) == IF s.stored = NoApp THEN s ELSE ChangeApp([s EXCEPT !.stored = NoApp], NoApp)

RestoreApp(s) ==
  [(IF s.stored = NoApp THEN s ELSE ChangeApp(s, s.stored)) EXCEPT !.stored = NoApp]

StartGame(s, g) ==
  LET playing == [s EXCEPT !.state[g] = "playing"]
  IN IF g = "snake" THEN EnablePeriodic(playing, "snake") ELSE playing

AbortGame(s, g) == BackToMenu(s, g)

GameOver(s, g) ==
  ChangeApp(IF g = "snake" THEN [s EXCEPT !.gameOver = TRUE] ELSE s, "show_score")

----------------------------------------------------------------------------
Become(b, s) == badge' = [badge EXCEPT ![b] = s]

\* QueueDataForTx to the other badge: the packet may be lost on the way.
SendTo(b, g, kind) ==
  \/ wire' = [wire EXCEPT ![b] = Append(@, [game |-> g, kind |-> kind])] /\ Len(wire[b]) < MaxFlight
  \/ wire' = wire

SendIfMultiplayer(b, g, kind) ==
  IF g \in badge[b].multi THEN SendTo(Other(b), g, kind) ELSE UNCHANGED wire

Quiet == UNCHANGED <<drops, texts, entries>>

(* MODE in show_name; MODE or BACK in the main menu.  The connect menu     *)
(* ignores both.                                                           *)
MenuButton(b) ==
  /\ badge[b].app \in {"show_name", "main_menu"}
  /\ Become(b, ChangeApp(badge[b], IF badge[b].app = "main_menu" THEN "show_name" ELSE Menu(badge[b])))
  /\ UNCHANGED wire /\ Quiet

(* Mutant of MenuOK: the main menu does not set SINGLEPLAYER. *)
MenuOKKeepsCount(b, g) ==
  /\ badge[b].app \in {"main_menu", "connect_menu"}
  /\ LET multi == IF badge[b].app = "connect_menu" THEN badge[b].multi \cup {g} ELSE badge[b].multi
     IN Become(b, ChangeApp([badge[b] EXCEPT !.multi = multi], g))
  /\ entries < MaxEntries
  /\ entries' = entries + 1
  /\ UNCHANGED <<wire, drops, texts>>

\* OK on a game's entry of a menu: its function sets playerCount, then its app is entered.
MenuOK(b, g) ==
  /\ badge[b].app \in {"main_menu", "connect_menu"}
  /\ LET multi == IF badge[b].app = "connect_menu" THEN badge[b].multi \cup {g} ELSE badge[b].multi \ {g}
     IN Become(b, ChangeApp([badge[b] EXCEPT !.multi = multi], g))
  /\ entries < MaxEntries
  /\ entries' = entries + 1
  /\ UNCHANGED <<wire, drops, texts>>

ScoreBack(b) ==
  /\ badge[b].app = "show_score"
  /\ Become(b, BackToMenu(badge[b], "show_score"))
  /\ UNCHANGED wire /\ Quiet

\* OK in a game: in Snake a game that is over is entered again first.
GameOK(b, g) ==
  LET s == badge[b]
      again == IF g = "snake" /\ s.gameOver THEN ChangeApp(s, "snake") ELSE s
  IN /\ s.app = g
     /\ \/ /\ again.state[g] = "wait"
           /\ Become(b, StartGame(again, g))
           /\ SendIfMultiplayer(b, g, "START")
        \/ /\ again.state[g] # "wait"
           /\ Become(b, again)
           /\ UNCHANGED wire
     /\ Quiet

\* BACK in a game; Tetris ignores it once the game is over.
GameBack(b, g) ==
  /\ badge[b].app = g
  /\ g = "tetris" => badge[b].state[g] \in {"wait", "playing"}
  /\ Become(b, AbortGame(badge[b], g))
  /\ SendIfMultiplayer(b, g, "ABORT")
  /\ Quiet

\* The snake's routine, when the move ends the game; another move changes the board only.
SnakeRoutine(b) ==
  /\ "snake" \in badge[b].enabled
  /\ ~badge[b].gameOver
  /\ Become(b, GameOver(badge[b], "snake"))
  /\ SendIfMultiplayer(b, "snake", "GAME_OVER")
  /\ Quiet

\* A falling piece ends the game of Tetris, in a button's handler or in the periodic task.
TetrisFull(b) ==
  /\ badge[b].app = "tetris" \/ "tetris" \in badge[b].enabled
  /\ badge[b].state["tetris"] = "playing"
  /\ Become(b, [badge[b] EXCEPT !.state["tetris"] = "over"])
  /\ UNCHANGED wire /\ Quiet

TetrisPeriodic(b) ==
  /\ "tetris" \in badge[b].enabled
  /\ badge[b].state["tetris"] = "over"
  /\ Become(b, GameOver(badge[b], "tetris"))
  /\ SendIfMultiplayer(b, "tetris", "GAME_OVER")
  /\ Quiet

(* ParsePacket gives a packet to the handler its game has registered, if   *)
(* any; OnXboardRecv acts on it whatever app the badge shows.              *)
Receive(b) ==
  /\ wire[b] # <<>>
  /\ LET g == Head(wire[b]).game
         kind == Head(wire[b]).kind
         s == badge[b]
         rest == [wire EXCEPT ![b] = Tail(@)]
     IN \/ /\ g \notin s.handlers
           /\ wire' = rest
           /\ UNCHANGED badge
        \/ /\ g \in s.handlers
           /\ Become(b, CASE kind = "START" -> StartGame(s, g)
                          [] kind = "ABORT" -> AbortGame(s, g)
                          [] OTHER -> GameOver(s, g))
           /\ \/ wire' = rest
              \/ /\ kind = "GAME_OVER"
                 /\ Len(wire[Other(b)]) < MaxFlight
                 /\ wire' = [rest EXCEPT ![Other(b)] = Append(@, [game |-> g, kind |-> "GAME_OVER_ACK"])]
  /\ Quiet

----------------------------------------------------------------------------
\* The first pong of a badge, and the third missed one: the callback, then the new peer.
Connect(b) ==
  /\ ~badge[b].peer
  /\ Become(b, [ChangeApp(badge[b], "connect_menu") EXCEPT !.peer = TRUE])
  /\ UNCHANGED wire /\ Quiet

Disconnect(b) ==
  /\ badge[b].peer
  /\ drops < MaxDrops
  /\ Become(b, [ChangeApp(badge[b], "show_name") EXCEPT !.peer = FALSE])
  /\ drops' = drops + 1
  /\ UNCHANGED <<wire, texts, entries>>

\* An infrared packet with a text.
ShowText(b) ==
  /\ texts < MaxTexts
  /\ Become(b, ChangeApp([badge[b] EXCEPT !.stored = badge[b].app, !.surprise = TRUE], "show_name"))
  /\ texts' = texts + 1
  /\ UNCHANGED <<wire, drops, entries>>

\* The combo of buttons stores the app too, and sends the text to others.
Combo(b) ==
  /\ texts < MaxTexts
  /\ Become(b, [badge[b] EXCEPT !.stored = badge[b].app])
  /\ texts' = texts + 1
  /\ UNCHANGED <<wire, drops, entries>>

\* show_name's routine, ten seconds after the text was last put on the display.
TextOver(b) ==
  /\ "show_name" \in badge[b].enabled
  /\ badge[b].surprise
  /\ Become(b, RestoreApp([badge[b] EXCEPT !.surprise = FALSE]))
  /\ UNCHANGED wire /\ Quiet

Next ==
  \E b \in Badges :
    \/ MenuButton(b)
    \/ \E g \in Games : MenuOK(b, g)
    \/ ScoreBack(b)
    \/ \E g \in Games : GameOK(b, g)
    \/ \E g \in Games : GameBack(b, g)
    \/ SnakeRoutine(b)
    \/ "tetris" \in Games /\ TetrisFull(b)
    \/ TetrisPeriodic(b)
    \/ Receive(b)
    \/ Connect(b)
    \/ Disconnect(b)
    \/ ShowText(b)
    \/ Combo(b)
    \/ TextOver(b)

Spec == Init /\ [][Next]_vars

----------------------------------------------------------------------------
(* The types of the variables. *)
AppsTypeOK ==
  /\ badge \in [Badges -> BadgeStates]
  /\ \A b \in Badges : wire[b] \in Seq(Packets) /\ Len(wire[b]) <= MaxFlight
  /\ drops \in 0..MaxDrops
  /\ texts \in 0..MaxTexts
  /\ entries \in 0..MaxEntries

(* The tasks of show_name and Tetris are enabled exactly while their app   *)
(* is shown, and neither is ever enabled or disabled twice, though a       *)
(* packet, a connection or an infrared text may change the app in the      *)
(* middle of anything, the periodic task of the app itself included.       *)
TasksFollowApps ==
  \A b \in Badges :
    /\ \A t \in Tasks \ {"snake"} : t \in badge[b].enabled <=> badge[b].app = t
    /\ badge[b].failed \cap {"show_name", "tetris"} = {}

(* Snake is never shown with a game that is over, whether the routine, the *)
(* peer's GAME_OVER or its acknowledgement ended it and wherever the badge *)
(* was then: _game_over stays set behind other apps and must be gone when  *)
(* the game is entered, or its routine would do nothing for ever.          *)
SnakeInFrontNotOver == \A b \in Badges : badge[b].app = "snake" => ~badge[b].gameOver

(* A badge without a peer is in the connect menu, which no button leaves,  *)
(* or in a game for two only because a text shown meanwhile ended and put  *)
(* back the app it had replaced; no other step gets there.                 *)
Stranded(s) == ~s.peer /\ (s.app = "connect_menu" \/ s.app \in s.multi)
Restored(b) == badge[b].surprise /\ ~badge'[b].surprise
StrandedByRestore ==
  [][\A b \in Badges : ~Stranded(badge[b]) /\ Stranded(badge'[b]) => Restored(b)]_vars

(* What BackToMenu asserts: only the app that is shown ends itself. *)
EndsItself == \A b \in Badges : "ending_app" \notin badge[b].failed
============================================================================
