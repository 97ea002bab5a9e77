------------------------------ MODULE Remote ------------------------------
(***************************************************************************)
(* A player's remote control: what a key does to the screens and their     *)
(* cursors, to the image the player shows, and to the player's settings.   *)
(* Each infrared message is one step, with all that its handler calls.     *)
(*                                                                         *)
(* h is the handler: the menus, the display buffer and state_s.  An        *)
(* operator that models a function of the code maps a handler to what the  *)
(* function makes of it.  A size_t of -1 is written as -1.  A press that   *)
(* repeats a key within 200 ms is dropped, which is no step.               *)
(*                                                                         *)
(* h.moved is a history variable: another player or a page has moved the   *)
(* list's cursor since a screen was drawn here.                            *)
(***************************************************************************)
EXTENDS Integers, SequencesExt, FiniteSetsExt

CONSTANTS
  KeySets,     \* bound: in a behaviour the keys of one of these sets are pressed,
               \* "page" and "list" standing for the calls from elsewhere
  Menu,        \* Menu[s]: the items of the menus that never change
  Entries,     \* Entries[d]: the names in directory d of the music
  Root,        \* the directory the folder menu starts in
  MaxList,     \* bound: songs in the list, results of a search
  MaxLetters,  \* bound: letters typed in a search
  MaxVolume,   \* 100
  Delta,       \* slimVolumeScreen::delta
  Byte,        \* a uint8_t is below this
  PageVolumes, \* what a page may ask for
  Visus        \* the number of visualization modes

Statics == DOMAIN Menu
Menus   == Statics \cup {"folder", "playlist"}
Screens == Menus \cup {"playing", "search", "volume"}
None    == "none"

(* No menu is empty, and none has the volume popup as an item.             *)
ASSUME RemoteAssumption ==
  /\ {"main", "searchMenu", "favorites"} \subseteq Statics
  /\ Statics \cap {"folder", "playlist", "playing", "search", "volume", None} = {}
  /\ Menu \in [Statics -> Seq(STRING) \ {<<>>}]
  /\ \A s \in Statics : \A i \in 1 .. Len(Menu[s]) : Menu[s][i] # "volume"
  /\ Root \in DOMAIN Entries /\ Entries \in [DOMAIN Entries -> Seq(STRING)]
  /\ MaxList \in Nat \ {0} /\ MaxLetters \in Nat \ {0} /\ Visus \in Nat \ {0}
  /\ MaxVolume \in Nat \ {0} /\ Delta \in Nat \ {0}
  /\ Byte \in Nat /\ MaxVolume + Delta < Byte
  /\ PageVolumes \subseteq Int

VARIABLES keys, h

vars == <<keys, h>>

-----------------------------------------------------------------------------
(* The display: the buffer holds the image drawn last.  Drawing without a  *)
(* transition is put off while the player animates.                        *)
Size(x, s) ==
  CASE s \in Statics  -> Len(Menu[s])
    [] s = "folder"   -> Len(x.items)
    [] s = "playlist" -> x.songs

Image(x, s) ==
  [screen |-> s,
   item |-> CASE s \in Menus -> x.cursor[s]
              [] s = "search" -> IF x.mode = "text" THEN x.letters ELSE x.result
              [] OTHER -> 0]

Send(x, transition) ==
  IF transition # "c"
  THEN [x EXCEPT !.shown = x.buffer, !.refreshAfterAnim = FALSE, !.anim = TRUE]
  ELSE IF x.anim THEN [x EXCEPT !.refreshAfterAnim = TRUE]
  ELSE [x EXCEPT !.shown = x.buffer, !.refreshAfterAnim = FALSE]

Paint(x, s, transition) ==
  Send([x EXCEPT !.buffer = Image(x, s), !.moved = FALSE], transition)

(* The screen a popup gives way to is no popup.                            *)
Replace(x, new, transition) ==
  [(IF x.screen # new THEN Paint(x, new, transition) ELSE x) EXCEPT !.screen = new]

(* Screens draw themselves; the volume popup goes when its time is up.     *)
Draw(x, s, transition) ==
  IF s = "volume" /\ x.expired
  THEN Send(Replace(x, x.parent, "c"), "c")
  ELSE Paint(x, s, transition)

SetMenu(x, new, transition) == Replace(x, new, transition)

-----------------------------------------------------------------------------
(* The settings of the player, and what it is told of them.                *)
ClipTo(v, low, high) == LET w == IF v < low THEN low ELSE v
                        IN IF w > high THEN high ELSE w

SetVolume(x, v) == [x EXCEPT !.volume = ClipTo(v % Byte, 0, MaxVolume)]

SetBrightness(x, b) == [x EXCEPT !.light = b]
SetVisualization(x, v) == [x EXCEPT !.visu = v]
Stop(x) == [x EXCEPT !.playState = "stop"]
Pause(x) == [x EXCEPT !.playState = "pause"]
Unpause(x) == [x EXCEPT !.playState = "play"]

(* play() moves the playlist's cursor to the song, the n-th one.           *)
Play(x, n) == [x EXCEPT !.playState = "play", !.cursor["playlist"] = n]

(* Where the list is, when n is asked for: an empty list that was sought   *)
(* in is at -1.  seekList: to the n-th song, or at the end (an empty list  *)
(* that repeats is played from 0).                                         *)
Current(x, n) == IF n < x.songs \/ n = 0 THEN n ELSE -1
Seek(x, n)    == IF n < x.songs \/ n = 0 THEN Play(x, n) ELSE Stop(x)

(* setGroup, then seekList to its first song; addToGroup.                  *)
PlayNew(x, n) == IF n > 0 THEN Play([x EXCEPT !.songs = n], 0) ELSE x
AddTo(x, n)   == [x EXCEPT !.songs = Min({MaxList, @ + n})]

PowerDim(x) ==                               \* mutant: the visualization stays off
  IF x.power
  THEN SetVisualization([SetBrightness(Stop(x), -1) EXCEPT !.power = FALSE, !.audio = FALSE], 0)
  ELSE [SetBrightness(x, x.brightness - 1) EXCEPT !.power = TRUE, !.audio = TRUE]

Power(x) ==
  IF x.power
  THEN SetVisualization([SetBrightness(Stop(x), -1) EXCEPT !.power = FALSE, !.audio = FALSE], 0)
  ELSE SetVisualization([SetBrightness(x, x.brightness - 1) EXCEPT !.power = TRUE, !.audio = TRUE],
                        x.currentViso)

-----------------------------------------------------------------------------
(* The screens' command(): [x, handled].                                   *)
Handled(x)   == [x |-> x, handled |-> TRUE]
Unhandled(x) == [x |-> x, handled |-> FALSE]
Trap(x)      == [x EXCEPT !.trap = TRUE]

ParentOf(s) == CASE s = "main" -> None [] s = "playlist" -> "playing" [] OTHER -> "main"

Bumps(x, s, to, past, moved) ==
  IF to = x.cursor[s] THEN Draw(x, s, past)
  ELSE LET y == [x EXCEPT !.cursor[s] = to] IN Draw(y, s, moved)

EnterDir(x, d) == [x EXCEPT !.dirs = d, !.items = Entries[IF d = <<>> THEN Root ELSE Last(d)],
                            !.cursor["folder"] = 0]

(* slimBrowseMenu::run reads an item that is not there when the directory  *)
(* is empty.                                                               *)
RunFolder(x) ==
  LET i == x.cursor["folder"] + 1
  IN IF i \notin DOMAIN x.items THEN Trap(x)
     ELSE IF x.items[i] \in DOMAIN Entries
     THEN Draw(EnterDir(x, Append(x.dirs, x.items[i])), "folder", "r")
     ELSE Draw(x, "folder", "R")

Run(x, s) ==
  CASE s = "folder" -> RunFolder(x)
    [] s = "playlist" ->
         IF x.cursor[s] + 1 \in 1 .. x.songs
         THEN SetMenu(Play(x, x.cursor[s]), "playing", "l") ELSE x
    [] s \in Statics ->
         LET item == Menu[s][x.cursor[s] + 1]
         IN IF item \in Screens THEN SetMenu(x, item, "r") ELSE x

(* slimGenericMenu.  A digit stands for the first item it may begin, the   *)
(* n-th: from there it goes one down, from elsewhere it goes there and is  *)
(* left to the keys' other meaning.                                        *)
StepUnclipped(x, s, d) == x.cursor[s] + d                    \* mutant: no clip
Step(x, s, d) == ClipTo(x.cursor[s] + d, 0, Size(x, s) - 1)

GenericMenu(x, s, key, n) ==
  CASE key = "up"    -> Handled(Bumps(x, s, Step(x, s, -1), "D", "u"))
    [] key = "down"  -> Handled(Bumps(x, s, Step(x, s, 1), "U", "d"))
    [] key = "left"  -> Handled(IF ParentOf(s) # None THEN SetMenu(x, ParentOf(s), "l")
                                ELSE Draw(x, s, "L"))
    [] key = "right" -> Handled(Run(x, s))
    [] key = "digit" /\ n < Size(x, s) ->
         IF n = x.cursor[s] THEN Handled(Bumps(x, s, Step(x, s, 1), "U", "d"))
         ELSE LET y == [x EXCEPT !.cursor[s] = n] IN Unhandled(Draw(y, s, "c"))
    [] OTHER -> Unhandled(x)

(* Out of a directory, to its name in the one above.                       *)
LeaveDir(x) ==
  LET up == EnterDir(x, Front(x.dirs))
      at == {i \in DOMAIN up.items : up.items[i] = Last(x.dirs)}
      y  == [up EXCEPT !.cursor["folder"] = IF at = {} THEN 0 ELSE Max(at) - 1]
  IN Draw(y, "folder", "l")

Songs(x, n) ==   \* makeEntries: none, one file, or what is below a directory
  IF x.items = <<>> \/ x.items[x.cursor["folder"] + 1] \in DOMAIN Entries THEN n ELSE 1

Folder(x, key, n) ==
  CASE key = "left" /\ x.dirs # <<>> -> Handled(LeaveDir(x))
    [] key = "add"  -> Handled(AddTo(x, Songs(x, n)))
    [] key = "play" -> Handled(PlayNew(x, Songs(x, n)))
    [] OTHER -> GenericMenu(x, "folder", key, n)

Favorites(x, key, n) ==
  CASE key = "add"  -> Handled(AddTo(x, 1))
    [] key = "play" -> Handled(PlayNew(x, 1))
    [] OTHER -> GenericMenu(x, "favorites", key, n)

PlayList(x, key, n) ==
  IF key = "play" THEN Handled(Run(x, "playlist")) ELSE GenericMenu(x, "playlist", key, n)

(* To the parent, whose cursor goes to its first item after it is drawn.   *)
Playing(x, key, n) ==
  CASE key = "left"  -> LET y == SetMenu(x, "main", "l")
                        IN Handled([y EXCEPT !.cursor["main"] = 0])
    [] key = "right" -> Handled(Send(x, "R"))
    [] key \in {"up", "down"} -> PlayList(SetMenu(x, "playlist", "c"), key, n)
    [] OTHER -> Unhandled(x)

(* The number of letters of `match`, whether the next one is begun, and    *)
(* the n results of the last query.                                        *)
Typed(x, key, n) ==
  CASE key = "left"  -> [x EXCEPT !.newSymbol = FALSE,
                                  !.letters = IF x.newSymbol THEN @ ELSE @ - 1]
    [] key = "right" -> IF x.newSymbol
                        THEN [x EXCEPT !.mode = "results", !.result = 0, !.found = n]
                        ELSE [x EXCEPT !.newSymbol = x.letters < MaxLetters]
    [] key = "digit" -> [x EXCEPT !.newSymbol = FALSE,
                                  !.letters = IF x.newSymbol THEN @ + 1 ELSE @]
    [] OTHER -> x

Results(x, key, n) ==
  LET Redraw(y, transition) == Handled(Draw(y, "search", transition))
  IN CASE key = "left" -> Redraw([x EXCEPT !.mode = "text"], "l")
       [] key = "down" -> Redraw([x EXCEPT !.result = Min({@ + 1, x.found - 1})], "d")
       [] key = "up"   -> Redraw([x EXCEPT !.result = Max({@ - 1, 0})], "u")
       [] key = "add"  -> Redraw(AddTo(x, n), "c")
       [] key = "play" -> Redraw(PlayNew(x, n), "c")
       [] OTHER -> Unhandled(x)

Search(x, key, n) ==
  IF key = "left" /\ x.letters < 2 /\ ~x.newSymbol /\ x.mode = "text"
  THEN Handled(SetMenu(x, "searchMenu", "c"))
  ELSE IF x.mode = "text" THEN Unhandled(Typed(x, key, n)) ELSE Results(x, key, n)

Volume(x, key) ==
  LET y == [x EXCEPT !.expired = FALSE]
  IN CASE key = "vol+" -> Handled(Draw(SetVolume(y, ClipTo(x.volume + Delta, 0, MaxVolume)), "volume", "c"))
       [] key = "vol-" -> Handled(Draw(SetVolume(y, ClipTo(x.volume - Delta, 0, MaxVolume)), "volume", "c"))
       [] OTHER -> Unhandled(Draw(SetMenu(y, x.parent, "c"), "volume", "c"))

Command(x, key, n) ==
  CASE x.screen = "folder"    -> Folder(x, key, n)
    [] x.screen = "favorites" -> Favorites(x, key, n)
    [] x.screen = "playlist"  -> PlayList(x, key, n)
    [] x.screen = "playing"   -> Playing(x, key, n)
    [] x.screen = "search"    -> Search(x, key, n)
    [] x.screen = "volume"    -> Volume(x, key)
    [] OTHER -> GenericMenu(x, x.screen, key, n)

-----------------------------------------------------------------------------
(* ir(): the volume keys, the power key, then the screen, then what a key  *)
(* means on every screen, and the screen is drawn again.                   *)
VolumeKey(x, key) ==
  Volume(IF x.screen = "volume" THEN x
         ELSE [x EXCEPT !.parent = x.screen, !.screen = "volume"], key).x

Meaning(x, key, n) ==
  CASE key = "browse"     -> [x EXCEPT !.screen = "folder"]
    [] key = "search"     -> [x EXCEPT !.screen = "searchMenu"]
    [] key = "favorites"  -> [x EXCEPT !.screen = "favorites"]
    [] key = "playing"    -> IF x.screen # "playing" THEN [x EXCEPT !.screen = "playing"]
                             ELSE LET v == (x.currentViso + 1) % Visus
                                  IN SetVisualization([x EXCEPT !.currentViso = v], v)
    [] key = "play"       -> IF x.playState = "play" THEN Pause(x) ELSE Play(x, Current(x, n))
    [] key = "pause"      -> CASE x.playState = "play" -> Pause(x)
                               [] x.playState = "pause" -> Unpause(x)
                               [] OTHER -> x
    [] key = "seek"       -> Seek(x, n)
    [] key = "brightness" -> LET b == ((IF x.brightness % 2 = 0 THEN x.brightness + 1
                                        ELSE x.brightness) + 2) % 6
                             IN SetBrightness([x EXCEPT !.brightness = b], b - 1)
    [] OTHER -> x

OtherKey(x, key, n) ==
  LET r == Command(IF key = "power" THEN Power(x) ELSE x, key, n)
      m == Meaning(r.x, key, n)
  IN IF r.handled THEN r.x ELSE Draw(m, m.screen, "c")

Ir(key, n) ==
  /\ key \in keys \ {"page", "list"} /\ ~h.trap
  /\ h' = IF key \in {"vol+", "vol-"} THEN VolumeKey(h, key) ELSE OtherKey(h, key, n)
  /\ UNCHANGED keys

(* A status report: the screen is drawn.  At the end of a song (STMd and   *)
(* STMu) the list is sought in before.                                     *)
Stat == ~h.trap /\ h' = Draw(h, h.screen, "c") /\ UNCHANGED keys

SongEndsUndrawn(n) ==                        \* mutant: drawn first, then sought
  /\ ~h.trap /\ h.playState = "play"
  /\ h' = Seek(Draw(h, h.screen, "c"), n) /\ UNCHANGED keys
SongEnds(n) ==
  /\ ~h.trap /\ h.playState = "play"
  /\ h' = Draw(Seek(h, n), h.screen, "c") /\ UNCHANGED keys

(* The animation is over.                                                  *)
AnicStays ==                                 \* mutant: anim is not reset
  /\ ~h.trap /\ h.anim
  /\ h' = IF h.refreshAfterAnim THEN Send(h, "c") ELSE h
  /\ UNCHANGED keys
Anic ==
  /\ ~h.trap /\ h.anim
  /\ LET x == [h EXCEPT !.anim = FALSE]
     IN h' = IF x.refreshAfterAnim THEN Send(x, "c") ELSE x
  /\ UNCHANGED keys

(* Time passes; a page sets the volume, plays or stops.                    *)
Expire ==
  /\ ~h.trap /\ h.screen = "volume" /\ ~h.expired
  /\ h' = [h EXCEPT !.expired = TRUE] /\ UNCHANGED keys
Elsewhere(x) == [x EXCEPT !.moved = TRUE]

PageVolume(v) == "page" \in keys /\ ~h.trap /\ h' = SetVolume(h, v) /\ UNCHANGED keys
PagePlay(n) ==
  /\ "page" \in keys /\ ~h.trap
  /\ h' \in {Stop(h)} \cup (IF h.playState = "play" THEN {Pause(h)}
                           ELSE {Unpause(h), Elsewhere(Play(h, Current(h, n)))})
  /\ UNCHANGED keys

(* Another player or a page changes the list, or seeks in it: this player  *)
(* plays the song too, and the list's cursor moves without being drawn.    *)
OtherList(n) == "list" \in keys /\ ~h.trap /\ h' = [h EXCEPT !.songs = n] /\ UNCHANGED keys
OtherSeek(n) == "list" \in keys /\ ~h.trap /\ h' = Elsewhere(Seek(h, n)) /\ UNCHANGED keys

(* After the HELO, which draws the main menu and sends the brightness as   *)
(* it is: the keys send one less.                                          *)
Init ==
  /\ keys \in KeySets
  /\ h = [screen |-> "main", parent |-> None, expired |-> FALSE,
          cursor |-> [s \in Menus |-> 0], songs |-> 0,
          dirs |-> <<>>, items |-> Entries[Root],
          mode |-> "text", letters |-> 1, newSymbol |-> FALSE, result |-> 0, found |-> 0,
          buffer |-> [screen |-> "main", item |-> 0],
          shown |-> [screen |-> "main", item |-> 0],
          anim |-> FALSE, refreshAfterAnim |-> FALSE, trap |-> FALSE, moved |-> FALSE,
          volume |-> MaxVolume - 1, brightness |-> 5, light |-> 5, power |-> TRUE,
          audio |-> TRUE, currentViso |-> 0, visu |-> 0, playState |-> "stop"]

Next ==
  \/ \E key \in keys, n \in 0 .. MaxList : Ir(key, n)
  \/ Stat \/ Anic \/ Expire
  \/ \E v \in PageVolumes : PageVolume(v)
  \/ \E n \in 0 .. MaxList : SongEnds(n) \/ PagePlay(n) \/ OtherList(n) \/ OtherSeek(n)

Spec == Init /\ [][Next]_vars

(* The player ends its animations and keeps reporting.                     *)
FairSpec == Spec /\ WF_vars(Anic) /\ WF_vars(Stat)

-----------------------------------------------------------------------------
Images == [screen : Screens, item : Int]

Handlers ==
  [screen : Screens, parent : Screens \cup {None}, expired : BOOLEAN,
   cursor : [Menus -> Int], songs : 0 .. MaxList,
   dirs : Seq(DOMAIN Entries), items : Seq(STRING),
   mode : {"text", "results"}, letters : 1 .. MaxLetters, newSymbol : BOOLEAN,
   result : Int, found : Int, buffer : Images, shown : Images,
   anim : BOOLEAN, refreshAfterAnim : BOOLEAN, trap : BOOLEAN, moved : BOOLEAN,
   volume : 0 .. MaxVolume, brightness : {1, 3, 5}, light : {-1, 0, 2, 4, 5},
   power : BOOLEAN, audio : BOOLEAN,
   currentViso : 0 .. Visus - 1, visu : 0 .. Visus - 1, playState : {"stop", "play", "pause"}]

(* Each part of the handler in its range; the volume is 0..100 whatever a  *)
(* page asks for and however often a key is pressed.                       *)
TypeOK == keys \in KeySets /\ h \in Handlers

(* The image in the buffer is of the current screen, and a menu's is of    *)
(* the item the next key acts on: whatever this player's keys, reports and *)
(* ends of songs changed is drawn.  Two images may be wrong.  The list's,  *)
(* when another player or a page moved its cursor: play() does not draw    *)
(* (slimProto.cpp:946), and it is wrong until the screen is drawn again.   *)
(* And the main menu's, when "left" came to it from Now Playing: it is     *)
(* drawn before its cursor is moved (slimDisplay.cpp:282).  And the volume *)
(* popup, whatever key opened it and how often, gives way to a screen that *)
(* is no popup.                                                            *)
ScreenShown ==
  /\ h.screen = "volume" => h.parent \in Screens \ {"volume"}
  /\ h.buffer.screen = h.screen
  /\ h.screen \in Menus \ {"main"} =>
       \/ h.buffer = Image(h, h.screen)
       \/ h.screen = "playlist" /\ h.moved

(* A cursor is on an item, unless there is none or the list has shrunk;    *)
(* and no item is read that is not there, but in an empty directory.       *)
CursorsOnItems ==
  /\ \A s \in Statics \cup {"folder"} :
       Size(h, s) > 0 => h.cursor[s] + 1 \in 1 .. Size(h, s)
  /\ h.trap => h.items = <<>>

(* While the player is on, its outputs and its visualization are those     *)
(* that were chosen, also after it was off.  The light is too, but for the *)
(* first one: helo() sends the brightness as it is (slimProto.cpp:531),    *)
(* the keys one less (622, 692), so that off and on again dims a player by *)
(* one, for good.                                                          *)
PowerRestores ==
  h.power => /\ \/ h.light = h.brightness - 1
                \/ h.light = 5 /\ h.brightness = 5
             /\ h.audio /\ h.visu = h.currentViso

(* An image that was not sent, as the player was animating, is not         *)
(* forgotten: the player gets to show the buffer, whatever keys are pressed *)
(* before it reports the end of its animations.                            *)
ImageArrives == h.shown # h.buffer ~> h.shown = h.buffer
=============================================================================
