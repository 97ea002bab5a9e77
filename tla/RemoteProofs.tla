--------------------------- MODULE RemoteProofs ---------------------------
(***************************************************************************)
(* For any menus, any music, any length of the list and any keys: the      *)
(* screen that is shown is the one the next key acts on, every cursor is   *)
(* on an item, and the player comes back on as it was.                     *)
(***************************************************************************)
EXTENDS Remote, SequenceTheorems, WellFoundedInduction, TLAPS

(* A letter is only begun when there is room for it.                       *)
RoomForLetter(x) == x.newSymbol => x.letters < MaxLetters

OnItem(x, s) == Size(x, s) > 0 => x.cursor[s] + 1 \in 1 .. Size(x, s)
OnItems(x)   == /\ \A s \in Statics \cup {"folder"} : OnItem(x, s)
                /\ x.trap => x.items = << >>

AsChosen(x) == x.power => /\ \/ x.light = x.brightness - 1
                             \/ x.light = 5 /\ x.brightness = 5
                          /\ x.audio /\ x.visu = x.currentViso

(* What does not depend on the screen and on what was drawn last.          *)
Good(x) == RoomForLetter(x) /\ OnItems(x) /\ AsChosen(x)

NoPopup(x) == x.screen = "volume" => x.parent \in Screens \ {"volume"}

Shown(x) ==
  /\ NoPopup(x)
  /\ x.buffer.screen = x.screen
  /\ x.screen \in Menus \ {"main"} =>
       \/ x.buffer = Image(x, x.screen)
       \/ x.screen = "playlist" /\ x.moved

Inv == TypeOK /\ Good(h) /\ Shown(h)

(* y is x but for the screen and the display.                              *)
SameImages(x, y) ==
  y.cursor = x.cursor /\ y.mode = x.mode /\ y.letters = x.letters /\ y.result = x.result
SameSettings(x, y) ==
  /\ y.power = x.power /\ y.light = x.light /\ y.brightness = x.brightness
  /\ y.audio = x.audio /\ y.visu = x.visu /\ y.currentViso = x.currentViso
Kept(x, y) ==
  /\ SameImages(x, y) /\ SameSettings(x, y)
  /\ y.parent = x.parent /\ y.expired = x.expired /\ y.songs = x.songs
  /\ y.dirs = x.dirs /\ y.items = x.items /\ y.newSymbol = x.newSymbol
  /\ y.trap = x.trap

-----------------------------------------------------------------------------
(* The screens have names of their own.                                    *)
LEMMA Names ==
  /\ Statics \cap {"folder", "playlist", "playing", "search", "volume", None} = {}
  /\ {"main", "searchMenu", "favorites"} \subseteq Statics
  /\ None \notin Screens
  /\ Menus = Statics \cup {"folder", "playlist"}
  /\ Screens = Menus \cup {"playing", "search", "volume"}
<1>1. /\ Statics \cap {"folder", "playlist", "playing", "search", "volume", None} = {}
      /\ {"main", "searchMenu", "favorites"} \subseteq Statics
  BY RemoteAssumption
<1>2. None \notin {"folder", "playlist", "playing", "search", "volume"}
  BY DEF None
<1> QED
  BY <1>1, <1>2 DEF Screens, Menus

(* What is on the display when it is drawn.                                *)
LEMMA ImageType ==
  ASSUME NEW x \in Handlers, NEW s \in Screens
  PROVE  Image(x, s) \in Images /\ Image(x, s).screen = s
<1> DEFINE item == CASE s \in Menus -> x.cursor[s]
                     [] s = "search" -> IF x.mode = "text" THEN x.letters ELSE x.result
                     [] OTHER -> 0
<1>1. /\ x.cursor \in [Menus -> Int]
      /\ x.letters \in Int /\ x.result \in Int
  BY RemoteAssumption DEF Handlers
<1>2. s \in Menus \/ s = "search" \/ s \notin Menus \cup {"search"}
  OBVIOUS
<1>3. "search" \notin Menus
  BY Names
<1>4. item \in Int
  BY <1>1, <1>2, <1>3
<1>5. Image(x, s) = [screen |-> s, item |-> item]
  BY DEF Image
<1> HIDE DEF item
<1> QED
  BY <1>4, <1>5 DEF Images

LEMMA ImageSame ==
  ASSUME NEW x, NEW y, SameImages(x, y), NEW s
  PROVE  Image(y, s) = Image(x, s)
BY DEF Image, SameImages

(* Every menu but a directory and the list has items.                      *)
LEMMA Sizes ==
  ASSUME NEW x \in Handlers
  PROVE  /\ \A s \in Statics : Size(x, s) = Len(Menu[s]) /\ Len(Menu[s]) \in Nat \ {0}
         /\ Size(x, "folder") = Len(x.items)
         /\ Size(x, "playlist") = x.songs
         /\ \A s \in Menus : Size(x, s) \in Nat
<1>1. ASSUME NEW s \in Statics
      PROVE  Size(x, s) = Len(Menu[s]) /\ Len(Menu[s]) \in Nat \ {0}
  <2>1. Menu[s] \in Seq(STRING) /\ Menu[s] # << >>
    BY RemoteAssumption DEF Statics
  <2>2. Len(Menu[s]) \in Nat \ {0}
    BY <2>1, EmptySeq
  <2>3. s # "folder" /\ s # "playlist"
    BY Names
  <2> QED
    BY <2>2, <2>3 DEF Size
<1>2. Size(x, "folder") = Len(x.items)
  BY Names DEF Size
<1>3. Size(x, "playlist") = x.songs
  BY Names DEF Size
<1>4. Len(x.items) \in Nat /\ x.songs \in Nat
  BY RemoteAssumption DEF Handlers
<1> QED
  BY <1>1, <1>2, <1>3, <1>4 DEF Menus

LEMMA SizeSame ==
  ASSUME NEW x, NEW y, y.items = x.items, y.songs = x.songs, NEW s
  PROVE  Size(y, s) = Size(x, s)
BY DEF Size

LEMMA KeptGood ==
  ASSUME NEW x, NEW y, Kept(x, y), Good(x)
  PROVE  Good(y)
<1>1. \A s : Size(y, s) = Size(x, s)
  BY SizeSame DEF Kept
<1>2. OnItems(y)
  BY <1>1 DEF OnItems, OnItem, Good, Kept, SameImages
<1> QED
  BY <1>2 DEF Good, Kept, SameImages, SameSettings, RoomForLetter, AsChosen

LEMMA KeptImages ==
  ASSUME NEW x, NEW y, Kept(x, y)
  PROVE  \A s : Image(y, s) = Image(x, s)
BY ImageSame DEF Kept

(* Kept is transitive.                                                     *)
LEMMA KeptOn ==
  ASSUME NEW x, NEW y, NEW z, Kept(x, y), Kept(y, z)
  PROVE  Kept(x, z)
BY DEF Kept, SameImages, SameSettings

-----------------------------------------------------------------------------
(* The display.                                                            *)
LEMMA SendProperties ==
  ASSUME NEW x \in Handlers, NEW t
  PROVE  /\ Send(x, t) \in Handlers /\ Kept(x, Send(x, t))
         /\ Send(x, t).buffer = x.buffer /\ Send(x, t).screen = x.screen
         /\ Send(x, t).moved = x.moved
<1> DEFINE y == [x EXCEPT !.shown = x.buffer, !.refreshAfterAnim = FALSE, !.anim = TRUE]
           z == [x EXCEPT !.refreshAfterAnim = TRUE]
           w == [x EXCEPT !.shown = x.buffer, !.refreshAfterAnim = FALSE]
<1>1. y \in Handlers /\ Kept(x, y) /\ y.buffer = x.buffer /\ y.screen = x.screen
      /\ y.moved = x.moved
  BY ZenonT(30) DEF Handlers, Kept, SameImages, SameSettings
<1>2. z \in Handlers /\ Kept(x, z) /\ z.buffer = x.buffer /\ z.screen = x.screen
      /\ z.moved = x.moved
  BY DEF Handlers, Kept, SameImages, SameSettings
<1>3. w \in Handlers /\ Kept(x, w) /\ w.buffer = x.buffer /\ w.screen = x.screen
      /\ w.moved = x.moved
  BY ZenonT(30) DEF Handlers, Kept, SameImages, SameSettings
<1>4. Send(x, t) \in {y, z, w}
  BY DEF Send
<1> HIDE DEF y, z, w
<1> QED
  BY <1>1, <1>2, <1>3, <1>4

LEMMA PaintProperties ==
  ASSUME NEW x \in Handlers, NEW s \in Screens, NEW t
  PROVE  /\ Paint(x, s, t) \in Handlers /\ Kept(x, Paint(x, s, t))
         /\ Paint(x, s, t).buffer = Image(x, s) /\ Paint(x, s, t).screen = x.screen
<1> DEFINE y == [x EXCEPT !.buffer = Image(x, s), !.moved = FALSE]
<1>1. Image(x, s) \in Images
  BY ImageType
<1>2. y \in Handlers /\ Kept(x, y) /\ y.buffer = Image(x, s) /\ y.screen = x.screen
  BY <1>1 DEF Handlers, Kept, SameImages, SameSettings
<1>3. Paint(x, s, t) = Send(y, t)
  BY DEF Paint
<1> HIDE DEF y
<1> QED
  BY <1>2, <1>3, SendProperties, KeptOn

LEMMA ReplaceProperties ==
  ASSUME NEW x \in Handlers, NEW s \in Screens, NEW t
  PROVE  /\ Replace(x, s, t) \in Handlers /\ Kept(x, Replace(x, s, t))
         /\ Replace(x, s, t).screen = s
         /\ Replace(x, s, t).buffer = IF x.screen # s THEN Image(x, s) ELSE x.buffer
         /\ x.screen = s => Replace(x, s, t).moved = x.moved
<1> DEFINE y == IF x.screen # s THEN Paint(x, s, t) ELSE x
<1>1. /\ y \in Handlers /\ Kept(x, y)
      /\ y.buffer = IF x.screen # s THEN Image(x, s) ELSE x.buffer
      /\ x.screen = s => y.moved = x.moved
  BY PaintProperties DEF Kept, SameImages, SameSettings
<1>2. Replace(x, s, t) = [y EXCEPT !.screen = s]
  BY DEF Replace
<1> HIDE DEF y
<1> DEFINE z == [y EXCEPT !.screen = s]
<1>3. z \in Handlers /\ Kept(y, z) /\ z.screen = s /\ z.buffer = y.buffer
      /\ z.moved = y.moved
  BY <1>1 DEF Handlers, Kept, SameImages, SameSettings
<1> HIDE DEF z
<1> QED
  BY <1>1, <1>2, <1>3, KeptOn DEF z

LEMMA DrawnShown ==
  ASSUME NEW x, NoPopup(x), x.buffer = Image(x, x.screen), x.buffer.screen = x.screen
  PROVE  Shown(x)
BY Zenon DEF Shown

(* A screen that draws itself is shown, or gives way to one that is.       *)
LEMMA DrawProperties ==
  ASSUME NEW x \in Handlers, NoPopup(x), NEW t
  PROVE  LET y == Draw(x, x.screen, t)
         IN  /\ y \in Handlers /\ Kept(x, y) /\ Shown(y)
             /\ x.screen # "volume" => y.screen = x.screen
<1>1. x.screen \in Screens
  BY DEF Handlers
<1>2. CASE x.screen = "volume" /\ x.expired
  <2> DEFINE y == Replace(x, x.parent, "c")
  <2>1. x.parent \in Screens \ {"volume"}
    BY <1>2 DEF NoPopup
  <2>2. y \in Handlers /\ Kept(x, y) /\ y.screen = x.parent /\ y.buffer = Image(x, x.parent)
    BY <1>2, <2>1, ReplaceProperties
  <2>3. Draw(x, x.screen, t) = Send(y, "c")
    BY <1>2 DEF Draw
  <2> HIDE DEF y
  <2> DEFINE z == Send(y, "c")
  <2>4. z \in Handlers /\ Kept(y, z) /\ z.screen = x.parent /\ z.buffer = Image(x, x.parent)
    BY <2>2, SendProperties
  <2> HIDE DEF z
  <2>5. Kept(x, z)
    BY <2>2, <2>4, KeptOn
  <2>6. z.buffer = Image(z, z.screen) /\ z.buffer.screen = z.screen
    BY <2>1, <2>4, <2>5, KeptImages, ImageType
  <2>7. Shown(z)
    BY <2>1, <2>4, <2>6, DrawnShown DEF NoPopup
  <2> QED
    BY <1>2, <2>3, <2>4, <2>5, <2>7 DEF z
<1>3. CASE ~(x.screen = "volume" /\ x.expired)
  <2> DEFINE z == Paint(x, x.screen, t)
  <2>1. Draw(x, x.screen, t) = z
    BY <1>3 DEF Draw
  <2>2. z \in Handlers /\ Kept(x, z) /\ z.screen = x.screen /\ z.buffer = Image(x, x.screen)
    BY <1>1, PaintProperties
  <2> HIDE DEF z
  <2>3. z.buffer = Image(z, z.screen) /\ z.buffer.screen = z.screen
    BY <1>1, <2>2, KeptImages, ImageType
  <2>4. Shown(z)
    BY <2>2, <2>3, DrawnShown DEF NoPopup, Kept
  <2> QED
    BY <2>1, <2>2, <2>4
<1> QED
  BY <1>2, <1>3

(* A screen another gives way to is shown, unless it was the one.          *)
LEMMA SetMenuProperties ==
  ASSUME NEW x \in Handlers, NEW s \in Screens \ {"volume"}, NEW t,
         x.screen # s \/ Shown(x)
  PROVE  LET y == SetMenu(x, s, t)
         IN  y \in Handlers /\ Kept(x, y) /\ Shown(y) /\ y.screen = s
<1> DEFINE y == SetMenu(x, s, t)
<1>1. /\ y \in Handlers /\ Kept(x, y) /\ y.screen = s
      /\ y.buffer = IF x.screen # s THEN Image(x, s) ELSE x.buffer
      /\ x.screen = s => y.moved = x.moved
  BY ReplaceProperties DEF SetMenu
<1> HIDE DEF y
<1>2. Image(y, s) = Image(x, s) /\ Image(x, s).screen = s
  BY <1>1, KeptImages, ImageType
<1>3. ASSUME x.screen # s
      PROVE  Shown(y)
  <2>1. NoPopup(y)
    BY <1>1 DEF NoPopup
  <2>2. y.buffer = Image(y, y.screen) /\ y.buffer.screen = y.screen
    BY <1>1, <1>2, <1>3
  <2> QED
    BY <2>1, <2>2, DrawnShown
<1>4. ASSUME x.screen = s, Shown(x)
      PROVE  Shown(y)
  <2>1. NoPopup(y)
    BY <1>1 DEF NoPopup
  <2>2. y.screen \in Menus \ {"main"} =>
         \/ y.buffer = Image(y, y.screen)
         \/ y.screen = "playlist" /\ y.moved
    BY <1>1, <1>2, <1>4 DEF Shown
  <2>3. y.buffer.screen = y.screen
    BY <1>1, <1>4 DEF Shown
  <2> QED
    BY <2>1, <2>2, <2>3, Zenon DEF Shown
<1> QED
  BY <1>1, <1>3, <1>4 DEF y

-----------------------------------------------------------------------------
(* What is asked of a handler before a key, and of the answer to the key:  *)
(* a handled key leaves its screen shown; after another the screen is      *)
(* drawn, which is no popup.                                               *)
Ready(x) == x \in Handlers /\ Good(x) /\ Shown(x) /\ ~x.trap

Done(x) == x \in Handlers /\ Good(x) /\ Shown(x)

Answers(r) ==
  /\ r.x \in Handlers /\ Good(r.x)
  /\ r.handled \in BOOLEAN
  /\ r.handled => Shown(r.x)
  /\ ~r.handled => r.x.screen # "volume"

LEMMA HandledAnswers ==
  ASSUME NEW x, Done(x)
  PROVE  Answers(Handled(x))
BY DEF Answers, Handled, Done

LEMMA UnhandledAnswers ==
  ASSUME NEW x \in Handlers, Good(x), x.screen # "volume"
  PROVE  Answers(Unhandled(x))
BY DEF Answers, Unhandled

LEMMA GoodBy ==
  ASSUME NEW x \in Handlers, NEW y \in Handlers, OnItems(x),
         \A s \in Statics \cup {"folder"} : y.cursor[s] = x.cursor[s],
         y.items = x.items, y.trap = x.trap, RoomForLetter(y), AsChosen(y)
  PROVE  Good(y)
<1>1. \A s \in Statics \cup {"folder"} : Size(y, s) = Size(x, s)
  BY Sizes
<1>2. OnItems(y)
  BY <1>1 DEF OnItems, OnItem
<1> QED
  BY <1>2 DEF Good

LEMMA ShownBy ==
  ASSUME NEW x, NEW y, Shown(x), y.screen = x.screen, y.parent = x.parent,
         y.buffer = x.buffer, y.moved = x.moved, Image(y, x.screen) = Image(x, x.screen)
  PROVE  Shown(y)
BY DEF Shown, NoPopup

LEMMA ClipRange ==
  ASSUME NEW v \in Int, NEW low \in Int, NEW high \in Int
  PROVE  /\ ClipTo(v, low, high) \in Int
         /\ low <= high => ClipTo(v, low, high) \in low .. high
BY DEF ClipTo

LEMMA MinOfTwo ==
  ASSUME NEW a \in Int, NEW b \in Int
  PROVE  Min({a, b}) = IF a <= b THEN a ELSE b
BY DEF Min

LEMMA MaxOfTwo ==
  ASSUME NEW a \in Int, NEW b \in Int
  PROVE  Max({a, b}) = IF a >= b THEN a ELSE b
BY DEF Max

(* The last of some numbers up to n is the first of them that n is farthest *)
(* from: by the least-number principle.                                    *)
LEMMA GreatestNumber ==
  ASSUME NEW n \in Nat, NEW S, S \subseteq 1 .. n, S # {}
  PROVE  Max(S) \in S
<1> DEFINE R == OpToRel(<, Nat)
           D == {n - i : i \in S}
<1>1. IsWellFoundedOn(R, Nat)
  BY NatLessThanWellFounded
<1>2. \A j, k \in Nat : <<j, k>> \in R <=> j < k
  BY DEF OpToRel
<1> HIDE DEF R
<1>3. D \subseteq Nat /\ D # {}
  <2>1. \A i \in S : n - i \in Nat
    OBVIOUS
  <2>2. D \subseteq Nat
    BY <2>1, Zenon
  <2>3. PICK i \in S : TRUE
    BY Zenon
  <2>4. n - i \in D
    BY <2>3, Zenon
  <2> QED BY <2>2, <2>4, Zenon
<1> HIDE DEF R, D
<1>4. PICK d \in D : \A e \in D : ~(<<e, d>> \in R)
  BY <1>1, <1>3, WFMin
<1>5. PICK i \in S : d = n - i
  BY DEF D
<1>6. \A j \in S : i >= j
  <2> TAKE j \in S
  <2>1. n - j \in D /\ n - j \in Nat /\ d \in Nat
    BY <1>3 DEF D
  <2>2. ~(n - j < d)
    BY <1>2, <1>4, <2>1, Zenon
  <2> QED
    BY <2>1, <2>2, <1>5
<1> QED
  BY <1>6 DEF Max

-----------------------------------------------------------------------------
(* The menus.                                                              *)
LEMMA ReadyToDraw ==
  ASSUME NEW x \in Handlers, Good(x), NoPopup(x), NEW t
  PROVE  /\ Done(Draw(x, x.screen, t))
         /\ x.screen # "volume" => Draw(x, x.screen, t).screen = x.screen
<1> DEFINE y == Draw(x, x.screen, t)
<1>1. /\ y \in Handlers /\ Kept(x, y) /\ Shown(y)
      /\ x.screen # "volume" => y.screen = x.screen
  BY DrawProperties
<1> HIDE DEF y
<1>2. Good(y)
  BY <1>1, KeptGood
<1> QED
  BY <1>1, <1>2 DEF Done, y

LEMMA MenuSet ==
  ASSUME NEW x \in Handlers, Good(x), NEW s \in Screens \ {"volume"}, NEW t,
         x.screen # s \/ Shown(x)
  PROVE  Done(SetMenu(x, s, t)) /\ Kept(x, SetMenu(x, s, t)) /\ SetMenu(x, s, t).screen = s
<1> DEFINE y == SetMenu(x, s, t)
<1>1. y \in Handlers /\ Kept(x, y) /\ Shown(y) /\ y.screen = s
  BY SetMenuProperties
<1> HIDE DEF y
<1>2. Good(y)
  BY <1>1, KeptGood
<1> QED
  BY <1>1, <1>2 DEF Done, y

LEMMA CursorMoved ==
  ASSUME NEW x \in Handlers, Good(x), NEW s \in Menus, NEW c \in Int,
         s # "playlist" /\ Size(x, s) > 0 => c + 1 \in 1 .. Size(x, s)
  PROVE  LET y == [x EXCEPT !.cursor[s] = c]
         IN  /\ y \in Handlers /\ Good(y)
             /\ y.screen = x.screen /\ y.parent = x.parent /\ y.trap = x.trap
<1> DEFINE y == [x EXCEPT !.cursor[s] = c]
<1>1. x.cursor \in [Menus -> Int]
  BY DEF Handlers
<1>2. [x.cursor EXCEPT ![s] = c] \in [Menus -> Int]
  BY <1>1
<1>3. y = [x EXCEPT !.cursor = [x.cursor EXCEPT ![s] = c]]
  BY DEF Handlers
<1>4. /\ y \in Handlers
      /\ y.cursor = [x.cursor EXCEPT ![s] = c]
      /\ y.items = x.items /\ y.songs = x.songs /\ SameSettings(x, y)
      /\ y.screen = x.screen /\ y.parent = x.parent /\ y.trap = x.trap
      /\ y.newSymbol = x.newSymbol /\ y.letters = x.letters
  BY <1>2, <1>3 DEF Handlers, SameSettings
<1> HIDE DEF y
<1>5. ASSUME NEW m \in Statics \cup {"folder"}
      PROVE  OnItem(y, m)
  <2>1. m \in Menus /\ m # "playlist"
    BY Names
  <2>2. Size(y, m) = Size(x, m)
    BY <1>4, SizeSame
  <2>3. OnItem(x, m)
    BY DEF Good, OnItems
  <2> QED
    BY <1>1, <1>4, <2>1, <2>2, <2>3 DEF OnItem
<1>6. OnItems(y)
  BY <1>4, <1>5 DEF OnItems, Good
<1>7. Good(y)
  BY <1>4, <1>6 DEF Good, RoomForLetter, AsChosen, SameSettings
<1> QED
  BY <1>4, <1>7 DEF y

LEMMA StepRange ==
  ASSUME NEW x \in Handlers, NEW s \in Menus, NEW d \in {-1, 1}
  PROVE  /\ Step(x, s, d) \in Int
         /\ Size(x, s) > 0 => Step(x, s, d) + 1 \in 1 .. Size(x, s)
<1> DEFINE z == Size(x, s)
           v == x.cursor[s] + d
<1>1. z \in Nat /\ v \in Int
  <2>1. x.cursor[s] \in Int
    BY DEF Handlers
  <2> QED
    BY <2>1, Sizes
<1> HIDE DEF z, v
<1>2. ClipTo(v, 0, z - 1) \in Int
  BY <1>1, ClipRange
<1>3. z > 0 => ClipTo(v, 0, z - 1) \in 0 .. z - 1
  BY <1>1, ClipRange
<1>4. z > 0 => ClipTo(v, 0, z - 1) + 1 \in 1 .. z
  BY <1>1, <1>2, <1>3
<1> QED
  BY <1>2, <1>4 DEF Step, z, v

LEMMA NotPopup ==
  ASSUME NEW x, x.screen \in Menus \cup {"playing", "search"}
  PROVE  x.screen # "volume" /\ NoPopup(x)
BY Names DEF NoPopup

LEMMA BumpsDone ==
  ASSUME NEW x, Ready(x), NEW s \in Menus, x.screen = s, NEW d \in {-1, 1}, NEW t, NEW u
  PROVE  Done(Bumps(x, s, Step(x, s, d), t, u))
<1> DEFINE c == Step(x, s, d)
           y == [x EXCEPT !.cursor[s] = c]
<1>1. x \in Handlers /\ Good(x) /\ NoPopup(x)
  BY DEF Ready, Shown
<1>2. Done(Draw(x, s, t))
  BY <1>1, ReadyToDraw
<1>3. c \in Int /\ (Size(x, s) > 0 => c + 1 \in 1 .. Size(x, s))
  BY <1>1, StepRange
<1> HIDE DEF c
<1>4. y \in Handlers /\ Good(y) /\ y.screen = s
  BY <1>1, <1>3, CursorMoved
<1> HIDE DEF y
<1>5. NoPopup(y)
  BY <1>4, NotPopup
<1>6. Done(Draw(y, s, u))
  BY <1>4, <1>5, ReadyToDraw
<1> QED
  BY <1>2, <1>6 DEF Bumps, c, y

(* Into a directory: the cursor is on its first entry, if it has one.      *)
LEMMA EnterDirProperties ==
  ASSUME NEW x \in Handlers, Good(x), ~x.trap, NEW d \in Seq(DOMAIN Entries)
  PROVE  LET y == EnterDir(x, d)
         IN  /\ y \in Handlers /\ Good(y) /\ ~y.trap
             /\ y.screen = x.screen /\ y.parent = x.parent
             /\ y.cursor = [x.cursor EXCEPT !["folder"] = 0]
<1> DEFINE e == Entries[IF d = << >> THEN Root ELSE Last(d)]
           c == [x.cursor EXCEPT !["folder"] = 0]
           y == EnterDir(x, d)
<1>1. (IF d = << >> THEN Root ELSE Last(d)) \in DOMAIN Entries
  <2>1. CASE d = << >>
    BY <2>1, RemoteAssumption
  <2>2. CASE d # << >>
    <3>1. Len(d) \in 1 .. Len(d)
      BY <2>2, EmptySeq
    <3> QED
      BY <2>2, <3>1, ElementOfSeq DEF Last
  <2> QED
    BY <2>1, <2>2
<1>2. e \in Seq(STRING)
  BY <1>1, RemoteAssumption
<1>3. x.cursor \in [Menus -> Int] /\ "folder" \in Menus
  BY Names DEF Handlers
<1>4. c \in [Menus -> Int]
  BY <1>3
<1>5. y = [x EXCEPT !.dirs = d, !.items = e, !.cursor = c]
  BY DEF EnterDir, Handlers
<1> HIDE DEF e, c, y
<1>6. /\ y \in Handlers /\ y.items = e /\ y.cursor = c /\ y.songs = x.songs
      /\ y.screen = x.screen /\ y.parent = x.parent /\ y.trap = x.trap
      /\ SameSettings(x, y) /\ y.newSymbol = x.newSymbol /\ y.letters = x.letters
  BY ZenonT(30), <1>2, <1>4, <1>5 DEF Handlers, SameSettings
<1>7. ASSUME NEW m \in Statics
      PROVE  OnItem(y, m)
  <2>1. Size(y, m) = Size(x, m) /\ m # "folder" /\ m \in Menus
    BY <1>6, Sizes, Names
  <2>2. y.cursor[m] = x.cursor[m]
    BY <1>3, <1>6, <2>1 DEF c
  <2> QED
    BY <2>1, <2>2 DEF OnItem, Good, OnItems
<1>8. OnItem(y, "folder")
  <2>1. y.cursor["folder"] = 0 /\ Size(y, "folder") \in Nat
    BY <1>3, <1>6, Sizes DEF c
  <2> QED
    BY <2>1 DEF OnItem
<1>9. OnItems(y)
  BY <1>6, <1>7, <1>8 DEF OnItems
<1>10. Good(y)
  BY <1>6, <1>9 DEF Good, RoomForLetter, AsChosen, SameSettings
<1> QED
  BY <1>6, <1>10 DEF c, y

(* A song is played: the cursor of the list goes to it.                    *)
LEMMA PlayProperties ==
  ASSUME NEW x \in Handlers, Good(x), NEW n \in Int
  PROVE  LET y == Play(x, n)
         IN  /\ y \in Handlers /\ Good(y) /\ y.songs = x.songs
             /\ y.screen = x.screen /\ y.parent = x.parent /\ y.trap = x.trap
             /\ y.buffer = x.buffer /\ y.mode = x.mode /\ y.moved = x.moved
             /\ \A s \in Screens \ {"playlist"} : Image(y, s) = Image(x, s)
<1> DEFINE c == [x.cursor EXCEPT !["playlist"] = n]
           y == Play(x, n)
<1>1. x.cursor \in [Menus -> Int] /\ "playlist" \in Menus
  BY Names DEF Handlers
<1>2. c \in [Menus -> Int]
  BY <1>1
<1>3. y = [x EXCEPT !.playState = "play", !.cursor = c]
  BY DEF Play, Handlers
<1>4. \A s \in Menus \ {"playlist"} : c[s] = x.cursor[s]
  BY <1>1
<1> HIDE DEF c, y
<1>5. /\ y \in Handlers /\ y.cursor = c /\ y.songs = x.songs /\ y.items = x.items
      /\ y.screen = x.screen /\ y.parent = x.parent /\ y.trap = x.trap
      /\ y.buffer = x.buffer /\ y.mode = x.mode /\ y.result = x.result
      /\ y.moved = x.moved
      /\ SameSettings(x, y) /\ y.newSymbol = x.newSymbol /\ y.letters = x.letters
  BY ZenonT(30), <1>2, <1>3 DEF Handlers, SameSettings
<1>6. Good(y)
  <2>1. \A s \in Statics \cup {"folder"} : s \in Menus \ {"playlist"}
    BY Names
  <2>2. RoomForLetter(y) /\ AsChosen(y) /\ OnItems(x)
    BY <1>5 DEF Good, RoomForLetter, AsChosen, SameSettings
  <2> QED
    BY <1>4, <1>5, <2>1, <2>2, GoodBy
<1>7. \A s \in Screens \ {"playlist"} : Image(y, s) = Image(x, s)
  BY <1>4, <1>5 DEF Image
<1> QED
  BY <1>5, <1>6, <1>7 DEF y

(* The list gets longer, or is another one.                                *)
LEMMA SongsProperties ==
  ASSUME NEW x \in Handlers, Good(x), NEW n \in 0 .. MaxList
  PROVE  LET y == [x EXCEPT !.songs = n]
         IN  /\ y \in Handlers /\ Good(y)
             /\ y.screen = x.screen /\ y.parent = x.parent /\ y.trap = x.trap
             /\ y.buffer = x.buffer /\ y.mode = x.mode /\ y.moved = x.moved
             /\ \A s \in Screens : Image(y, s) = Image(x, s)
<1> DEFINE y == [x EXCEPT !.songs = n]
<1>1. /\ y \in Handlers /\ SameImages(x, y) /\ y.items = x.items
      /\ y.screen = x.screen /\ y.parent = x.parent /\ y.trap = x.trap
      /\ y.buffer = x.buffer /\ y.mode = x.mode /\ y.moved = x.moved
      /\ SameSettings(x, y) /\ y.newSymbol = x.newSymbol /\ y.letters = x.letters
  BY DEF Handlers, SameSettings, SameImages
<1> HIDE DEF y
<1>2. RoomForLetter(y) /\ AsChosen(y) /\ OnItems(x)
  BY <1>1 DEF Good, RoomForLetter, AsChosen, SameSettings
<1>3. Good(y)
  BY <1>1, <1>2, GoodBy DEF SameImages
<1> QED
  BY <1>1, <1>3, ImageSame DEF y

(* Adding to the list or replacing it leaves what is on the screen.        *)
LEMMA ListProperties ==
  ASSUME NEW x, Ready(x), NEW n \in 0 .. MaxList
  PROVE  /\ Ready(AddTo(x, n)) /\ AddTo(x, n).screen = x.screen
         /\ x.screen # "playlist" => Ready(PlayNew(x, n)) /\ PlayNew(x, n).screen = x.screen
<1>1. x \in Handlers /\ Good(x) /\ Shown(x) /\ x.screen \in Screens /\ ~x.trap
  BY DEF Ready, Handlers
<1>2. x.songs \in 0 .. MaxList /\ MaxList \in Nat
  BY <1>1, RemoteAssumption DEF Handlers
<1>3. Ready(AddTo(x, n)) /\ AddTo(x, n).screen = x.screen
  <2> DEFINE k == Min({MaxList, x.songs + n})
             y == [x EXCEPT !.songs = k]
  <2>1. k \in 0 .. MaxList
    BY <1>2, MinOfTwo
  <2>2. AddTo(x, n) = y
    BY <1>1 DEF AddTo, Handlers
  <2> HIDE DEF k
  <2>3. /\ y \in Handlers /\ Good(y)
        /\ y.screen = x.screen /\ y.parent = x.parent /\ y.trap = x.trap
        /\ y.buffer = x.buffer /\ y.moved = x.moved
        /\ \A s \in Screens : Image(y, s) = Image(x, s)
    BY <1>1, <2>1, SongsProperties
  <2> HIDE DEF y
  <2>4. Shown(y)
    BY <1>1, <2>3, ShownBy
  <2> QED
    BY <1>1, <2>2, <2>3, <2>4 DEF Ready
<1>4. ASSUME x.screen # "playlist"
      PROVE  Ready(PlayNew(x, n)) /\ PlayNew(x, n).screen = x.screen
  <2> DEFINE y == [x EXCEPT !.songs = n]
             z == Play(y, 0)
  <2>1. /\ y \in Handlers /\ Good(y)
        /\ y.screen = x.screen /\ y.parent = x.parent /\ y.trap = x.trap
        /\ y.buffer = x.buffer /\ y.moved = x.moved
        /\ \A s \in Screens : Image(y, s) = Image(x, s)
    BY <1>1, SongsProperties
  <2> HIDE DEF y
  <2>2. /\ z \in Handlers /\ Good(z)
        /\ z.screen = x.screen /\ z.parent = x.parent /\ z.trap = x.trap
        /\ z.buffer = x.buffer /\ z.moved = x.moved
        /\ Image(z, x.screen) = Image(x, x.screen)
    BY <1>1, <1>4, <2>1, PlayProperties
  <2> HIDE DEF z
  <2>3. Shown(z)
    BY <1>1, <2>2, ShownBy
  <2>4. PlayNew(x, n) \in {x, z}
    BY DEF PlayNew, y, z
  <2> QED
    BY <1>1, <2>2, <2>3, <2>4 DEF Ready
<1> QED
  BY <1>3, <1>4

LEMMA ReadyDone ==
  ASSUME NEW x, Ready(x)
  PROVE  Done(x)
BY DEF Ready, Done

(* In a directory the item the cursor is on is there, unless it is empty.  *)
LEMMA RunFolderDone ==
  ASSUME NEW x, Ready(x), x.screen = "folder"
  PROVE  Done(RunFolder(x))
<1> DEFINE i == x.cursor["folder"] + 1
<1>1. /\ x \in Handlers /\ Good(x) /\ Shown(x) /\ NoPopup(x) /\ ~x.trap
      /\ x.items \in Seq(STRING) /\ x.dirs \in Seq(DOMAIN Entries)
  BY DEF Ready, Handlers, Shown
<1>2. DOMAIN x.items = 1 .. Len(x.items) /\ Len(x.items) \in Nat
  BY <1>1, LenProperties
<1>3. Len(x.items) > 0 => i \in 1 .. Len(x.items)
  BY <1>1, Sizes DEF Good, OnItems, OnItem
<1> HIDE DEF i
<1>4. CASE i \notin DOMAIN x.items
  <2> DEFINE y == [x EXCEPT !.trap = TRUE]
  <2>1. Len(x.items) = 0
    BY <1>2, <1>3, <1>4
  <2>2. x.items = << >>
    BY <1>1, <2>1, EmptySeq
  <2>3. /\ y \in Handlers /\ SameImages(x, y) /\ SameSettings(x, y)
        /\ y.items = x.items /\ y.songs = x.songs
        /\ y.screen = x.screen /\ y.parent = x.parent /\ y.buffer = x.buffer
        /\ y.newSymbol = x.newSymbol /\ y.moved = x.moved
    BY <1>1 DEF Handlers, SameImages, SameSettings
  <2> HIDE DEF y
  <2>4. Good(y)
    <3>1. \A s \in Statics \cup {"folder"} : OnItem(y, s)
      BY <1>1, <2>3, SizeSame DEF Good, OnItems, OnItem, SameImages
    <3>2. OnItems(y)
      BY <2>2, <2>3, <3>1 DEF OnItems
    <3> QED
      BY <1>1, <2>3, <3>2 DEF Good, RoomForLetter, AsChosen, SameSettings, SameImages
  <2>5. Shown(y)
    BY <1>1, <2>3, ImageSame, ShownBy
  <2>6. RunFolder(x) = y
    BY <1>4 DEF RunFolder, Trap, y, i
  <2> QED
    BY <2>3, <2>4, <2>5, <2>6 DEF Done
<1>5. CASE i \in DOMAIN x.items /\ x.items[i] \in DOMAIN Entries
  <2> DEFINE d == Append(x.dirs, x.items[i])
             y == EnterDir(x, d)
  <2>1. d \in Seq(DOMAIN Entries)
    BY <1>1, <1>5, AppendProperties
  <2> HIDE DEF d
  <2>2. y \in Handlers /\ Good(y) /\ y.screen = "folder" /\ y.parent = x.parent
    BY <1>1, <2>1, EnterDirProperties
  <2>3. RunFolder(x) = Draw(y, "folder", "r")
    BY <1>5 DEF RunFolder, d, i
  <2> HIDE DEF y
  <2>4. NoPopup(y)
    BY <2>2 DEF NoPopup
  <2> QED
    BY <2>2, <2>3, <2>4, ReadyToDraw
<1>6. CASE i \in DOMAIN x.items /\ x.items[i] \notin DOMAIN Entries
  <2>1. RunFolder(x) = Draw(x, "folder", "R")
    BY <1>6 DEF RunFolder, i
  <2> QED
    BY <1>1, <2>1, ReadyToDraw
<1> QED
  BY <1>4, <1>5, <1>6

LEMMA RunDone ==
  ASSUME NEW x, Ready(x), NEW s \in Menus, x.screen = s
  PROVE  Done(Run(x, s))
<1>1. x \in Handlers /\ Good(x) /\ Shown(x) /\ Done(x)
  BY ReadyDone DEF Ready
<1>2. CASE s = "folder"
  BY <1>2, RunFolderDone, Names DEF Run
<1>3. CASE s = "playlist"
  <2> DEFINE n == x.cursor["playlist"]
             y == Play(x, n)
  <2>1. n \in Int
    BY <1>1, Names DEF Handlers
  <2> HIDE DEF n
  <2>2. y \in Handlers /\ Good(y) /\ y.screen = "playlist"
    BY <1>1, <1>3, <2>1, PlayProperties
  <2>3. Run(x, s) \in {x, SetMenu(y, "playing", "l")}
    BY <1>3, Names DEF Run, n
  <2> HIDE DEF y
  <2>4. "playing" \in Screens \ {"volume"}
    BY Names
  <2>5. Done(SetMenu(y, "playing", "l"))
    BY <2>2, <2>4, MenuSet
  <2> QED
    BY <1>1, <2>3, <2>5
<1>4. CASE s \in Statics
  <2> DEFINE i == x.cursor[s] + 1
             item == Menu[s][i]
  <2>1. i \in 1 .. Len(Menu[s])
    BY <1>1, <1>4, Sizes DEF Good, OnItems, OnItem
  <2> HIDE DEF i
  <2>2. item # "volume"
    BY <1>4, <2>1, RemoteAssumption
  <2>3. s # "folder" /\ s # "playlist"
    BY <1>4, Names
  <2>4. Run(x, s) = IF item \in Screens THEN SetMenu(x, item, "r") ELSE x
    BY <1>4, <2>3 DEF Run, i
  <2> HIDE DEF item
  <2>5. item \in Screens => Done(SetMenu(x, item, "r"))
    BY <1>1, <2>2, MenuSet
  <2> QED
    BY <1>1, <2>4, <2>5
<1> QED
  BY <1>2, <1>3, <1>4 DEF Menus

(* slimGenericMenu::command.                                               *)
LEMMA GenericMenuAnswers ==
  ASSUME NEW x, Ready(x), NEW s \in Menus, x.screen = s, NEW key, NEW n \in Nat
  PROVE  Answers(GenericMenu(x, s, key, n))
<1>1. x \in Handlers /\ Good(x) /\ Shown(x) /\ NoPopup(x)
  BY DEF Ready, Shown
<1>2. x.screen # "volume"
  BY NotPopup
<1>3. Answers(Unhandled(x))
  BY <1>1, <1>2, UnhandledAnswers
<1>4. CASE key = "up"
  BY <1>4, BumpsDone, HandledAnswers DEF GenericMenu
<1>5. CASE key = "down"
  BY <1>5, BumpsDone, HandledAnswers DEF GenericMenu
<1>6. CASE key = "left"
  <2>1. ParentOf(s) # None => ParentOf(s) \in Screens \ {"volume"}
    BY Names DEF ParentOf
  <2>2. ParentOf(s) # None => Done(SetMenu(x, ParentOf(s), "l"))
    BY <1>1, <2>1, MenuSet
  <2>3. Done(Draw(x, s, "L"))
    BY <1>1, ReadyToDraw
  <2>4. GenericMenu(x, s, key, n)
          = Handled(IF ParentOf(s) # None THEN SetMenu(x, ParentOf(s), "l") ELSE Draw(x, s, "L"))
    BY <1>6 DEF GenericMenu
  <2> QED
    BY <2>2, <2>3, <2>4, HandledAnswers
<1>7. CASE key = "right"
  BY <1>7, RunDone, HandledAnswers DEF GenericMenu
<1>8. CASE key = "digit" /\ n < Size(x, s)
  <2> DEFINE y == [x EXCEPT !.cursor[s] = n]
  <2>1. n \in Int /\ (Size(x, s) > 0 => n + 1 \in 1 .. Size(x, s))
    BY <1>1, <1>8, Sizes
  <2>2. y \in Handlers /\ Good(y) /\ y.screen = s
    BY <1>1, <2>1, CursorMoved
  <2>3. GenericMenu(x, s, key, n)
          = IF n = x.cursor[s] THEN Handled(Bumps(x, s, Step(x, s, 1), "U", "d"))
            ELSE Unhandled(Draw(y, s, "c"))
    BY <1>8 DEF GenericMenu
  <2> HIDE DEF y
  <2>4. NoPopup(y)
    BY <2>2, NotPopup
  <2>5. Done(Draw(y, s, "c")) /\ Draw(y, s, "c").screen # "volume"
    BY <1>2, <2>2, <2>4, ReadyToDraw
  <2>6. Answers(Unhandled(Draw(y, s, "c")))
    BY <2>5, UnhandledAnswers DEF Done
  <2> QED
    BY <2>3, <2>6, BumpsDone, HandledAnswers
<1>9. CASE key \notin {"up", "down", "left", "right"} /\ ~(key = "digit" /\ n < Size(x, s))
  BY <1>3, <1>9 DEF GenericMenu
<1> QED
  BY <1>4, <1>5, <1>6, <1>7, <1>8, <1>9

(* Out of a directory: the cursor goes to its name in the one above, or to *)
(* the first entry if it is not there.                                     *)
LEMMA LeaveDirDone ==
  ASSUME NEW x, Ready(x), x.screen = "folder", x.dirs # << >>
  PROVE  Done(LeaveDir(x))
<1> DEFINE d  == Front(x.dirs)
           up == EnterDir(x, d)
           at == {i \in DOMAIN up.items : up.items[i] = Last(x.dirs)}
           c  == IF at = {} THEN 0 ELSE Max(at) - 1
           y  == [up EXCEPT !.cursor["folder"] = c]
<1>1. x \in Handlers /\ Good(x) /\ ~x.trap /\ x.dirs \in Seq(DOMAIN Entries)
  BY DEF Ready, Handlers
<1>2. d \in Seq(DOMAIN Entries)
  <2>1. Len(x.dirs) \in Nat
    BY <1>1, LenProperties
  <2>2. \A i \in 1 .. Len(x.dirs) - 1 : x.dirs[i] \in DOMAIN Entries
    BY <1>1, <2>1, ElementOfSeq
  <2> QED
    BY <2>1, <2>2, SubSeqProperties DEF Front
<1> HIDE DEF d
<1>3. up \in Handlers /\ Good(up) /\ up.screen = "folder"
  BY <1>1, <1>2, EnterDirProperties
<1>4. LeaveDir(x) = Draw(y, "folder", "l")
  BY DEF LeaveDir, d
<1> HIDE DEF up
<1>5. DOMAIN up.items = 1 .. Len(up.items) /\ Len(up.items) \in Nat
  BY <1>3, LenProperties DEF Handlers
<1>6. at \subseteq 1 .. Len(up.items)
  BY <1>5
<1> HIDE DEF at
<1>7. at # {} => Max(at) \in 1 .. Len(up.items)
  BY <1>5, <1>6, GreatestNumber
<1>8. c \in Int /\ (Len(up.items) > 0 => c + 1 \in 1 .. Len(up.items))
  BY <1>5, <1>7
<1> HIDE DEF c
<1>9. y \in Handlers /\ Good(y) /\ y.screen = "folder"
  <2>1. "folder" \in Menus /\ Size(up, "folder") = Len(up.items)
    BY <1>3, Sizes, Names
  <2> QED
    BY <1>3, <1>8, <2>1, CursorMoved
<1> HIDE DEF y
<1>10. NoPopup(y)
  BY <1>9 DEF NoPopup
<1> QED
  BY <1>4, <1>9, <1>10, ReadyToDraw

LEMMA SongsRange ==
  ASSUME NEW x, NEW n \in 0 .. MaxList
  PROVE  Songs(x, n) \in 0 .. MaxList
<1>1. 1 \in 0 .. MaxList
  BY RemoteAssumption
<1> QED
  BY <1>1 DEF Songs

LEMMA ListAnswers ==
  ASSUME NEW x, Ready(x), NEW n \in 0 .. MaxList
  PROVE  /\ Answers(Handled(AddTo(x, n)))
         /\ x.screen # "playlist" => Answers(Handled(PlayNew(x, n)))
BY ListProperties, ReadyDone, HandledAnswers

LEMMA FolderAnswers ==
  ASSUME NEW x, Ready(x), x.screen = "folder", NEW key, NEW n \in 0 .. MaxList
  PROVE  Answers(Folder(x, key, n))
<1>1. "folder" \in Menus /\ n \in Nat
  BY Names, RemoteAssumption
<1>2. Answers(GenericMenu(x, "folder", key, n))
  BY <1>1, GenericMenuAnswers
<1>3. x.dirs # << >> => Answers(Handled(LeaveDir(x)))
  BY LeaveDirDone, HandledAnswers
<1>4. Answers(Handled(AddTo(x, Songs(x, n)))) /\ Answers(Handled(PlayNew(x, Songs(x, n))))
  BY SongsRange, ListAnswers
<1>5. CASE key = "left" /\ x.dirs # << >>
  BY <1>3, <1>5 DEF Folder
<1>6. CASE key = "add"
  BY <1>4, <1>6 DEF Folder
<1>7. CASE key = "play"
  BY <1>4, <1>7 DEF Folder
<1>8. CASE ~(key = "left" /\ x.dirs # << >>) /\ key # "add" /\ key # "play"
  BY <1>2, <1>8 DEF Folder
<1> QED
  BY <1>5, <1>6, <1>7, <1>8

LEMMA FavoritesAnswers ==
  ASSUME NEW x, Ready(x), x.screen = "favorites", NEW key, NEW n \in 0 .. MaxList
  PROVE  Answers(Favorites(x, key, n))
<1>1. "favorites" \in Menus /\ n \in Nat /\ 1 \in 0 .. MaxList
  BY Names, RemoteAssumption
<1>2. Answers(GenericMenu(x, "favorites", key, n))
  BY <1>1, GenericMenuAnswers
<1>3. Answers(Handled(AddTo(x, 1))) /\ Answers(Handled(PlayNew(x, 1)))
  BY <1>1, ListAnswers
<1>4. CASE key = "add"
  BY <1>3, <1>4 DEF Favorites
<1>5. CASE key = "play"
  BY <1>3, <1>5 DEF Favorites
<1>6. CASE key # "add" /\ key # "play"
  BY <1>2, <1>6 DEF Favorites
<1> QED
  BY <1>4, <1>5, <1>6

LEMMA PlayListAnswers ==
  ASSUME NEW x, Ready(x), x.screen = "playlist", NEW key, NEW n \in 0 .. MaxList
  PROVE  Answers(PlayList(x, key, n))
<1>1. "playlist" \in Menus /\ n \in Nat
  BY Names, RemoteAssumption
<1>2. Answers(GenericMenu(x, "playlist", key, n))
  BY <1>1, GenericMenuAnswers
<1>3. Answers(Handled(Run(x, "playlist")))
  BY <1>1, RunDone, HandledAnswers
<1> QED
  BY <1>2, <1>3 DEF PlayList

(* The main menu's cursor moves after the menu is drawn: for that menu     *)
(* only the screen in the buffer is right.                                 *)
LEMMA PlayingAnswers ==
  ASSUME NEW x, Ready(x), x.screen = "playing", NEW key, NEW n \in 0 .. MaxList
  PROVE  Answers(Playing(x, key, n))
<1>1. x \in Handlers /\ Good(x) /\ Shown(x) /\ ~x.trap
  BY DEF Ready
<1>2. /\ "main" \in Statics /\ "main" \in Menus /\ "main" \in Screens \ {"volume"}
      /\ "playlist" \in Screens \ {"volume"} /\ "main" # "playing"
  BY Names
<1>3. CASE key = "left"
  <2> DEFINE y == SetMenu(x, "main", "l")
             z == [y EXCEPT !.cursor["main"] = 0]
  <2>1. Done(y) /\ y.screen = "main"
    BY <1>1, <1>2, MenuSet
  <2> HIDE DEF y
  <2>2. Size(y, "main") > 0 => 0 + 1 \in 1 .. Size(y, "main")
    BY <1>2, <2>1, Sizes DEF Done
  <2>3. /\ z \in Handlers /\ Good(z)
        /\ z.screen = "main" /\ z.buffer = y.buffer
    <3>1. z \in Handlers /\ Good(z) /\ z.screen = y.screen
      <4>1. y \in Handlers /\ Good(y) /\ 0 \in Int
        BY <2>1 DEF Done
      <4> QED
        BY <1>2, <2>2, <4>1, CursorMoved
    <3>2. z.buffer = y.buffer
      BY <2>1 DEF Done, Handlers
    <3> QED
      BY <2>1, <3>1, <3>2
  <2> HIDE DEF z
  <2>4. Done(z)
    BY <2>1, <2>3 DEF Done, Shown, NoPopup
  <2>5. Playing(x, key, n) = Handled(z)
    BY <1>3 DEF Playing, y, z
  <2> QED
    BY <2>4, <2>5, HandledAnswers
<1>4. CASE key = "right"
  <2> DEFINE y == Send(x, "R")
  <2>1. y \in Handlers /\ Kept(x, y) /\ y.buffer = x.buffer /\ y.screen = x.screen
        /\ y.moved = x.moved
    BY <1>1, SendProperties
  <2>2. Playing(x, key, n) = Handled(y)
    BY <1>4 DEF Playing
  <2> HIDE DEF y
  <2>3. Good(y) /\ Shown(y)
    BY <1>1, <2>1, KeptGood, KeptImages, ShownBy DEF Kept
  <2> QED
    BY <2>1, <2>2, <2>3, HandledAnswers DEF Done
<1>5. CASE key \in {"up", "down"}
  <2> DEFINE y == SetMenu(x, "playlist", "c")
  <2>1. Done(y) /\ Kept(x, y) /\ y.screen = "playlist"
    BY <1>1, <1>2, MenuSet
  <2>2. Playing(x, key, n) = PlayList(y, key, n)
    BY <1>5 DEF Playing
  <2> HIDE DEF y
  <2>3. Ready(y)
    BY <1>1, <2>1 DEF Done, Ready, Kept
  <2> QED
    BY <2>1, <2>2, <2>3, PlayListAnswers
<1>6. CASE key \notin {"left", "right", "up", "down"}
  <2>1. Playing(x, key, n) = Unhandled(x)
    BY <1>6 DEF Playing
  <2> QED
    BY <1>1, <2>1, UnhandledAnswers
<1> QED
  BY <1>3, <1>4, <1>5, <1>6

(* A letter is begun, changed, ended or taken back; or the words are.      *)
LEMMA TypedProperties ==
  ASSUME NEW x \in Handlers, Good(x), NEW key, NEW n \in 0 .. MaxList,
         ~(key = "left" /\ x.letters < 2 /\ ~x.newSymbol)
  PROVE  LET y == Typed(x, key, n)
         IN  y \in Handlers /\ Good(y) /\ y.screen = x.screen
<1>1. /\ x.letters \in 1 .. MaxLetters /\ x.newSymbol \in BOOLEAN
      /\ RoomForLetter(x) /\ AsChosen(x) /\ OnItems(x)
      /\ MaxLetters \in Nat /\ MaxList \in Nat
  BY RemoteAssumption DEF Handlers, Good
<1> DEFINE Ended(l) == [x EXCEPT !.newSymbol = FALSE, !.letters = l]
<1>2. ASSUME NEW l \in 1 .. MaxLetters
      PROVE  Ended(l) \in Handlers /\ Good(Ended(l)) /\ Ended(l).screen = x.screen
  <2> DEFINE y == Ended(l)
  <2>1. /\ y \in Handlers /\ y.cursor = x.cursor /\ y.items = x.items /\ y.trap = x.trap
        /\ ~y.newSymbol /\ SameSettings(x, y) /\ y.screen = x.screen
    BY DEF Handlers, SameSettings
  <2> HIDE DEF Ended
  <2>2. RoomForLetter(y) /\ AsChosen(y)
    BY <1>1, <2>1 DEF RoomForLetter, AsChosen, SameSettings
  <2>3. Good(y)
    BY <1>1, <2>1, <2>2, GoodBy
  <2> QED
    BY <2>1, <2>3
<1>3. CASE key = "left"
  <2> DEFINE l == IF x.newSymbol THEN x.letters ELSE x.letters - 1
  <2>1. l \in 1 .. MaxLetters
    BY <1>1, <1>3
  <2>2. Typed(x, key, n) = Ended(l)
    BY <1>3 DEF Typed, Handlers
  <2> HIDE DEF l, Ended
  <2> QED
    BY <1>2, <2>1, <2>2
<1>4. CASE key = "right" /\ x.newSymbol
  <2> DEFINE y == [x EXCEPT !.mode = "results", !.result = 0, !.found = n]
  <2>. n \in Int /\ 0 \in Int
    BY <1>1
  <2>1. /\ y \in Handlers /\ y.cursor = x.cursor /\ y.items = x.items /\ y.trap = x.trap
        /\ y.newSymbol = x.newSymbol /\ y.letters = x.letters
        /\ SameSettings(x, y) /\ y.screen = x.screen
    BY <1>1 DEF Handlers, SameSettings
  <2>2. Typed(x, key, n) = y
    BY <1>4 DEF Typed
  <2> HIDE DEF y
  <2>3. RoomForLetter(y) /\ AsChosen(y)
    BY <1>1, <2>1 DEF RoomForLetter, AsChosen, SameSettings
  <2>4. Good(y)
    BY <1>1, <2>1, <2>3, GoodBy
  <2> QED
    BY <2>1, <2>2, <2>4
<1>5. CASE key = "right" /\ ~x.newSymbol
  <2> DEFINE b == x.letters < MaxLetters
             y == [x EXCEPT !.newSymbol = b]
  <2>. b \in BOOLEAN
    OBVIOUS
  <2> HIDE DEF b
  <2>1. /\ y \in Handlers /\ y.cursor = x.cursor /\ y.items = x.items /\ y.trap = x.trap
        /\ y.newSymbol = b /\ y.letters = x.letters
        /\ SameSettings(x, y) /\ y.screen = x.screen
    BY DEF Handlers, SameSettings
  <2>2. Typed(x, key, n) = y
    BY <1>5 DEF Typed, b
  <2> HIDE DEF y
  <2>3. RoomForLetter(y) /\ AsChosen(y)
    BY <1>1, <2>1 DEF b, RoomForLetter, AsChosen, SameSettings
  <2>4. Good(y)
    BY <1>1, <2>1, <2>3, GoodBy
  <2> QED
    BY <2>1, <2>2, <2>4
<1>6. CASE key = "digit"
  <2> DEFINE l == IF x.newSymbol THEN x.letters + 1 ELSE x.letters
  <2>1. l \in 1 .. MaxLetters
    BY <1>1 DEF RoomForLetter
  <2>2. Typed(x, key, n) = Ended(l)
    BY <1>6 DEF Typed, Handlers
  <2> HIDE DEF l, Ended
  <2> QED
    BY <1>2, <2>1, <2>2
<1>7. CASE key \notin {"left", "right", "digit"}
  BY <1>7 DEF Typed
<1> QED
  BY <1>3, <1>4, <1>5, <1>6, <1>7

(* The list of results is drawn again after each of its keys.              *)
LEMMA ResultsAnswers ==
  ASSUME NEW x, Ready(x), x.screen = "search", NEW key, NEW n \in 0 .. MaxList
  PROVE  Answers(Results(x, key, n))
<1>1. /\ x \in Handlers /\ Good(x) /\ Shown(x) /\ ~x.trap
      /\ RoomForLetter(x) /\ AsChosen(x) /\ OnItems(x)
      /\ x.result \in Int /\ x.found \in Int
  BY DEF Ready, Good, Handlers
<1>2. ASSUME NEW y \in Handlers, Good(y), y.screen = "search", NEW t
      PROVE  Answers(Handled(Draw(y, "search", t)))
  BY <1>2, ReadyToDraw, HandledAnswers DEF NoPopup
<1>3. ASSUME NEW r \in Int, NEW m \in {"text", "results"}
      PROVE  LET y == [x EXCEPT !.mode = m, !.result = r]
             IN  y \in Handlers /\ Good(y) /\ y.screen = "search"
  <2> DEFINE y == [x EXCEPT !.mode = m, !.result = r]
  <2>1. /\ y \in Handlers /\ y.cursor = x.cursor /\ y.items = x.items /\ y.trap = x.trap
        /\ y.newSymbol = x.newSymbol /\ y.letters = x.letters
        /\ SameSettings(x, y) /\ y.screen = x.screen
    BY <1>1 DEF Handlers, SameSettings
  <2> HIDE DEF y
  <2>2. RoomForLetter(y) /\ AsChosen(y)
    BY <1>1, <2>1 DEF RoomForLetter, AsChosen, SameSettings
  <2>3. Good(y)
    BY <1>1, <2>1, <2>2, GoodBy
  <2> QED
    BY <2>1, <2>3 DEF y
<1>4. \A m \in {"text", "results"} : [x EXCEPT !.mode = m] = [x EXCEPT !.mode = m, !.result = x.result]
  BY <1>1 DEF Handlers
<1>5. \A r \in Int : [x EXCEPT !.result = r] = [x EXCEPT !.mode = x.mode, !.result = r]
  BY <1>1 DEF Handlers
<1>6. x.mode \in {"text", "results"}
  BY <1>1 DEF Handlers
<1>7. CASE key = "left"
  <2> DEFINE y == [x EXCEPT !.mode = "text"]
  <2>1. Results(x, key, n) = Handled(Draw(y, "search", "l"))
    BY <1>7 DEF Results
  <2>2. y \in Handlers /\ Good(y) /\ y.screen = "search"
    BY <1>1, <1>3, <1>4
  <2> HIDE DEF y
  <2> QED
    BY <1>2, <2>1, <2>2
<1>8. CASE key = "down"
  <2> DEFINE r == Min({x.result + 1, x.found - 1})
             y == [x EXCEPT !.result = r]
  <2>1. Results(x, key, n) = Handled(Draw(y, "search", "d"))
    BY <1>1, <1>8 DEF Results, Handlers
  <2>2. r \in Int
    BY <1>1, MinOfTwo
  <2> HIDE DEF r
  <2>3. y \in Handlers /\ Good(y) /\ y.screen = "search"
    BY <1>3, <1>5, <1>6, <2>2
  <2> HIDE DEF y
  <2> QED
    BY <1>2, <2>1, <2>3
<1>9. CASE key = "up"
  <2> DEFINE r == Max({x.result - 1, 0})
             y == [x EXCEPT !.result = r]
  <2>1. Results(x, key, n) = Handled(Draw(y, "search", "u"))
    BY <1>1, <1>9 DEF Results, Handlers
  <2>2. r \in Int
    BY <1>1, MaxOfTwo
  <2> HIDE DEF r
  <2>3. y \in Handlers /\ Good(y) /\ y.screen = "search"
    BY <1>3, <1>5, <1>6, <2>2
  <2> HIDE DEF y
  <2> QED
    BY <1>2, <2>1, <2>3
<1>10. CASE key = "add"
  <2>1. Results(x, key, n) = Handled(Draw(AddTo(x, n), "search", "c"))
    BY <1>10 DEF Results
  <2>2. Ready(AddTo(x, n)) /\ AddTo(x, n).screen = "search"
    BY ListProperties
  <2> QED
    BY <1>2, <2>1, <2>2 DEF Ready
<1>11. CASE key = "play"
  <2>1. Results(x, key, n) = Handled(Draw(PlayNew(x, n), "search", "c"))
    BY <1>11 DEF Results
  <2>2. Ready(PlayNew(x, n)) /\ PlayNew(x, n).screen = "search"
    BY ListProperties
  <2> QED
    BY <1>2, <2>1, <2>2 DEF Ready
<1>12. CASE key \notin {"left", "down", "up", "add", "play"}
  <2>1. Results(x, key, n) = Unhandled(x)
    BY <1>12 DEF Results
  <2> QED
    BY <1>1, <2>1, UnhandledAnswers
<1> QED
  BY <1>7, <1>8, <1>9, <1>10, <1>11, <1>12

LEMMA SearchAnswers ==
  ASSUME NEW x, Ready(x), x.screen = "search", NEW key, NEW n \in 0 .. MaxList
  PROVE  Answers(Search(x, key, n))
<1>1. x \in Handlers /\ Good(x) /\ x.mode \in {"text", "results"}
  BY DEF Ready, Handlers
<1>2. CASE key = "left" /\ x.letters < 2 /\ ~x.newSymbol /\ x.mode = "text"
  <2>1. "searchMenu" \in Screens \ {"volume"} /\ "searchMenu" # "search"
    BY Names
  <2>2. Done(SetMenu(x, "searchMenu", "c"))
    BY <1>1, <2>1, MenuSet
  <2> QED
    BY <1>2, <2>2, HandledAnswers DEF Search
<1>3. CASE ~(key = "left" /\ x.letters < 2 /\ ~x.newSymbol /\ x.mode = "text") /\ x.mode = "text"
  <2> DEFINE y == Typed(x, key, n)
  <2>1. y \in Handlers /\ Good(y) /\ y.screen = "search"
    BY <1>1, <1>3, TypedProperties
  <2>2. Search(x, key, n) = Unhandled(y)
    BY <1>3 DEF Search
  <2> HIDE DEF y
  <2> QED
    BY <2>1, <2>2, UnhandledAnswers
<1>4. CASE x.mode # "text"
  BY <1>4, ResultsAnswers DEF Search
<1> QED
  BY <1>2, <1>3, <1>4

-----------------------------------------------------------------------------
(* What only changes settings keeps the rest.                              *)
SameItems(x, y) ==
  /\ SameImages(x, y)
  /\ y.items = x.items /\ y.trap = x.trap /\ y.newSymbol = x.newSymbol
SameScreen(x, y) ==
  /\ y.screen = x.screen /\ y.parent = x.parent
  /\ y.buffer = x.buffer /\ y.moved = x.moved

LEMMA SettingGood ==
  ASSUME NEW x \in Handlers, NEW y \in Handlers, Good(x), SameItems(x, y),
         AsChosen(y) \/ SameSettings(x, y)
  PROVE  Good(y)
<1>1. RoomForLetter(y) /\ AsChosen(y) /\ OnItems(x)
  BY DEF Good, RoomForLetter, AsChosen, SameItems, SameSettings, SameImages
<1> QED
  BY <1>1, GoodBy DEF SameItems, SameImages

LEMMA SettingReady ==
  ASSUME NEW x, NEW y \in Handlers, Ready(x), SameItems(x, y), SameScreen(x, y),
         AsChosen(y) \/ SameSettings(x, y)
  PROVE  Ready(y)
<1>1. Good(y)
  BY SettingGood DEF Ready
<1>2. Shown(y)
  BY ImageSame, ShownBy DEF Ready, SameItems, SameScreen
<1> QED
  BY <1>1, <1>2 DEF Ready, SameItems

(* Stopped, paused or played on.                                           *)
LEMMA PlayStateProperties ==
  ASSUME NEW x \in Handlers, NEW p \in {"stop", "play", "pause"}
  PROVE  LET y == [x EXCEPT !.playState = p]
         IN  y \in Handlers /\ SameItems(x, y) /\ SameSettings(x, y) /\ SameScreen(x, y)
BY DEF Handlers, SameItems, SameImages, SameSettings, SameScreen

(* A song of the list is sought: played, or the player is stopped; only    *)
(* the list's image changes.                                               *)
LEMMA SeekProperties ==
  ASSUME NEW x \in Handlers, Good(x), NEW n \in 0 .. MaxList
  PROVE  LET y == Seek(x, n)
         IN  /\ y \in Handlers /\ Good(y) /\ SameScreen(x, y)
             /\ \A s \in Screens \ {"playlist"} : Image(y, s) = Image(x, s)
<1>1. n \in Int /\ MaxList \in Nat
  BY RemoteAssumption
<1>2. CASE Seek(x, n) = Play(x, n)
  BY <1>1, <1>2, PlayProperties DEF SameScreen
<1>3. CASE Seek(x, n) = Stop(x)
  <2> DEFINE y == [x EXCEPT !.playState = "stop"]
  <2>1. y \in Handlers /\ SameItems(x, y) /\ SameSettings(x, y) /\ SameScreen(x, y)
    BY PlayStateProperties
  <2>2. Seek(x, n) = y
    BY <1>3 DEF Stop
  <2> HIDE DEF y
  <2>3. Good(y) /\ \A s : Image(y, s) = Image(x, s)
    BY <2>1, SettingGood, ImageSame DEF SameItems
  <2> QED
    BY <2>1, <2>2, <2>3
<1> QED
  BY <1>2, <1>3 DEF Seek

LEMMA CurrentRange ==
  ASSUME NEW x \in Handlers, NEW n \in 0 .. MaxList
  PROVE  Current(x, n) \in Int
BY RemoteAssumption DEF Current, Handlers

(* Elsewhere the list's cursor was moved: of the list the image need not   *)
(* be right, the others are as they were.                                  *)
LEMMA ElsewhereDone ==
  ASSUME NEW x, Done(x), NEW y \in Handlers, Good(y), SameScreen(x, y),
         \A s \in Screens \ {"playlist"} : Image(y, s) = Image(x, s)
  PROVE  Done(Elsewhere(y))
<1> DEFINE z == [y EXCEPT !.moved = TRUE]
<1>1. /\ z \in Handlers /\ SameItems(y, z) /\ SameSettings(y, z) /\ z.moved
      /\ z.screen = y.screen /\ z.parent = y.parent /\ z.buffer = y.buffer
  BY DEF Handlers, SameItems, SameImages, SameSettings
<1> HIDE DEF z
<1>2. Good(z) /\ \A s : Image(z, s) = Image(y, s)
  BY <1>1, SettingGood, ImageSame DEF SameItems
<1>3. Shown(x) /\ x.screen \in Screens
  BY DEF Done, Handlers
<1>4. Shown(z)
  BY <1>1, <1>2, <1>3 DEF Shown, NoPopup, SameScreen
<1> QED
  BY <1>1, <1>2, <1>4 DEF Done, Elsewhere, z

(* The volume is in its range, whatever is asked for.                      *)
LEMMA SetVolumeProperties ==
  ASSUME NEW x \in Handlers, NEW v \in Int
  PROVE  LET y == SetVolume(x, v)
         IN  /\ y \in Handlers /\ SameItems(x, y) /\ SameSettings(x, y) /\ SameScreen(x, y)
             /\ y.expired = x.expired
<1> DEFINE u == v % Byte
           w == ClipTo(u, 0, MaxVolume)
           y == [x EXCEPT !.volume = w]
<1>1. u \in Int /\ 0 \in Int /\ MaxVolume \in Int /\ 0 <= MaxVolume
  BY RemoteAssumption
<1>2. SetVolume(x, v) = y
  BY DEF SetVolume
<1> HIDE DEF u
<1>3. w \in 0 .. MaxVolume
  BY <1>1, ClipRange
<1> HIDE DEF w
<1>4. /\ y \in Handlers /\ SameItems(x, y) /\ SameSettings(x, y) /\ SameScreen(x, y)
      /\ y.expired = x.expired
  BY <1>3 DEF Handlers, SameItems, SameImages, SameSettings, SameScreen
<1> QED
  BY <1>2, <1>4

(* slimVolumeScreen::command: a volume key draws the popup anew; with any  *)
(* other the popup gives way, and the screen under it gets the key.        *)
LEMMA VolumeAnswers ==
  ASSUME NEW x \in Handlers, Good(x), x.screen = "volume", NoPopup(x), NEW key
  PROVE  /\ Answers(Volume(x, key))
         /\ key \in {"vol+", "vol-"} => Done(Volume(x, key).x)
<1> DEFINE y == [x EXCEPT !.expired = FALSE]
<1>1. x.parent \in Screens \ {"volume"} /\ x.volume \in Int
  BY RemoteAssumption DEF NoPopup, Handlers
<1>2. y \in Handlers /\ SameItems(x, y) /\ SameSettings(x, y) /\ SameScreen(x, y) /\ ~y.expired
  BY DEF Handlers, SameItems, SameImages, SameSettings, SameScreen
<1>3. /\ key = "vol+" => Volume(x, key)
           = Handled(Draw(SetVolume(y, ClipTo(x.volume + Delta, 0, MaxVolume)), "volume", "c"))
      /\ key = "vol-" => Volume(x, key)
           = Handled(Draw(SetVolume(y, ClipTo(x.volume - Delta, 0, MaxVolume)), "volume", "c"))
      /\ key \notin {"vol+", "vol-"} => Volume(x, key)
           = Unhandled(Draw(SetMenu(y, x.parent, "c"), "volume", "c"))
  BY DEF Volume
<1> HIDE DEF y
<1>4. Good(y)
  BY <1>2, SettingGood
<1>5. ASSUME NEW v \in Int
      PROVE  Done(Draw(SetVolume(y, v), "volume", "c"))
  <2> DEFINE z == SetVolume(y, v)
  <2>1. /\ z \in Handlers /\ SameItems(y, z) /\ SameSettings(y, z) /\ SameScreen(y, z)
    BY <1>2, SetVolumeProperties
  <2> HIDE DEF z
  <2>2. Good(z)
    BY <1>2, <1>4, <2>1, SettingGood
  <2>3. z.screen = "volume" /\ NoPopup(z)
    BY <1>1, <1>2, <2>1 DEF SameScreen, NoPopup
  <2>4. Done(Draw(z, "volume", "c"))
    BY <2>1, <2>2, <2>3, ReadyToDraw
  <2> QED
    BY <2>4 DEF z
<1>6. /\ ClipTo(x.volume + Delta, 0, MaxVolume) \in Int
      /\ ClipTo(x.volume - Delta, 0, MaxVolume) \in Int
  <2>1. /\ x.volume + Delta \in Int /\ x.volume - Delta \in Int
        /\ 0 \in Int /\ MaxVolume \in Int
    BY <1>1, RemoteAssumption
  <2> QED
    BY <2>1, ClipRange
<1>7. Answers(Unhandled(Draw(SetMenu(y, x.parent, "c"), "volume", "c")))
  <2> DEFINE z == SetMenu(y, x.parent, "c")
             w == Paint(z, "volume", "c")
  <2>1. y.screen # x.parent
    BY <1>1, <1>2 DEF SameScreen
  <2>2. Done(z) /\ Kept(y, z) /\ z.screen = x.parent
    BY <1>1, <1>2, <1>4, <2>1, MenuSet
  <2> HIDE DEF z
  <2>3. Draw(z, "volume", "c") = w
    BY <1>2, <2>2 DEF Draw, Kept
  <2>4. w \in Handlers /\ Kept(z, w) /\ w.screen = x.parent
    <3>1. "volume" \in Screens /\ z \in Handlers
      BY <2>2, Names DEF Done
    <3> QED
      BY <2>2, <3>1, PaintProperties
  <2> HIDE DEF w
  <2>5. Good(w)
    BY <2>2, <2>4, KeptGood DEF Done
  <2>6. Answers(Unhandled(w))
    BY <1>1, <2>4, <2>5, UnhandledAnswers
  <2> QED
    BY <2>3, <2>6 DEF z
<1>8. CASE key \in {"vol+", "vol-"}
  <2>1. PICK d : Volume(x, key) = Handled(d) /\ Done(d)
    BY <1>3, <1>5, <1>6, <1>8
  <2> QED
    BY <2>1, HandledAnswers DEF Handled
<1>9. CASE key \notin {"vol+", "vol-"}
  BY <1>3, <1>7, <1>9
<1> QED
  BY <1>8, <1>9

(* Whatever the screen, and whatever the key.                              *)
LEMMA CommandAnswers ==
  ASSUME NEW x, Ready(x), NEW key, NEW n \in 0 .. MaxList
  PROVE  Answers(Command(x, key, n))
<1>1. /\ x \in Handlers /\ Good(x) /\ NoPopup(x)
      /\ x.screen \in Statics \cup {"folder", "playlist", "playing", "search", "volume"}
  BY Names DEF Ready, Shown, Handlers
<1>2. CASE x.screen = "folder"
  BY <1>2, FolderAnswers DEF Command
<1>3. CASE x.screen = "favorites"
  BY <1>3, FavoritesAnswers DEF Command
<1>4. CASE x.screen = "playlist"
  BY <1>4, PlayListAnswers DEF Command
<1>5. CASE x.screen = "playing"
  BY <1>5, PlayingAnswers DEF Command
<1>6. CASE x.screen = "search"
  BY <1>6, SearchAnswers DEF Command
<1>7. CASE x.screen = "volume"
  BY <1>1, <1>7, VolumeAnswers DEF Command
<1>8. CASE x.screen \notin {"folder", "favorites", "playlist", "playing", "search", "volume"}
  <2>1. x.screen \in Menus /\ n \in Nat
    BY <1>1, <1>8, Names, RemoteAssumption
  <2>2. Command(x, key, n) = GenericMenu(x, x.screen, key, n)
    BY <1>8 DEF Command
  <2> QED
    BY <2>1, <2>2, GenericMenuAnswers
<1> QED
  BY <1>2, <1>3, <1>4, <1>5, <1>6, <1>7, <1>8

-----------------------------------------------------------------------------
(* The power key: off, or on with the light and the visualization that     *)
(* were chosen.                                                            *)
LEMMA PowerReady ==
  ASSUME NEW x, Ready(x)
  PROVE  Ready(Power(x))
<1>1. /\ x \in Handlers /\ x.brightness \in {1, 3, 5} /\ x.currentViso \in 0 .. Visus - 1
      /\ 0 \in 0 .. Visus - 1
  <2>1. x \in Handlers
    BY DEF Ready
  <2>2. 0 \in 0 .. Visus - 1
    BY RemoteAssumption
  <2> QED
    BY <2>1, <2>2 DEF Handlers
<1>2. CASE x.power
  <2> DEFINE y == [x EXCEPT !.playState = "stop", !.light = -1, !.power = FALSE,
                            !.audio = FALSE, !.visu = 0]
  <2>1. Power(x) = y
    BY <1>1, <1>2 DEF Power, Stop, SetBrightness, SetVisualization, Handlers
  <2>2. y \in Handlers /\ SameItems(x, y) /\ SameScreen(x, y) /\ AsChosen(y)
    BY ZenonT(30), <1>1 DEF Handlers, SameItems, SameImages, SameScreen, AsChosen
  <2> HIDE DEF y
  <2> QED
    BY <2>1, <2>2, SettingReady
<1>3. CASE ~x.power
  <2> DEFINE l == x.brightness - 1
             y == [x EXCEPT !.light = l, !.power = TRUE, !.audio = TRUE,
                            !.visu = x.currentViso]
  <2>1. Power(x) = y
    BY <1>1, <1>3 DEF Power, SetBrightness, SetVisualization, Handlers
  <2>2. l \in {0, 2, 4}
    BY <1>1
  <2> HIDE DEF l
  <2>3. /\ y \in Handlers /\ SameItems(x, y) /\ SameScreen(x, y)
        /\ y.light = l /\ y.brightness = x.brightness /\ y.audio
        /\ y.visu = x.currentViso /\ y.currentViso = x.currentViso
    BY <1>1, <2>2 DEF Handlers, SameItems, SameImages, SameScreen
  <2> HIDE DEF y
  <2>4. AsChosen(y)
    BY <2>3 DEF AsChosen, l
  <2> QED
    BY <2>1, <2>3, <2>4, SettingReady
<1> QED
  BY <1>2, <1>3

(* What a key means on every screen: no popup comes of it.                 *)
LEMMA MeaningProperties ==
  ASSUME NEW x \in Handlers, Good(x), x.screen # "volume", NEW key, NEW n \in 0 .. MaxList
  PROVE  LET y == Meaning(x, key, n)
         IN  y \in Handlers /\ Good(y) /\ y.screen # "volume"
<1>1. /\ AsChosen(x) /\ n \in Int
      /\ x.brightness \in {1, 3, 5} /\ x.currentViso \in Nat /\ x.playState \in {"stop", "play", "pause"}
      /\ Visus \in Nat \ {0}
  BY RemoteAssumption DEF Good, Handlers
<1>2. /\ {"folder", "searchMenu", "favorites", "playing"} \subseteq Screens \ {"volume"}
  BY Names
<1>3. ASSUME NEW s \in Screens \ {"volume"}
      PROVE  LET y == [x EXCEPT !.screen = s]
             IN  y \in Handlers /\ Good(y) /\ y.screen # "volume"
  <2> DEFINE y == [x EXCEPT !.screen = s]
  <2>1. y \in Handlers /\ SameItems(x, y) /\ SameSettings(x, y) /\ y.screen = s
    BY DEF Handlers, SameItems, SameImages, SameSettings
  <2> HIDE DEF y
  <2> QED
    BY <2>1, SettingGood DEF y
<1>4. ASSUME NEW p \in {"stop", "play", "pause"}
      PROVE  LET y == [x EXCEPT !.playState = p]
             IN  y \in Handlers /\ Good(y) /\ y.screen # "volume"
  <2> DEFINE y == [x EXCEPT !.playState = p]
  <2>1. y \in Handlers /\ SameItems(x, y) /\ SameSettings(x, y) /\ y.screen = x.screen
    BY PlayStateProperties DEF SameScreen
  <2> HIDE DEF y
  <2> QED
    BY <2>1, SettingGood DEF y
<1>5. /\ Seek(x, n) \in Handlers /\ Good(Seek(x, n)) /\ Seek(x, n).screen # "volume"
      /\ Play(x, Current(x, n)) \in Handlers /\ Good(Play(x, Current(x, n)))
      /\ Play(x, Current(x, n)).screen # "volume"
  BY SeekProperties, CurrentRange, PlayProperties DEF SameScreen
<1>6. CASE key \in {"browse", "search", "favorites"}
  BY <1>2, <1>3, <1>6 DEF Meaning
<1>7. CASE key = "playing" /\ x.screen # "playing"
  BY <1>2, <1>3, <1>7 DEF Meaning
<1>8. CASE key = "playing" /\ x.screen = "playing"
  <2> DEFINE v == (x.currentViso + 1) % Visus
             y == [x EXCEPT !.currentViso = v, !.visu = v]
  <2>1. v \in 0 .. Visus - 1
    BY <1>1
  <2>2. Meaning(x, key, n) = y
    BY <1>8 DEF Meaning, SetVisualization, Handlers
  <2> HIDE DEF v
  <2>3. /\ y \in Handlers /\ SameItems(x, y) /\ y.screen = x.screen
        /\ y.visu = v /\ y.currentViso = v /\ y.power = x.power
        /\ y.light = x.light /\ y.brightness = x.brightness /\ y.audio = x.audio
    BY <2>1 DEF Handlers, SameItems, SameImages
  <2> HIDE DEF y
  <2>4. AsChosen(y)
    BY <1>1, <2>3 DEF AsChosen
  <2> QED
    BY <2>2, <2>3, <2>4, SettingGood
<1>9. CASE key \in {"play", "pause", "seek"}
  <2>1. Meaning(x, key, n) \in
          {x, Play(x, Current(x, n)), Seek(x, n)} \cup {[x EXCEPT !.playState = p] : p \in {"stop", "play", "pause"}}
    BY <1>9 DEF Meaning, Pause, Unpause
  <2> QED
    BY <1>4, <1>5, <2>1
<1>10. CASE key = "brightness"
  <2> DEFINE b == ((IF x.brightness % 2 = 0 THEN x.brightness + 1
                    ELSE x.brightness) + 2) % 6
             l == b - 1
             y == [x EXCEPT !.brightness = b, !.light = l]
  <2>1. b \in {1, 3, 5}
    BY <1>1
  <2>2. l \in {0, 2, 4}
    BY <2>1
  <2>3. Meaning(x, key, n) = y
    BY <1>10 DEF Meaning, SetBrightness, Handlers
  <2> HIDE DEF b, l
  <2>4. /\ y \in Handlers /\ SameItems(x, y) /\ y.screen = x.screen
        /\ y.visu = x.visu /\ y.currentViso = x.currentViso /\ y.power = x.power
        /\ y.light = l /\ y.brightness = b /\ y.audio = x.audio
    BY ZenonT(30), <2>1, <2>2 DEF Handlers, SameItems, SameImages
  <2> HIDE DEF y
  <2>5. AsChosen(y)
    BY <1>1, <2>4 DEF AsChosen, l
  <2> QED
    BY <2>3, <2>4, <2>5, SettingGood
<1>11. CASE key \notin {"browse", "search", "favorites", "playing",
                        "play", "pause", "seek", "brightness"}
  BY <1>11 DEF Meaning
<1> QED
  BY <1>6, <1>7, <1>8, <1>9, <1>10, <1>11

(* slimIPC::ir, for the volume keys and for the others.                    *)
LEMMA VolumeKeyDone ==
  ASSUME NEW x, Ready(x), NEW key \in {"vol+", "vol-"}
  PROVE  Done(VolumeKey(x, key))
<1> DEFINE p == x.screen
           y == [x EXCEPT !.parent = p, !.screen = "volume"]
<1>1. x \in Handlers /\ Good(x) /\ NoPopup(x) /\ p \in Screens /\ "volume" \in Screens
  BY Names DEF Ready, Shown, Handlers
<1> HIDE DEF p
<1>2. /\ y \in Handlers /\ SameItems(x, y) /\ SameSettings(x, y)
      /\ y.screen = "volume" /\ y.parent = p
  BY <1>1 DEF Handlers, SameItems, SameImages, SameSettings
<1>3. VolumeKey(x, key) = IF p = "volume" THEN Volume(x, key).x ELSE Volume(y, key).x
  BY DEF VolumeKey, p
<1> HIDE DEF y
<1>4. CASE p = "volume"
  BY <1>1, <1>3, <1>4, VolumeAnswers DEF p
<1>5. CASE p # "volume"
  <2>1. Good(y) /\ NoPopup(y)
    BY <1>1, <1>2, <1>5, SettingGood DEF NoPopup
  <2> QED
    BY <1>2, <1>3, <1>5, <2>1, VolumeAnswers
<1> QED
  BY <1>4, <1>5

LEMMA OtherKeyDone ==
  ASSUME NEW x, Ready(x), NEW key, NEW n \in 0 .. MaxList
  PROVE  Done(OtherKey(x, key, n))
<1> DEFINE w == IF key = "power" THEN Power(x) ELSE x
           r == Command(w, key, n)
           m == Meaning(r.x, key, n)
<1>1. Ready(w)
  BY PowerReady
<1>2. OtherKey(x, key, n) = IF r.handled THEN r.x ELSE Draw(m, m.screen, "c")
  BY DEF OtherKey
<1> HIDE DEF w
<1>3. Answers(r)
  BY <1>1, CommandAnswers
<1> HIDE DEF r
<1>4. CASE r.handled
  BY <1>2, <1>3, <1>4 DEF Answers, Done
<1>5. CASE ~r.handled
  <2>1. m \in Handlers /\ Good(m) /\ m.screen # "volume"
    BY <1>3, <1>5, MeaningProperties DEF Answers
  <2> HIDE DEF m
  <2>2. NoPopup(m)
    BY <2>1 DEF NoPopup
  <2> QED
    BY <1>2, <1>5, <2>1, <2>2, ReadyToDraw
<1> QED
  BY <1>4, <1>5

-----------------------------------------------------------------------------
(* The steps.                                                              *)
LEMMA DoneInv ==
  ASSUME keys \in KeySets, UNCHANGED keys, Done(h')
  PROVE  Inv'
BY DEF Done, Inv, TypeOK, Good, Shown, RoomForLetter, OnItems, OnItem, AsChosen, NoPopup,
       Size, Image, Handlers, Images

LEMMA InvReady ==
  ASSUME Inv, ~h.trap
  PROVE  Ready(h)
BY DEF Inv, TypeOK, Ready

LEMMA InitInv == Init => Inv
<1> SUFFICES ASSUME Init PROVE Inv
  OBVIOUS
<1> DEFINE c == [s \in Menus |-> 0]
           i == Entries[Root]
<1>1. /\ "main" \in Screens /\ "main" # "volume" /\ None \in Screens \cup {None}
      /\ c \in [Menus -> Int] /\ i \in Seq(STRING) /\ << >> \in Seq(DOMAIN Entries)
  BY Names, RemoteAssumption, EmptySeq
<1>2. /\ 0 \in 0 .. MaxList /\ 1 \in 1 .. MaxLetters /\ MaxVolume - 1 \in 0 .. MaxVolume
      /\ 0 \in 0 .. Visus - 1
  <2>1. /\ MaxList \in Nat \ {0} /\ MaxLetters \in Nat \ {0}
        /\ MaxVolume \in Nat \ {0} /\ Visus \in Nat \ {0}
    BY RemoteAssumption
  <2> QED
    BY <2>1
<1>3. [screen |-> "main", item |-> 0] \in Images
  BY <1>1 DEF Images
<1>4. keys \in KeySets /\ h \in Handlers
  <2> HIDE DEF c, i
  <2>1. keys \in KeySets
    BY DEF Init
  <2>2. h = [screen |-> "main", parent |-> None, expired |-> FALSE,
             cursor |-> c, songs |-> 0,
             dirs |-> << >>, items |-> i,
             mode |-> "text", letters |-> 1, newSymbol |-> FALSE, result |-> 0, found |-> 0,
             buffer |-> [screen |-> "main", item |-> 0],
             shown |-> [screen |-> "main", item |-> 0],
             anim |-> FALSE, refreshAfterAnim |-> FALSE, trap |-> FALSE, moved |-> FALSE,
             volume |-> MaxVolume - 1, brightness |-> 5, light |-> 5, power |-> TRUE,
             audio |-> TRUE, currentViso |-> 0, visu |-> 0, playState |-> "stop"]
    BY DEF Init, c, i
  <2> QED
    BY <1>1, <1>2, <1>3, <2>1, <2>2 DEF Handlers
<1>5. /\ h.screen = "main" /\ h.cursor = c /\ h.buffer.screen = "main"
      /\ ~h.newSymbol /\ ~h.trap
      /\ h.light = 5 /\ h.brightness = 5 /\ h.audio /\ h.visu = 0 /\ h.currentViso = 0
  BY DEF Init
<1> HIDE DEF c
<1>6. \A s \in Statics \cup {"folder"} : OnItem(h, s)
  <2> TAKE s \in Statics \cup {"folder"}
  <2>1. s \in Menus
    BY Names
  <2>2. h.cursor[s] = 0 /\ Size(h, s) \in Nat
    BY <1>4, <1>5, <2>1, Sizes DEF c
  <2> QED
    BY <2>2 DEF OnItem
<1>7. Good(h)
  BY <1>5, <1>6 DEF Good, RoomForLetter, OnItems, AsChosen
<1>8. Shown(h)
  BY <1>5 DEF Shown, NoPopup
<1> QED
  BY <1>4, <1>7, <1>8 DEF Inv, TypeOK

LEMMA StepKeepsInv == Inv /\ [Next]_vars => Inv'
<1> SUFFICES ASSUME Inv, [Next]_vars PROVE Inv'
  OBVIOUS
<1>1. keys \in KeySets /\ h \in Handlers /\ Good(h) /\ Shown(h)
  BY DEF Inv, TypeOK
<1>2. ASSUME NEW key, NEW n \in 0 .. MaxList, Ir(key, n)
      PROVE  Inv'
  <2>1. Ready(h)
    BY <1>2, InvReady DEF Ir
  <2>2. CASE key \in {"vol+", "vol-"}
    <3>1. h' = VolumeKey(h, key) /\ UNCHANGED keys
      BY <1>2, <2>2 DEF Ir
    <3>2. Done(VolumeKey(h, key))
      BY <2>1, <2>2, VolumeKeyDone
    <3> QED
      BY <1>1, <3>1, <3>2, DoneInv
  <2>3. CASE key \notin {"vol+", "vol-"}
    <3>1. h' = OtherKey(h, key, n) /\ UNCHANGED keys
      BY <1>2, <2>3 DEF Ir
    <3>2. Done(OtherKey(h, key, n))
      BY <2>1, OtherKeyDone
    <3> QED
      BY <1>1, <3>1, <3>2, DoneInv
  <2> QED
    BY <2>2, <2>3
<1>3. CASE Stat
  <2>1. h' = Draw(h, h.screen, "c") /\ UNCHANGED keys
    BY <1>3 DEF Stat
  <2>2. Done(Draw(h, h.screen, "c"))
    BY <1>1, ReadyToDraw DEF Shown
  <2> QED
    BY <1>1, <2>1, <2>2, DoneInv
<1>4. CASE Anic
  <2> DEFINE x == [h EXCEPT !.anim = FALSE]
             y == IF x.refreshAfterAnim THEN Send(x, "c") ELSE x
  <2>1. h' = y /\ UNCHANGED keys /\ Ready(h)
    BY <1>4, InvReady DEF Anic
  <2>2. x \in Handlers /\ SameItems(h, x) /\ SameSettings(h, x) /\ SameScreen(h, x)
    BY <1>1 DEF Handlers, SameItems, SameImages, SameSettings, SameScreen
  <2> HIDE DEF x
  <2>3. Ready(x)
    BY <2>1, <2>2, SettingReady
  <2>4. y \in Handlers /\ Kept(x, y) /\ y.buffer = x.buffer /\ y.screen = x.screen
        /\ y.moved = x.moved
    BY <2>2, SendProperties DEF Kept, SameImages, SameSettings
  <2> HIDE DEF y
  <2>5. Done(y)
    BY <2>3, <2>4, KeptGood, KeptImages, ShownBy DEF Ready, Done, Kept
  <2> QED
    BY <1>1, <2>1, <2>5, DoneInv
<1>5. CASE Expire
  <2> DEFINE x == [h EXCEPT !.expired = TRUE]
  <2>1. h' = x /\ UNCHANGED keys /\ Ready(h)
    BY <1>5, InvReady DEF Expire
  <2>2. x \in Handlers /\ SameItems(h, x) /\ SameSettings(h, x) /\ SameScreen(h, x)
    BY <1>1 DEF Handlers, SameItems, SameImages, SameSettings, SameScreen
  <2> HIDE DEF x
  <2>3. Done(x)
    BY <2>1, <2>2, SettingReady, ReadyDone
  <2> QED
    BY <1>1, <2>1, <2>3, DoneInv
<1>6. ASSUME NEW v \in PageVolumes, PageVolume(v)
      PROVE  Inv'
  <2> DEFINE x == SetVolume(h, v)
  <2>1. h' = x /\ UNCHANGED keys /\ Ready(h)
    BY <1>6, InvReady DEF PageVolume
  <2>2. v \in Int
    BY RemoteAssumption
  <2>3. x \in Handlers /\ SameItems(h, x) /\ SameSettings(h, x) /\ SameScreen(h, x)
    BY <1>1, <2>2, SetVolumeProperties
  <2> HIDE DEF x
  <2>4. Done(x)
    BY <2>1, <2>3, SettingReady, ReadyDone
  <2> QED
    BY <1>1, <2>1, <2>4, DoneInv
<1>7. ASSUME NEW n \in 0 .. MaxList, OtherList(n)
      PROVE  Inv'
  <2> DEFINE x == [h EXCEPT !.songs = n]
  <2>1. h' = x /\ UNCHANGED keys
    BY <1>7 DEF OtherList
  <2>2. /\ x \in Handlers /\ Good(x) /\ x.moved = h.moved
        /\ x.screen = h.screen /\ x.parent = h.parent /\ x.buffer = h.buffer
        /\ \A s \in Screens : Image(x, s) = Image(h, s)
    BY <1>1, SongsProperties
  <2> HIDE DEF x
  <2>3. Shown(x)
    BY <1>1, <2>2, ShownBy DEF Handlers
  <2> QED
    BY <1>1, <2>1, <2>2, <2>3, DoneInv DEF Done
<1>8. ASSUME NEW n \in 0 .. MaxList, SongEnds(n)
      PROVE  Inv'
  <2> DEFINE x == Seek(h, n)
             y == Draw(x, h.screen, "c")
  <2>1. h' = y /\ UNCHANGED keys
    BY <1>8 DEF SongEnds
  <2>2. x \in Handlers /\ Good(x) /\ SameScreen(h, x)
    BY <1>1, SeekProperties
  <2> HIDE DEF x
  <2>3. NoPopup(x)
    BY <1>1, <2>2 DEF Shown, NoPopup, SameScreen
  <2>4. Done(y)
    BY <2>2, <2>3, ReadyToDraw DEF SameScreen
  <2> HIDE DEF y
  <2> QED
    BY <1>1, <2>1, <2>4, DoneInv
<1>9. ASSUME NEW n \in 0 .. MaxList, PagePlay(n)
      PROVE  Inv'
  <2> DEFINE x == Play(h, Current(h, n))
  <2>1. /\ h' \in {Elsewhere(x)} \cup {[h EXCEPT !.playState = p] : p \in {"stop", "play", "pause"}}
        /\ UNCHANGED keys /\ Ready(h)
    BY <1>9, InvReady DEF PagePlay, Stop, Pause, Unpause
  <2>2. CASE h' = Elsewhere(x)
    <3>1. /\ x \in Handlers /\ Good(x) /\ SameScreen(h, x)
          /\ \A s \in Screens \ {"playlist"} : Image(x, s) = Image(h, s)
      BY <1>1, CurrentRange, PlayProperties DEF SameScreen
    <3> HIDE DEF x
    <3>2. Done(Elsewhere(x))
      BY <2>1, <3>1, ReadyDone, ElsewhereDone
    <3> QED
      BY <1>1, <2>1, <2>2, <3>2, DoneInv
  <2>3. ASSUME NEW p \in {"stop", "play", "pause"}, h' = [h EXCEPT !.playState = p]
        PROVE  Inv'
    <3> DEFINE y == [h EXCEPT !.playState = p]
    <3>1. y \in Handlers /\ SameItems(h, y) /\ SameSettings(h, y) /\ SameScreen(h, y)
      BY <1>1, PlayStateProperties
    <3>2. h' = y
      BY <2>3
    <3> HIDE DEF y
    <3>3. Done(y)
      BY <2>1, <3>1, SettingReady, ReadyDone
    <3> QED
      BY <1>1, <2>1, <3>2, <3>3, DoneInv
  <2> QED
    BY <2>1, <2>2, <2>3
<1>10. ASSUME NEW n \in 0 .. MaxList, OtherSeek(n)
       PROVE  Inv'
  <2> DEFINE x == Seek(h, n)
  <2>1. h' = Elsewhere(x) /\ UNCHANGED keys
    BY <1>10 DEF OtherSeek
  <2>2. /\ x \in Handlers /\ Good(x) /\ SameScreen(h, x)
        /\ \A s \in Screens \ {"playlist"} : Image(x, s) = Image(h, s)
    BY <1>1, SeekProperties
  <2> HIDE DEF x
  <2>3. Done(Elsewhere(x))
    BY <1>1, <2>2, ElsewhereDone DEF Done
  <2> QED
    BY <1>1, <2>1, <2>3, DoneInv
<1>11. CASE UNCHANGED vars
  <2>1. h' = h /\ UNCHANGED keys
    BY <1>11 DEF vars
  <2> QED
    BY <1>1, <2>1, DoneInv DEF Done
<1> QED
  BY <1>2, <1>3, <1>4, <1>5, <1>6, <1>7, <1>8, <1>9, <1>10, <1>11 DEF Next

LEMMA Invariant == Spec => []Inv
BY InitInv, StepKeepsInv, PTL DEF Spec

(* The handler's parts are in their ranges; the volume is within 0..100    *)
(* whatever a page asks for: setVolume (slimIPC.hpp) clips it.             *)
THEOREM TypeCorrect == Spec => []TypeOK
<1>1. Inv => TypeOK
  BY DEF Inv
<1> QED
  BY <1>1, Invariant, PTL

(* slimDisplay::draw and the screens' command(): whatever a key did, the   *)
(* buffer holds the screen that is to take the next key; a list that is    *)
(* moved elsewhere (play(), slimProto.cpp:946) may be drawn as it was.     *)
THEOREM ShowsWhereItActs == Spec => []ScreenShown
<1>1. Inv => ScreenShown
  BY DEF Inv, Shown, NoPopup, ScreenShown
<1> QED
  BY <1>1, Invariant, PTL

(* The menus' cursors: each on an item; and slimBrowseMenu::run reads an   *)
(* item that is not there in an empty directory only.                      *)
THEOREM CursorsStayOnItems == Spec => []CursorsOnItems
<1>1. Inv => CursorsOnItems
  BY DEF Inv, Good, OnItems, OnItem, CursorsOnItems
<1> QED
  BY <1>1, Invariant, PTL

(* The power key: what was chosen is what the player has while it is on,   *)
(* but for the light of the HELO, one more than the keys would send.       *)
THEOREM OnAsChosen == Spec => []PowerRestores
<1>1. Inv => PowerRestores
  BY DEF Inv, Good, AsChosen, PowerRestores
<1> QED
  BY <1>1, Invariant, PTL

=============================================================================
