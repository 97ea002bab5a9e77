------------------------- MODULE PlayGroupProofs -------------------------
(***************************************************************************)
(* For every set of players, every bound on the list and every set of      *)
(* asked-for indices: the types of PlayGroup, and that the players of the  *)
(* group are in step as long as one thread serves them.                    *)
(***************************************************************************)
EXTENDS PlayGroup, TLAPS

(* Where a seek may leave the position, as in PlayListStoreProofs.          *)
LEMMA SeekItemRange ==
  ASSUME NEW size \in Nat, size <= IntMax,
         NEW cur \in SizeT, NEW rep \in BOOLEAN,
         NEW offset \in Int, NEW origin \in Origins
  PROVE  LET pos == SeekItem(size, cur, rep, offset, origin)
         IN  /\ pos \in SizeT
             /\ size > 0 => pos < size
             /\ size = 0 => pos \in {0, SizeMax}
<1>1. NewIndex(size, cur, offset, origin) \in Int
  BY IntMaxAssumption DEF NewIndex, Origins, ToInt, AddSize, SizeT, SizeMod
<1> DEFINE new == NewIndex(size, cur, offset, origin)
           clipped == Clip(new, 0, size - 1)
<1>2. /\ size > 0 => clipped \in 0 .. size - 1
      /\ size = 0 => clipped = -1
  BY <1>1 DEF Clip
<1>3. /\ size > 0 => ToSize(clipped) = clipped
      /\ size = 0 => ToSize(clipped) = SizeMax
  BY <1>2, IntMaxAssumption DEF ToSize, SizeMax, SizeMod
<1> HIDE DEF new, clipped
<1>4. SeekItem(size, cur, rep, offset, origin) \in {0, ToSize(clipped)}
  BY DEF SeekItem, clipped, new
<1> QED BY <1>2, <1>3, <1>4, IntMaxAssumption DEF SizeT, SizeMod, SizeMax

(* The end of a song that is not the last, or of any song of a repeated    *)
(* list, starts another; the end of the last song of a list that is not    *)
(* repeated leaves the position where it is.                               *)
LEMMA EndOfLastSongStays ==
  ASSUME NEW size \in Nat, size <= IntMax,
         NEW cur \in 0 .. size - 1, NEW rep \in BOOLEAN,
         ~SeekPlays(size, cur, rep, 1, "SEEK_CUR")
  PROVE  SeekItem(size, cur, rep, 1, "SEEK_CUR") = cur
<1>1. NewIndex(size, cur, 1, "SEEK_CUR") = ToInt(AddSize(cur, 1))
  BY DEF NewIndex
<1>2. AddSize(cur, 1) = cur + 1 /\ ToInt(cur + 1) = cur + 1
  BY IntMaxAssumption DEF AddSize, ToInt, SizeMod
<1>3. NewIndex(size, cur, 1, "SEEK_CUR") = cur + 1
  BY <1>1, <1>2
<1>4. ~rep /\ ToSize(cur + 1) >= size
  BY <1>3 DEF SeekPlays, PastEnd
<1>5. cur = size - 1
  BY <1>4, IntMaxAssumption DEF ToSize
<1>6. Clip(cur + 1, 0, size - 1) = size - 1 /\ ToSize(size - 1) = size - 1
  BY <1>5 DEF Clip, ToSize
<1> QED BY <1>3, <1>4, <1>5, <1>6 DEF SeekItem

(* What keeps the players in step.  A player that streams is registered,   *)
(* so that every seek reaches it, and streams the entry the list is at; a  *)
(* play() that has read the position sends it before the thread does       *)
(* anything else, so that the position cannot have moved meanwhile.        *)
InStepInv ==
  /\ \A p \in Players :
       /\ p \notin devices => sent[p] = None
       /\ sent[p] \in {None, Gone} \/ (sent[p] = currentItem /\ currentItem < n)
       /\ sent[p] = Gone => replaced # {}
  /\ inPlay["slim"] # NoCall =>
       /\ replaced = {}
       /\ inPlay["slim"].dev \in devices
       /\ inPlay["slim"].item = CurrentSong

-----------------------------------------------------------------------------
(* A position inside the list is a song, and so is what is at a position.  *)
LEMMA PositionIsSong ==
  ASSUME NEW len \in 0 .. MaxItems, NEW pos \in SizeT
  PROVE  (IF pos < len THEN pos ELSE None) \in Song
<1>1. pos \in Nat /\ MaxItems \in Nat
  BY GroupAssumption, IntMaxAssumption DEF SizeT, SizeMod
<1>2. CASE pos < len
  BY <1>1, <1>2 DEF Song, Item
<1>3. CASE ~(pos < len)
  BY <1>3 DEF Song
<1> QED BY <1>2, <1>3

LEMMA CurrentSongType == TypeOK => CurrentSong \in Song
  BY PositionIsSong DEF TypeOK, CurrentSong, SongAt

LEMMA InitType == Init => TypeOK
<1> SUFFICES ASSUME Init PROVE TypeOK
  OBVIOUS
<1>1. None \in Song /\ 0 \in SizeT
  BY GroupAssumption, IntMaxAssumption DEF Song, SizeT, SizeMod
<1>2. /\ n \in 0 .. MaxItems /\ currentItem \in SizeT /\ repeat \in BOOLEAN
      /\ devices \subseteq Players /\ replaced \subseteq Threads
      /\ sent \in [Players -> Song] /\ shown \in [Players -> Song]
      /\ playState \in [Players -> PlayStates]
      /\ phase \in [Players -> {"stopped", "sent", "started", "decoded", "dry"}]
  BY <1>1 DEF Init, PlayStates
<1>3. event \in [Players -> [code : {"", "STMs", "STMd", "STMu"}, item : Song]]
  BY <1>1 DEF Init, NoStat, Stat
<1>4. inPlay \in [Threads -> [dev : Players \cup {None}, item : Song]]
  BY <1>1 DEF Init, NoCall, Call
<1> QED BY <1>2, <1>3, <1>4 DEF TypeOK

-----------------------------------------------------------------------------
(* What a seek does to the list and to each player.                        *)
LEMMA SeekListEffect ==
  ASSUME TypeOK,
         NEW offset \in Int, NEW origin \in Origins, NEW stop \in BOOLEAN,
         SeekList(offset, origin, stop)
  PROVE  LET pos   == SeekItem(n, currentItem, repeat, offset, origin)
             plays == SeekPlays(n, currentItem, repeat, offset, origin)
         IN  /\ n' = n /\ repeat' = repeat
             /\ currentItem' = pos /\ pos \in SizeT
             /\ playState' \in [Players -> PlayStates]
             /\ sent' \in [Players -> Song]
             /\ phase' \in [Players -> {"stopped", "sent", "started", "decoded", "dry"}]
             /\ \A p \in Players :
                  /\ p \notin devices => sent'[p] = sent[p]
                  /\ p \in devices /\ plays => sent'[p] = IF pos < n THEN pos ELSE None
                  /\ p \in devices /\ ~plays /\ stop => sent'[p] = None
                  /\ p \in devices /\ ~plays /\ ~stop => sent'[p] = sent[p]
<1> DEFINE pos   == SeekItem(n, currentItem, repeat, offset, origin)
           plays == SeekPlays(n, currentItem, repeat, offset, origin)
<1>1. n \in Nat /\ n <= MaxItems /\ n <= IntMax /\ currentItem \in SizeT /\ repeat \in BOOLEAN
  <2>1. n \in 0 .. MaxItems /\ currentItem \in SizeT /\ repeat \in BOOLEAN
    BY DEF TypeOK
  <2> QED BY <2>1, GroupAssumption, IntMaxAssumption
<1>2. pos \in SizeT
  BY <1>1, SeekItemRange
<1>3. (IF pos < n THEN pos ELSE None) \in Song
  <2>1. n \in 0 .. MaxItems
    BY DEF TypeOK
  <2> QED BY <1>2, <2>1, PositionIsSong
<1>4. None \in Song /\ sent \in [Players -> Song]
  BY DEF TypeOK, Song
<1> HIDE DEF pos, plays
<1>5. /\ n' = n /\ repeat' = repeat /\ currentItem' = pos
      /\ playState' = [p \in Players |-> IF p \notin devices THEN playState[p]
                                         ELSE IF plays THEN "PL_PLAY"
                                         ELSE IF stop THEN "PL_STOP" ELSE playState[p]]
      /\ sent' = [p \in Players |-> IF p \notin devices THEN sent[p]
                                    ELSE IF plays THEN (IF pos < n THEN pos ELSE None)
                                    ELSE IF stop THEN None ELSE sent[p]]
      /\ phase' = [p \in Players |-> IF p \notin devices THEN phase[p]
                                     ELSE IF plays THEN "sent"
                                     ELSE IF stop THEN "stopped" ELSE phase[p]]
  BY DEF SeekList, TellPlayers, SongAt, pos, plays
<1>6. playState' \in [Players -> PlayStates]
  BY <1>5 DEF TypeOK, PlayStates
<1>7. sent' \in [Players -> Song]
  BY <1>3, <1>4, <1>5
<1>8. phase' \in [Players -> {"stopped", "sent", "started", "decoded", "dry"}]
  BY <1>5 DEF TypeOK
<1>9. \A p \in Players :
        /\ p \notin devices => sent'[p] = sent[p]
        /\ p \in devices /\ plays => sent'[p] = IF pos < n THEN pos ELSE None
        /\ p \in devices /\ ~plays /\ stop => sent'[p] = None
        /\ p \in devices /\ ~plays /\ ~stop => sent'[p] = sent[p]
  BY <1>5
<1> QED BY <1>2, <1>5, <1>6, <1>7, <1>8, <1>9 DEF pos, plays

(* The reports of a player, and their handling.                            *)
LEMMA ListeningType == TypeOK /\ Listening => TypeOK'
<1> SUFFICES ASSUME TypeOK, NEW p \in Players,
                    \/ SongStarts(p) \/ SongEnds(p) \/ RunsDry(p)
                    \/ HandleStat(p) \/ Helo(p)
             PROVE  TypeOK'
  BY DEF Listening
<1>1. ASSUME NEW from, NEW to \in {"started", "decoded", "dry"},
             NEW code \in {"STMs", "STMd", "STMu"}, Reports(p, from, to, code)
      PROVE  TypeOK'
  <2>1. phase' \in [Players -> {"stopped", "sent", "started", "decoded", "dry"}]
    BY <1>1 DEF Reports, TypeOK
  <2>2. event' \in [Players -> [code : {"", "STMs", "STMd", "STMu"}, item : Song]]
    <3>1. Stat(code, sent[p]) \in [code : {"", "STMs", "STMd", "STMu"}, item : Song]
      BY DEF TypeOK, Stat
    <3> QED BY <1>1, <3>1 DEF Reports, TypeOK
  <2> QED BY <1>1, <2>1, <2>2 DEF Reports, TypeOK, list
<1>2. CASE SongStarts(p)
  BY <1>1, <1>2 DEF SongStarts
<1>3. CASE SongEnds(p)
  BY <1>1, <1>3 DEF SongEnds
<1>4. CASE RunsDry(p)
  BY <1>1, <1>4 DEF RunsDry
<1>5. CASE HandleStat(p)
  <2>1. event' \in [Players -> [code : {"", "STMs", "STMd", "STMu"}, item : Song]]
    BY <1>5 DEF HandleStat, TypeOK, NoStat, Stat, Song
  <2>2. devices' = devices /\ inPlay' = inPlay /\ replaced' = replaced
    BY <1>5 DEF HandleStat
  <2>3. CASE shown' = [shown EXCEPT ![p] = CurrentSong] /\ UNCHANGED <<list, player>>
    <3>1. shown' \in [Players -> Song]
      BY <2>3, CurrentSongType DEF TypeOK
    <3> QED BY <2>1, <2>2, <2>3, <3>1 DEF TypeOK, list, player
  <2>4. ASSUME NEW stop \in BOOLEAN, SeekList(1, "SEEK_CUR", stop), shown' = shown
        PROVE  TypeOK'
    <3>1. /\ n' = n /\ repeat' = repeat /\ currentItem' \in SizeT
          /\ playState' \in [Players -> PlayStates]
          /\ sent' \in [Players -> Song]
          /\ phase' \in [Players -> {"stopped", "sent", "started", "decoded", "dry"}]
      BY <2>4, SeekListEffect DEF Origins
    <3> QED BY <2>1, <2>2, <2>4, <3>1 DEF TypeOK
  <2> QED BY <1>5, <2>3, <2>4 DEF HandleStat
<1>6. CASE Helo(p)
  BY <1>6 DEF Helo, TypeOK, Song, list
<1> QED BY <1>2, <1>3, <1>4, <1>5, <1>6

(* The commands.                                                           *)
LEMMA CommandsType == TypeOK /\ Commands => TypeOK'
<1> SUFFICES ASSUME TypeOK, Commands PROVE TypeOK'
  OBVIOUS
<1> DEFINE Phases == {"stopped", "sent", "started", "decoded", "dry"}
<1>1. ASSUME NEW p \in Players, NEW song \in Song,
             \/ Play(p, song) \/ Pause(p) \/ Unpause(p) \/ StopPlayer(p)
      PROVE  /\ playState' \in [Players -> PlayStates]
             /\ sent' \in [Players -> Song]
             /\ phase' \in [Players -> Phases]
  <2>1. /\ playState \in [Players -> PlayStates]
        /\ sent \in [Players -> Song] /\ None \in Song
        /\ phase \in [Players -> Phases]
    BY DEF TypeOK, Song
  <2>2. CASE Play(p, song)
    BY <2>1, <2>2 DEF Play, PlayStates
  <2>3. CASE Pause(p) \/ Unpause(p)
    BY <2>1, <2>3 DEF Pause, Unpause, PlayStates
  <2>4. CASE StopPlayer(p)
    BY <2>1, <2>4 DEF StopPlayer, PlayStates
  <2> QED BY <1>1, <2>2, <2>3, <2>4
<1>2. ASSUME NEW offset \in Int, NEW origin \in Origins,
             SeekList(offset, origin, TRUE),
             UNCHANGED <<devices, shown, event, inPlay>>, replaced' \subseteq Threads
      PROVE  TypeOK'
  <2>1. /\ n' = n /\ repeat' = repeat /\ currentItem' \in SizeT
        /\ playState' \in [Players -> PlayStates]
        /\ sent' \in [Players -> Song]
        /\ phase' \in [Players -> Phases]
    BY <1>2, SeekListEffect
  <2> QED BY <1>2, <2>1 DEF TypeOK
<1>3. ASSUME NEW t \in Threads, NEW p \in Players, PlayCommand(t, p)
      PROVE  TypeOK'
  <2>1. inPlay' \in [Threads -> [dev : Players \cup {None}, item : Song]]
    <3>1. Call(p, CurrentSong) \in [dev : Players \cup {None}, item : Song]
      BY CurrentSongType DEF Call
    <3> QED BY <1>3, <3>1 DEF PlayCommand, TypeOK
  <2>2. /\ playState' \in [Players -> PlayStates]
        /\ sent' \in [Players -> Song]
        /\ phase' \in [Players -> Phases]
    <3>1. Pause(p) \/ UNCHANGED player
      BY <1>3 DEF PlayCommand
    <3> QED BY <1>1, <3>1 DEF TypeOK, player, Song
  <2> QED BY <1>3, <2>1, <2>2 DEF PlayCommand, TypeOK, list
<1>4. ASSUME NEW t \in Threads, PlaySends(t)
      PROVE  TypeOK'
  <2>1. inPlay[t].item \in Song /\ inPlay[t].dev \in Players \cup {None}
    BY DEF TypeOK
  <2>2. inPlay' \in [Threads -> [dev : Players \cup {None}, item : Song]]
    BY <1>4 DEF PlaySends, TypeOK, NoCall, Call, Song
  <2>3. /\ playState' \in [Players -> PlayStates]
        /\ sent' \in [Players -> Song]
        /\ phase' \in [Players -> Phases]
    BY <1>4, <2>1 DEF PlaySends, Play, TypeOK, PlayStates
  <2> QED BY <1>4, <2>2, <2>3 DEF PlaySends, TypeOK, list
<1>5. ASSUME NEW t \in Threads, NEW p \in Players, PauseCommand(t, p) \/ StopCommand(t, p)
      PROVE  TypeOK'
  <2>1. /\ playState' \in [Players -> PlayStates]
        /\ sent' \in [Players -> Song]
        /\ phase' \in [Players -> Phases]
    BY <1>1, <1>5 DEF PauseCommand, StopCommand, Song
  <2> QED BY <1>5, <2>1 DEF PauseCommand, StopCommand, TypeOK, list
<1>6. ASSUME NEW t \in Threads, RepeatCommand(t)
      PROVE  TypeOK'
  BY <1>6 DEF RepeatCommand, TypeOK, player
<1>7. ASSUME NEW t \in Threads, SeekCommand(t)
      PROVE  TypeOK'
  <2>1. PICK offset \in Int, origin \in Origins : SeekList(offset, origin, TRUE)
    <3>1. {-1, 1} \subseteq Int /\ Asked \subseteq Int
      BY GroupAssumption, IntMaxAssumption
    <3>2. "SEEK_CUR" \in Origins /\ "SEEK_SET" \in Origins
      BY DEF Origins
    <3>3. \/ \E offset \in {-1, 1} : SeekList(offset, "SEEK_CUR", TRUE)
          \/ \E index \in Asked : SeekList(index, "SEEK_SET", TRUE)
      BY <1>7 DEF SeekCommand
    <3> QED BY <3>1, <3>2, <3>3, Zenon
  <2>2. replaced' \subseteq Threads /\ UNCHANGED <<devices, shown, event, inPlay>>
    BY <1>7 DEF SeekCommand, TypeOK
  <2> QED BY <1>2, <2>1, <2>2
<1>8. ASSUME NEW t \in Threads, NEW k \in 0 .. MaxItems, AddCommand(t, k)
      PROVE  TypeOK'
  <2>1. n' \in 0 .. MaxItems
    <3>1. n \in 0 .. MaxItems /\ n + k <= MaxItems /\ n' = n + k
      BY <1>8 DEF AddCommand, TypeOK
    <3> QED BY <3>1, GroupAssumption
  <2> QED BY <1>8, <2>1 DEF AddCommand, TypeOK, player
<1>9. ASSUME NEW t \in Threads, NEW k \in 1 .. MaxItems, ReplaceCommand(t, k)
      PROVE  TypeOK'
  <2>1. n' \in 0 .. MaxItems /\ currentItem' \in SizeT
    BY <1>9, GroupAssumption, IntMaxAssumption DEF ReplaceCommand, SizeT, SizeMod
  <2>2. sent' \in [Players -> Song] /\ shown' \in [Players -> Song]
    BY <1>9 DEF ReplaceCommand, Song
  <2>3. event' \in [Players -> [code : {"", "STMs", "STMd", "STMu"}, item : Song]]
    BY <1>9 DEF ReplaceCommand, TypeOK, NoStat, Stat, Song
  <2>4. inPlay' \in [Threads -> [dev : Players \cup {None}, item : Song]]
    BY <1>9 DEF ReplaceCommand, TypeOK, NoCall, Call, Song
  <2> QED BY <1>9, <2>1, <2>2, <2>3, <2>4 DEF ReplaceCommand, TypeOK
<1>10. ASSUME NEW t \in Threads, ReplaceSeeks(t)
       PROVE  TypeOK'
  <2>1. SeekList(0, "SEEK_SET", TRUE) /\ UNCHANGED <<devices, shown, event, inPlay>>
    BY <1>10 DEF ReplaceSeeks
  <2>2. replaced' \subseteq Threads
    BY <1>10 DEF ReplaceSeeks, TypeOK
  <2>3. 0 \in Int /\ "SEEK_SET" \in Origins
    BY DEF Origins
  <2> QED BY <1>2, <2>1, <2>2, <2>3, Zenon
<1> QED BY <1>3, <1>4, <1>5, <1>6, <1>7, <1>8, <1>9, <1>10 DEF Commands

(* Type correctness: the position never leaves the range of a size_t and   *)
(* no player is ever sent anything but a song of the list, of an older     *)
(* list, or nothing.                                                       *)
THEOREM TypeCorrect == Spec => []TypeOK
<1>1. TypeOK /\ [Next]_vars => TypeOK'
  <2>1. TypeOK /\ UNCHANGED vars => TypeOK'
    BY DEF vars, list, TypeOK
  <2> QED BY <2>1, ListeningType, CommandsType DEF Next
<1> QED BY <1>1, InitType, PTL DEF Spec

-----------------------------------------------------------------------------
(* A seek after which every player is in step: one that stops the players, *)
(* or the one an end of song makes while no list is being replaced.        *)
LEMMA SeekKeepsStep ==
  ASSUME TypeOK, InStepInv,
         NEW offset \in Int, NEW origin \in Origins, NEW stop \in BOOLEAN,
         SeekList(offset, origin, stop),
         ~stop => offset = 1 /\ origin = "SEEK_CUR" /\ replaced = {},
         devices' = devices, inPlay["slim"] = NoCall, inPlay' = inPlay
  PROVE  InStepInv'
<1> DEFINE pos   == SeekItem(n, currentItem, repeat, offset, origin)
           plays == SeekPlays(n, currentItem, repeat, offset, origin)
<1>1. /\ n' = n /\ currentItem' = pos
      /\ \A p \in Players :
           /\ p \notin devices => sent'[p] = sent[p]
           /\ p \in devices /\ plays => sent'[p] = IF pos < n THEN pos ELSE None
           /\ p \in devices /\ ~plays /\ stop => sent'[p] = None
           /\ p \in devices /\ ~plays /\ ~stop => sent'[p] = sent[p]
  BY SeekListEffect
<1>2. ASSUME NEW p \in Players, ~plays, ~stop, sent[p] # None
      PROVE  sent[p] = pos /\ pos < n
  <2>1. sent[p] = currentItem /\ currentItem < n
    BY <1>2 DEF InStepInv
  <2>2. n \in 0 .. MaxItems /\ currentItem \in SizeT /\ repeat \in BOOLEAN
    BY DEF TypeOK
  <2>3. n \in Nat /\ n <= IntMax /\ currentItem \in 0 .. n - 1
    BY <2>1, <2>2, GroupAssumption, IntMaxAssumption DEF SizeT, SizeMod
  <2>4. pos = currentItem
    BY <1>2, <2>2, <2>3, EndOfLastSongStays
  <2> QED BY <2>1, <2>4
<1> HIDE DEF pos, plays
<1>3. ASSUME NEW p \in Players
      PROVE  /\ p \notin devices => sent'[p] = None
             /\ sent'[p] = None \/ (sent'[p] = pos /\ pos < n)
  <2>1. CASE p \notin devices
    BY <1>1, <2>1 DEF InStepInv
  <2>2. CASE p \in devices /\ plays
    BY <1>1, <2>2
  <2>3. CASE p \in devices /\ ~plays /\ stop
    BY <1>1, <2>3
  <2>4. CASE p \in devices /\ ~plays /\ ~stop
    BY <1>1, <1>2, <2>4
  <2> QED BY <2>1, <2>2, <2>3, <2>4
<1>4. ASSUME NEW p \in Players
      PROVE  sent'[p] # Gone
  <2>1. n \in 0 .. MaxItems /\ pos \in SizeT
    <3>1. n \in 0 .. MaxItems
      BY DEF TypeOK
    <3>2. pos \in SizeT
      BY SeekListEffect DEF pos
    <3> QED BY <3>1, <3>2
  <2>2. pos \in Nat
    BY <2>1, IntMaxAssumption DEF SizeT, SizeMod
  <2> QED BY <1>3, <2>2, GroupAssumption
<1>5. inPlay'["slim"] = NoCall
  OBVIOUS
<1> QED BY <1>1, <1>3, <1>4, <1>5 DEF InStepInv

LEMMA InStepInit == Init => InStepInv
  BY GroupAssumption DEF Init, InStepInv

(* The reports of a player, and their handling.                            *)
LEMMA ListeningKeepsStep ==
  (Threads = {"slim"} \/ replaced = {}) /\ TypeOK /\ InStepInv /\ Listening => InStepInv'
<1> SUFFICES ASSUME Threads = {"slim"} \/ replaced = {}, TypeOK, InStepInv, NEW p \in Players,
                    \/ SongStarts(p) \/ SongEnds(p) \/ RunsDry(p)
                    \/ HandleStat(p) \/ Helo(p)
             PROVE  InStepInv'
  BY DEF Listening
<1>1. ASSUME NEW from, NEW to, NEW code, Reports(p, from, to, code)
      PROVE  InStepInv'
  BY <1>1 DEF Reports, list, InStepInv, CurrentSong, SongAt
<1>2. CASE HandleStat(p)
  <2>1. inPlay["slim"] = NoCall /\ replaced = {}
    BY <1>2 DEF HandleStat, Idle, TypeOK
  <2>2. UNCHANGED <<devices, inPlay, replaced>>
    BY <1>2 DEF HandleStat
  <2>3. CASE UNCHANGED <<list, player>>
    BY <2>2, <2>3 DEF list, player, InStepInv, CurrentSong, SongAt
  <2>4. ASSUME NEW stop \in BOOLEAN, SeekList(1, "SEEK_CUR", stop)
        PROVE  InStepInv'
    <3>1. 1 \in Int /\ "SEEK_CUR" \in Origins
      BY DEF Origins
    <3> QED BY <2>1, <2>2, <2>4, <3>1, SeekKeepsStep
  <2> QED BY <1>2, <2>3, <2>4 DEF HandleStat
<1>3. CASE Helo(p)
  BY <1>3 DEF Helo, Idle, list, InStepInv, TypeOK
<1> QED BY <1>1, <1>2, <1>3 DEF SongStarts, SongEnds, RunsDry

(* The commands.                                                           *)
LEMMA CommandsKeepStep ==
  Threads = {"slim"} /\ TypeOK /\ InStepInv /\ Commands => InStepInv'
<1> SUFFICES ASSUME Threads = {"slim"}, TypeOK, InStepInv, Commands PROVE InStepInv'
  OBVIOUS
<1> DEFINE t == "slim"
<1>1. Idle(t) => inPlay[t] = NoCall /\ replaced = {}
  BY DEF Idle, TypeOK
<1>2. ASSUME NEW p \in Players, PlayCommand(t, p)
      PROVE  InStepInv'
  <2>1. inPlay[t] = NoCall /\ replaced = {} /\ p \in devices
    BY <1>1, <1>2 DEF PlayCommand
  <2>2. CASE Pause(p) /\ UNCHANGED inPlay
    BY <1>2, <2>1, <2>2 DEF PlayCommand, Pause, list, InStepInv
  <2>3. CASE inPlay' = [inPlay EXCEPT ![t] = Call(p, CurrentSong)] /\ UNCHANGED player
    <3>1. inPlay'[t].dev = p /\ inPlay'[t].item = CurrentSong
      BY <2>3 DEF TypeOK, Call
    <3>2. UNCHANGED <<n, currentItem, devices, sent, replaced>>
      BY <1>2, <2>3 DEF PlayCommand, list, player
    <3> QED BY <2>1, <3>1, <3>2 DEF InStepInv, CurrentSong, SongAt
  <2> QED BY <1>2, <2>2, <2>3 DEF PlayCommand
<1>3. ASSUME PlaySends(t)
      PROVE  InStepInv'
  <2>1. /\ inPlay[t] # NoCall /\ replaced = {} /\ inPlay[t].dev \in devices
        /\ inPlay[t].item = CurrentSong
    BY <1>3 DEF PlaySends, InStepInv
  <2>2. sent' = [sent EXCEPT ![inPlay[t].dev] = CurrentSong] /\ inPlay'[t] = NoCall
    BY <1>3, <2>1 DEF PlaySends, Play, TypeOK
  <2>3. UNCHANGED <<n, currentItem, devices, replaced>>
    BY <1>3 DEF PlaySends, list
  <2>4. sent \in [Players -> Song] /\ devices \subseteq Players
    BY DEF TypeOK
  <2>5. CurrentSong # Gone
    <3>1. currentItem \in SizeT
      BY DEF TypeOK
    <3>2. currentItem \in Nat
      BY <3>1, IntMaxAssumption DEF SizeT, SizeMod
    <3> QED BY <3>2, GroupAssumption DEF CurrentSong, SongAt
  <2>6. CurrentSong = None \/ (CurrentSong = currentItem /\ currentItem < n)
    BY DEF CurrentSong, SongAt
  <2>7. \A p \in Players : sent'[p] = IF p = inPlay[t].dev THEN CurrentSong ELSE sent[p]
    BY <2>2, <2>4
  <2> QED BY <2>1, <2>2, <2>3, <2>5, <2>6, <2>7 DEF InStepInv
<1>4. ASSUME NEW p \in Players, PauseCommand(t, p)
      PROVE  InStepInv'
  BY <1>4 DEF PauseCommand, Pause, Unpause, list, InStepInv, CurrentSong, SongAt
<1>5. ASSUME NEW p \in Players, StopCommand(t, p)
      PROVE  InStepInv'
  BY <1>1, <1>5, GroupAssumption DEF StopCommand, StopPlayer, list, InStepInv, TypeOK
<1>6. ASSUME RepeatCommand(t)
      PROVE  InStepInv'
  BY <1>6 DEF RepeatCommand, player, InStepInv, CurrentSong, SongAt
<1>7. ASSUME SeekCommand(t)
      PROVE  InStepInv'
  <2>1. PICK offset \in Int, origin \in Origins : SeekList(offset, origin, TRUE)
    <3>1. {-1, 1} \subseteq Int /\ Asked \subseteq Int
      BY GroupAssumption, IntMaxAssumption
    <3>2. "SEEK_CUR" \in Origins /\ "SEEK_SET" \in Origins
      BY DEF Origins
    <3>3. \/ \E offset \in {-1, 1} : SeekList(offset, "SEEK_CUR", TRUE)
          \/ \E index \in Asked : SeekList(index, "SEEK_SET", TRUE)
      BY <1>7 DEF SeekCommand
    <3> QED BY <3>1, <3>2, <3>3, Zenon
  <2>2. inPlay[t] = NoCall /\ UNCHANGED <<devices, inPlay>>
    BY <1>1, <1>7 DEF SeekCommand
  <2> QED BY <2>1, <2>2, SeekKeepsStep
<1>8. ASSUME NEW k \in 0 .. MaxItems, AddCommand(t, k)
      PROVE  InStepInv'
  <2>1. n \in 0 .. MaxItems /\ currentItem \in SizeT
    BY DEF TypeOK
  <2>2. currentItem < n => currentItem < n'
    BY <1>8, <2>1, GroupAssumption, IntMaxAssumption DEF AddCommand, SizeT, SizeMod
  <2>3. inPlay' = inPlay /\ inPlay[t] = NoCall
    BY <1>1, <1>8 DEF AddCommand
  <2> QED BY <1>8, <2>2, <2>3 DEF AddCommand, player, InStepInv
<1>9. ASSUME NEW k \in 1 .. MaxItems, ReplaceCommand(t, k)
      PROVE  InStepInv'
  <2>1. inPlay[t] = NoCall /\ replaced' # {}
    BY <1>1, <1>9 DEF ReplaceCommand
  <2>2. inPlay'[t] = NoCall
    BY <1>9, <2>1 DEF ReplaceCommand
  <2>3. \A p \in Players : sent'[p] = IF sent[p] = None THEN None ELSE Gone
    BY <1>9 DEF ReplaceCommand
  <2>4. devices' = devices
    BY <1>9 DEF ReplaceCommand
  <2> QED BY <2>1, <2>2, <2>3, <2>4 DEF InStepInv
<1>10. ASSUME ReplaceSeeks(t)
       PROVE  InStepInv'
  <2>1. SeekList(0, "SEEK_SET", TRUE) /\ UNCHANGED <<devices, inPlay>> /\ replaced # {}
    BY <1>10 DEF ReplaceSeeks
  <2>2. inPlay[t] = NoCall
    BY <2>1 DEF InStepInv
  <2>3. 0 \in Int /\ "SEEK_SET" \in Origins
    BY DEF Origins
  <2> QED BY <2>1, <2>2, <2>3, SeekKeepsStep
<1> QED BY <1>2, <1>3, <1>4, <1>5, <1>6, <1>7, <1>8, <1>9, <1>10 DEF Commands

(* The players of the group stay in step as long as the slim thread alone  *)
(* serves them: whatever the remote controls ask for, whatever the players *)
(* report and however late, a player that streams streams the song the     *)
(* list is at.                                                             *)
THEOREM PlayersInStep ==
  ASSUME Threads = {"slim"} PROVE Spec => []InStep
<1>1. TypeOK /\ InStepInv /\ [Next]_vars => InStepInv'
  <2>1. InStepInv /\ UNCHANGED vars => InStepInv'
    BY DEF vars, list, InStepInv, CurrentSong, SongAt
  <2> QED BY <2>1, ListeningKeepsStep, CommandsKeepStep DEF Next
<1>2. InStepInv => InStep
  BY DEF InStepInv, InStep
<1> QED BY <1>1, <1>2, InStepInit, TypeCorrect, PTL DEF Spec

-----------------------------------------------------------------------------
(* Why a seek reaches everybody, whichever threads there are: a player     *)
(* that was never registered was never sent a song, and a play() is only   *)
(* entered for a player that is registered.                                *)
Reached ==
  /\ \A p \in Players \ devices : sent[p] = None
  /\ \A t \in Threads : inPlay[t] # NoCall => inPlay[t].dev \in devices

LEMMA ReachedInit == Init => Reached
  BY DEF Init, Reached

LEMMA SeekReaches ==
  ASSUME TypeOK, Reached,
         NEW offset \in Int, NEW origin \in Origins, NEW stop \in BOOLEAN,
         SeekList(offset, origin, stop)
  PROVE  /\ \A p \in Players \ devices : sent'[p] = None
         /\ stop => \A p \in Players : sent'[p] \in {None, currentItem'}
  BY ZenonT(30), SeekListEffect DEF Reached

(* What a seek command and the seek of a replaced list have in common.     *)
LEMMA StoppingSeek ==
  ASSUME NEW t \in Threads, SeekCommand(t) \/ ReplaceSeeks(t)
  PROVE  /\ UNCHANGED <<devices, inPlay>>
         /\ \E offset \in Int, origin \in Origins : SeekList(offset, origin, TRUE)
<1>1. {-1, 0, 1} \subseteq Int /\ Asked \subseteq Int
  BY GroupAssumption, IntMaxAssumption
<1>2. "SEEK_CUR" \in Origins /\ "SEEK_SET" \in Origins
  BY DEF Origins
<1>3. CASE SeekCommand(t)
  <2>1. \/ \E offset \in {-1, 1} : SeekList(offset, "SEEK_CUR", TRUE)
        \/ \E index \in Asked : SeekList(index, "SEEK_SET", TRUE)
    BY <1>3 DEF SeekCommand
  <2>2. \E offset \in Int, origin \in Origins : SeekList(offset, origin, TRUE)
    BY <1>1, <1>2, <2>1, Zenon
  <2> QED BY <1>3, <2>2 DEF SeekCommand
<1>4. CASE ReplaceSeeks(t)
  <2>1. SeekList(0, "SEEK_SET", TRUE)
    BY <1>4 DEF ReplaceSeeks
  <2>2. \E offset \in Int, origin \in Origins : SeekList(offset, origin, TRUE)
    BY <1>1, <1>2, <2>1, Zenon
  <2> QED BY <1>4, <2>2 DEF ReplaceSeeks
<1> QED BY <1>3, <1>4

LEMMA ListeningReaches == TypeOK /\ Reached /\ Listening => Reached'
<1> SUFFICES ASSUME TypeOK, Reached, NEW p \in Players,
                    \/ SongStarts(p) \/ SongEnds(p) \/ RunsDry(p)
                    \/ HandleStat(p) \/ Helo(p)
             PROVE  Reached'
  BY DEF Listening
<1>1. ASSUME NEW from, NEW to, NEW code, Reports(p, from, to, code)
      PROVE  Reached'
  BY <1>1 DEF Reports, Reached
<1>2. CASE HandleStat(p)
  <2>1. UNCHANGED <<devices, inPlay>>
    BY <1>2 DEF HandleStat
  <2>2. CASE UNCHANGED player
    BY <2>1, <2>2 DEF player, Reached
  <2>3. ASSUME NEW stop \in BOOLEAN, SeekList(1, "SEEK_CUR", stop)
        PROVE  Reached'
    <3>1. 1 \in Int /\ "SEEK_CUR" \in Origins
      BY DEF Origins
    <3>2. \A q \in Players \ devices : sent'[q] = None
      BY <2>3, <3>1, SeekReaches
    <3> QED BY <2>1, <3>2 DEF Reached
  <2> QED BY <1>2, <2>2, <2>3 DEF HandleStat
<1>3. CASE Helo(p)
  BY <1>3 DEF Helo, Reached, TypeOK
<1> QED BY <1>1, <1>2, <1>3 DEF SongStarts, SongEnds, RunsDry

LEMMA CommandsReach == TypeOK /\ Reached /\ Commands => Reached'
<1> SUFFICES ASSUME TypeOK, Reached, NEW t \in Threads,
                    \/ \E p \in Players :
                         PlayCommand(t, p) \/ PauseCommand(t, p) \/ StopCommand(t, p)
                    \/ PlaySends(t) \/ RepeatCommand(t)
                    \/ SeekCommand(t) \/ ReplaceSeeks(t)
                    \/ \E k \in 0 .. MaxItems : AddCommand(t, k)
                    \/ \E k \in 1 .. MaxItems : ReplaceCommand(t, k)
             PROVE  Reached'
  BY DEF Commands
<1>1. ASSUME NEW p \in Players, PlayCommand(t, p)
      PROVE  Reached'
  <2>1. p \in devices /\ UNCHANGED <<devices, sent>>
    BY <1>1 DEF PlayCommand, Pause, player
  <2>2. inPlay' = inPlay \/ inPlay' = [inPlay EXCEPT ![t] = Call(p, CurrentSong)]
    BY <1>1 DEF PlayCommand
  <2>3. ASSUME inPlay' = [inPlay EXCEPT ![t] = Call(p, CurrentSong)], NEW u \in Threads
        PROVE  inPlay'[u] = inPlay[u] \/ inPlay'[u].dev = p
    <3>1. DOMAIN inPlay = Threads
      BY DEF TypeOK
    <3>2. inPlay'[u] = IF u = t THEN Call(p, CurrentSong) ELSE inPlay[u]
      BY <2>3, <3>1
    <3>3. Call(p, CurrentSong).dev = p
      BY DEF Call
    <3> QED BY <3>2, <3>3
  <2> QED BY <2>1, <2>2, <2>3 DEF Reached
<1>2. ASSUME NEW p \in Players, PauseCommand(t, p)
      PROVE  Reached'
  BY <1>2 DEF PauseCommand, Pause, Unpause, Reached
<1>3. ASSUME NEW p \in Players, StopCommand(t, p)
      PROVE  Reached'
  BY <1>3 DEF StopCommand, StopPlayer, Reached, TypeOK
<1>4. ASSUME PlaySends(t)
      PROVE  Reached'
  <2>1. inPlay[t].dev \in devices /\ devices' = devices
    BY <1>4 DEF PlaySends, Reached
  <2>2. \A p \in Players \ devices : sent'[p] = sent[p]
    BY <1>4, <2>1 DEF PlaySends, Play, TypeOK
  <2>3. \A u \in Threads : inPlay'[u] \in {inPlay[u], NoCall}
    BY <1>4 DEF PlaySends, TypeOK
  <2> QED BY <2>1, <2>2, <2>3 DEF Reached
<1>5. CASE RepeatCommand(t)
  BY <1>5 DEF RepeatCommand, player, Reached
<1>6. CASE SeekCommand(t) \/ ReplaceSeeks(t)
  <2>1. \A p \in Players \ devices : sent'[p] = None
    BY <1>6, StoppingSeek, SeekReaches
  <2> QED BY <1>6, <2>1, StoppingSeek DEF Reached
<1>7. ASSUME NEW k \in 0 .. MaxItems, AddCommand(t, k)
      PROVE  Reached'
  BY <1>7 DEF AddCommand, player, Reached
<1>8. ASSUME NEW k \in 1 .. MaxItems, ReplaceCommand(t, k)
      PROVE  Reached'
  <2>1. \A p \in Players : sent[p] = None => sent'[p] = None
    BY <1>8 DEF ReplaceCommand
  <2>2. \A u \in Threads : inPlay'[u] = NoCall \/ (inPlay[u] # NoCall
                                                   /\ inPlay'[u].dev = inPlay[u].dev)
    BY <1>8 DEF ReplaceCommand, Call
  <2>3. devices' = devices
    BY <1>8 DEF ReplaceCommand
  <2> QED BY <2>1, <2>2, <2>3 DEF Reached
<1> QED BY <1>1, <1>2, <1>3, <1>4, <1>5, <1>6, <1>7, <1>8

(* A seek brings every player in line, for one thread or two: after it a   *)
(* player streams the song the list moved to or nothing, whatever the      *)
(* races of play() with earlier seeks had left it with.                    *)
THEOREM SeeksAlign == Spec => SeekAligns
<1> DEFINE Aligned ==
      \A t \in Threads :
        SeekCommand(t) \/ ReplaceSeeks(t)
          => \A p \in Players : sent'[p] \in {None, currentItem'}
<1>1. TypeOK /\ Reached => Aligned
  <2> SUFFICES ASSUME TypeOK, Reached, NEW t \in Threads,
                      SeekCommand(t) \/ ReplaceSeeks(t)
               PROVE  \A p \in Players : sent'[p] \in {None, currentItem'}
    OBVIOUS
  <2>1. PICK offset \in Int, origin \in Origins : SeekList(offset, origin, TRUE)
    BY StoppingSeek
  <2> QED BY <2>1, SeekReaches
<1>2. TypeOK /\ Reached /\ [Next]_vars => Reached'
  <2>1. Reached /\ UNCHANGED vars => Reached'
    BY DEF vars, Reached
  <2> QED BY <2>1, ListeningReaches, CommandsReach DEF Next
<1>3. SeekAligns <=> [][Aligned]_vars
  BY DEF SeekAligns
<1> HIDE DEF Aligned
<1> QED BY <1>1, <1>2, <1>3, ReachedInit, TypeCorrect, PTL DEF Spec

-----------------------------------------------------------------------------
(* A group that is left alone: no list of it is being replaced.            *)
ListenInv == InStepInv /\ replaced = {}

LEMMA ListenInitType == ListenInit => TypeOK
<1> SUFFICES ASSUME ListenInit PROVE TypeOK
  OBVIOUS
<1>1. None \in Song /\ 0 \in SizeT
  BY GroupAssumption, IntMaxAssumption DEF Song, SizeT, SizeMod
<1>2. n \in 1 .. MaxItems /\ MaxItems \in Nat
  BY GroupAssumption DEF ListenInit
<1>3. 0 \in Song /\ n \in 0 .. MaxItems
  BY <1>2 DEF Song, Item
<1>4. /\ currentItem \in SizeT /\ repeat \in BOOLEAN
      /\ devices \subseteq Players /\ replaced \subseteq Threads
      /\ sent \in [Players -> Song] /\ shown \in [Players -> Song]
      /\ playState \in [Players -> PlayStates]
      /\ phase \in [Players -> {"stopped", "sent", "started", "decoded", "dry"}]
  BY <1>1, <1>3 DEF ListenInit, PlayStates
<1>5. event \in [Players -> [code : {"", "STMs", "STMd", "STMu"}, item : Song]]
  BY <1>1 DEF ListenInit, NoStat, Stat
<1>6. inPlay \in [Threads -> [dev : Players \cup {None}, item : Song]]
  BY <1>1 DEF ListenInit, NoCall, Call
<1> QED BY <1>3, <1>4, <1>5, <1>6 DEF TypeOK

LEMMA ListenInitInv == ListenInit => ListenInv
<1> SUFFICES ASSUME ListenInit PROVE ListenInv
  OBVIOUS
<1>1. n \in 1 .. MaxItems /\ MaxItems \in Nat /\ 0 \notin {None, Gone} /\ None # Gone
  BY GroupAssumption DEF ListenInit
<1>2. /\ currentItem = 0 /\ replaced = {}
      /\ \A p \in Players : sent[p] = IF p \in devices THEN 0 ELSE None
      /\ \A p \in Players : event[p] = NoStat
      /\ \A t \in Threads : inPlay[t] = NoCall
  BY DEF ListenInit
<1>3. inPlay["slim"] = NoCall
  BY <1>2, GroupAssumption
<1>4. InStepInv
  BY <1>1, <1>2, <1>3 DEF InStepInv
<1> QED BY <1>2, <1>4 DEF ListenInv

LEMMA ListeningKeepsInv == TypeOK /\ ListenInv /\ Listening => ListenInv'
<1> SUFFICES ASSUME TypeOK, ListenInv, Listening PROVE ListenInv'
  OBVIOUS
<1>1. InStepInv'
  BY ListeningKeepsStep DEF ListenInv
<1>2. replaced' = {}
  BY DEF Listening, ListenInv, SongStarts, SongEnds, RunsDry, Reports, HandleStat, Helo
<1> QED BY <1>1, <1>2 DEF ListenInv

LEMMA ListenInvariant == ListenSpec => [](TypeOK /\ ListenInv)
<1>1. TypeOK /\ ListenInv /\ [Listening]_vars => (TypeOK /\ ListenInv)'
  <2>1. TypeOK /\ ListenInv /\ UNCHANGED vars => (TypeOK /\ ListenInv)'
    BY DEF vars, list, TypeOK, ListenInv, InStepInv, CurrentSong, SongAt
  <2> QED BY <2>1, ListeningType, ListeningKeepsInv
<1> QED BY <1>1, ListenInitType, ListenInitInv, PTL DEF ListenSpec

(* Of a group that is left alone, whoever streams a song streams the one   *)
(* the list is at, whichever player reported what, and when.               *)
THEOREM ListenersInStep == ListenSpec => []InStep
<1>1. ListenInv => InStep
  BY DEF ListenInv, InStepInv, InStep
<1> QED BY <1>1, ListenInvariant, PTL

===========================================================================
