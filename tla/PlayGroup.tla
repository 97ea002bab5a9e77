---------------------------- MODULE PlayGroup ----------------------------
(***************************************************************************)
(* The players of a group and the list they listen to.  Every player is    *)
(* registered in the same group, so a seek (slimIPC::seekList) stops and   *)
(* starts all of them under mutex.group; a single player is started,       *)
(* paused or stopped by its own remote control (slimConnectionHandler::ir, *)
(* in the slim thread) or by a web page (slimIPC::setDevice, in the shout  *)
(* thread).  These hold no mutex that a seek holds, so a play() reads the  *)
(* position in one step and sends the stream command in another.           *)
(*                                                                         *)
(* The list itself is reduced to its length: a song is its position.       *)
(***************************************************************************)
EXTENDS PlayListOps

CONSTANTS
  Players,    \* the squeezeboxes
  Threads,    \* {"slim"}, or {"slim", "shout"} when web pages are served
  Asked,      \* the indices a web page or the play list menu seeks to
  MaxItems,   \* bound: the longest list
  None,       \* no song
  Gone        \* a song of a list that was replaced meanwhile

ASSUME GroupAssumption ==
  /\ "slim" \in Threads /\ Threads \subseteq {"slim", "shout"}
  /\ Asked \subseteq (-IntMax .. IntMax)
  /\ MaxItems \in Nat /\ MaxItems <= IntMax
  /\ None \notin Nat /\ Gone \notin Nat /\ None # Gone

VARIABLES
  n,            \* playList::items.size()
  currentItem,  \* playList::currentItem
  repeat,       \* playList::repeat
  devices,      \* the registered players
  playState,    \* state_s::playState of each
  sent,         \* the song of the stream command a player last got, None
                \* once it was told to stop
  shown,        \* state_s::currentSong: the song a player displays
  event,        \* the STAT message of a player on its way to the server
  phase,        \* how far a player is in the stream it was sent
  inPlay,       \* the play() a thread is in: the player and the song read
  replaced      \* the threads that replaced the list and seek to 0 next

vars == <<n, currentItem, repeat, devices, playState, sent, shown, event,
          phase, inPlay, replaced>>

list   == <<n, currentItem, repeat>>
player == <<playState, sent, phase>>

Item     == 0 .. MaxItems - 1
PlayStates == {"PL_STOP", "PL_PAUSE", "PL_PLAY"}
Stat(code, item) == [code |-> code, item |-> item]
NoStat == Stat("", None)
Call(dev, item) == [dev |-> dev, item |-> item]
NoCall == Call(None, None)

(* The song at a position; a play() outside the list sends the url of an   *)
(* empty musicFile.                                                        *)
SongAt(pos) == IF pos < n THEN pos ELSE None
CurrentSong == SongAt(currentItem)

(* A thread free to take up another request.                               *)
Idle(t) == inPlay[t] = NoCall /\ t \notin replaced

-----------------------------------------------------------------------------
(* What the player handlers do to one player: play, pause, unpause, stop.  *)
Play(p, song) ==
  /\ playState' = [playState EXCEPT ![p] = "PL_PLAY"]
  /\ sent'      = [sent EXCEPT ![p] = song]
  /\ phase'     = [phase EXCEPT ![p] = "sent"]

Pause(p) ==
  /\ playState' = [playState EXCEPT ![p] = "PL_PAUSE"]
  /\ UNCHANGED <<sent, phase>>

Unpause(p) ==
  /\ playState' = [playState EXCEPT ![p] = "PL_PLAY"]
  /\ UNCHANGED <<sent, phase>>

StopPlayer(p) ==
  /\ playState' = [playState EXCEPT ![p] = "PL_STOP"]
  /\ sent'      = [sent EXCEPT ![p] = None]
  /\ phase'     = [phase EXCEPT ![p] = "stopped"]

(* seekList: the list moves, then every registered player is stopped (when *)
(* asked for) and started (unless the end was reached).                    *)
TellPlayers(told, song, plays, stopCurrent) ==
  LET Each(f, started, stopped) ==
        [p \in Players |-> IF p \notin told THEN f[p]
                           ELSE IF plays THEN started
                           ELSE IF stopCurrent THEN stopped ELSE f[p]]
  IN  /\ playState' = Each(playState, "PL_PLAY", "PL_STOP")
      /\ sent'      = Each(sent, song, None)
      /\ phase'     = Each(phase, "sent", "stopped")

(* Mutants of SeekList: the players are told before the list moves; a      *)
(* paused player is left alone.                                            *)
SeekListPlaysFirst(offset, origin, stopCurrent) ==
  /\ currentItem' = SeekItem(n, currentItem, repeat, offset, origin)
  /\ TellPlayers(devices, SongAt(currentItem),
                 SeekPlays(n, currentItem, repeat, offset, origin), stopCurrent)
  /\ UNCHANGED <<n, repeat>>

SeekListSkipsPaused(offset, origin, stopCurrent) ==
  LET pos == SeekItem(n, currentItem, repeat, offset, origin)
  IN  /\ currentItem' = pos
      /\ TellPlayers({p \in devices : playState[p] # "PL_PAUSE"}, SongAt(pos),
                     SeekPlays(n, currentItem, repeat, offset, origin), stopCurrent)
      /\ UNCHANGED <<n, repeat>>

SeekList(offset, origin, stopCurrent) ==
  LET pos == SeekItem(n, currentItem, repeat, offset, origin)
  IN  /\ currentItem' = pos
      /\ TellPlayers(devices, SongAt(pos),
                     SeekPlays(n, currentItem, repeat, offset, origin), stopCurrent)
      /\ UNCHANGED <<n, repeat>>

-----------------------------------------------------------------------------
(* The players.  A player told to stream a song reports that it started    *)
(* (STMs), that it wants the next one (STMd), and that it ran dry when it  *)
(* got none (STMu).  One report is on its way at a time.                   *)
Reports(p, from, to, code) ==
  /\ sent[p] # None
  /\ event[p] = NoStat
  /\ phase[p] = from
  /\ playState[p] # "PL_PAUSE"
  /\ phase' = [phase EXCEPT ![p] = to]
  /\ event' = [event EXCEPT ![p] = Stat(code, sent[p])]
  /\ UNCHANGED <<list, devices, playState, sent, shown, inPlay, replaced>>

SongStarts(p) == Reports(p, "sent", "started", "STMs")
SongEnds(p)   == Reports(p, "started", "decoded", "STMd")
RunsDry(p)    == Reports(p, "decoded", "dry", "STMu")

(* slimConnectionHandler::stat.                                            *)
HandleStat(p) ==
  /\ Idle("slim")
  /\ event[p] # NoStat
  /\ event' = [event EXCEPT ![p] = NoStat]
  /\ \/ /\ event[p].code = "STMs"
        /\ shown' = [shown EXCEPT ![p] = CurrentSong]
        /\ UNCHANGED <<list, player>>
     \/ /\ event[p].code = "STMd"
        /\ SeekList(1, "SEEK_CUR", FALSE)
        /\ UNCHANGED shown
     \/ /\ event[p].code = "STMu"
        /\ SeekList(1, "SEEK_CUR", TRUE)
        /\ UNCHANGED shown
  /\ UNCHANGED <<devices, inPlay, replaced>>

(* slimConnectionHandler::helo: the player is registered and told to stop. *)
Helo(p) ==
  /\ Idle("slim")
  /\ p \notin devices
  /\ devices' = devices \cup {p}
  /\ sent'  = [sent EXCEPT ![p] = None]
  /\ phase' = [phase EXCEPT ![p] = "stopped"]
  /\ UNCHANGED <<list, playState, shown, event, inPlay, replaced>>

-----------------------------------------------------------------------------
(* The commands of remote controls and web pages.                          *)

(* "play" on a player that plays pauses it; otherwise play() is entered:   *)
(* it reads the position of the list ...                                   *)
PlayCommand(t, p) ==
  /\ Idle(t)
  /\ p \in devices
  /\ \/ /\ playState[p] = "PL_PLAY"
        /\ Pause(p)
        /\ UNCHANGED inPlay
     \/ /\ playState[p] # "PL_PLAY"
        /\ inPlay' = [inPlay EXCEPT ![t] = Call(p, CurrentSong)]
        /\ UNCHANGED player
  /\ UNCHANGED <<list, devices, shown, event, replaced>>

(* ... and sends the stream command for what it read.                      *)
PlaySends(t) ==
  /\ inPlay[t] # NoCall
  /\ Play(inPlay[t].dev, inPlay[t].item)
  /\ inPlay' = [inPlay EXCEPT ![t] = NoCall]
  /\ UNCHANGED <<list, devices, shown, event, replaced>>

(* "pause": a web page resumes a stopped player too, a remote does not.    *)
PauseCommand(t, p) ==
  /\ Idle(t)
  /\ p \in devices
  /\ \/ playState[p] = "PL_PLAY" /\ Pause(p)
     \/ /\ playState[p] = "PL_PAUSE" \/ (playState[p] = "PL_STOP" /\ t = "shout")
        /\ Unpause(p)
  /\ UNCHANGED <<list, devices, shown, event, inPlay, replaced>>

(* "stop" of a web page, and the power key of a remote.                    *)
StopCommand(t, p) ==
  /\ Idle(t)
  /\ p \in devices
  /\ StopPlayer(p)
  /\ UNCHANGED <<list, devices, shown, event, inPlay, replaced>>

(* setRepeat, and "repeat" of a web page.  The flag is read and written    *)
(* without a mutex: two toggles at once may count as one, which is as if   *)
(* one had not been asked for.                                             *)
RepeatCommand(t) ==
  /\ Idle(t)
  /\ repeat' = ~repeat
  /\ UNCHANGED <<n, currentItem, devices, player, shown, event, inPlay, replaced>>

SeekCommand(t) ==
  /\ Idle(t)
  /\ \/ \E offset \in {-1, 1} : SeekList(offset, "SEEK_CUR", TRUE)
     \/ \E index \in Asked : SeekList(index, "SEEK_SET", TRUE)
  /\ UNCHANGED <<devices, shown, event, inPlay, replaced>>

(* addToGroup at the end of the list.                                      *)
AddCommand(t, k) ==
  /\ Idle(t)
  /\ n + k <= MaxItems
  /\ n' = n + k
  /\ UNCHANGED <<currentItem, repeat, devices, player, shown, event, inPlay, replaced>>

(* setGroup, and the seek to the first entry that its callers make next.   *)
ReplaceCommand(t, k) ==
  /\ Idle(t)
  /\ n' = k
  /\ currentItem' = 0
  /\ sent' = [p \in Players |-> IF sent[p] = None THEN None ELSE Gone]
  /\ event' = [p \in Players |-> IF event[p] = NoStat THEN NoStat
                                 ELSE Stat(event[p].code, Gone)]
  /\ inPlay' = [u \in Threads |-> IF inPlay[u] = NoCall THEN NoCall
                                  ELSE Call(inPlay[u].dev,
                                            IF inPlay[u].item = None THEN None ELSE Gone)]
  /\ shown' = [p \in Players |-> IF shown[p] = None THEN None ELSE Gone]
  /\ replaced' = replaced \cup {t}
  /\ UNCHANGED <<repeat, devices, playState, phase>>

ReplaceSeeks(t) ==
  /\ t \in replaced
  /\ SeekList(0, "SEEK_SET", TRUE)
  /\ replaced' = replaced \ {t}
  /\ UNCHANGED <<devices, shown, event, inPlay>>

-----------------------------------------------------------------------------
Init ==
  /\ n \in 0 .. MaxItems /\ currentItem = 0 /\ repeat = FALSE
  /\ devices   = {}
  /\ playState = [p \in Players |-> "PL_STOP"]
  /\ sent      = [p \in Players |-> None]
  /\ shown     = [p \in Players |-> None]
  /\ event     = [p \in Players |-> NoStat]
  /\ phase     = [p \in Players |-> "stopped"]
  /\ inPlay    = [t \in Threads |-> NoCall]
  /\ replaced  = {}

Listening ==
  \E p \in Players :
    \/ SongStarts(p) \/ SongEnds(p) \/ RunsDry(p)
    \/ HandleStat(p)
    \/ Helo(p)

Commands ==
  \E t \in Threads :
    \/ \E p \in Players : PlayCommand(t, p) \/ PauseCommand(t, p) \/ StopCommand(t, p)
    \/ PlaySends(t)
    \/ RepeatCommand(t)
    \/ SeekCommand(t)
    \/ \E k \in 0 .. MaxItems : AddCommand(t, k)
    \/ \E k \in 1 .. MaxItems : ReplaceCommand(t, k)
    \/ ReplaceSeeks(t)

Next == Listening \/ Commands

Spec == Init /\ [][Next]_vars

(* A group that is left alone: some players were started on the first song *)
(* of a list, and from there only report how far they got, while others    *)
(* may still join them.  A player that got a stream gets to its end, and   *)
(* the select loop of the server handles every report it received.         *)
ListenInit ==
  /\ n \in 1 .. MaxItems /\ currentItem = 0 /\ repeat \in BOOLEAN
  /\ devices   \in SUBSET Players \ {{}}
  /\ playState = [p \in Players |-> IF p \in devices THEN "PL_PLAY" ELSE "PL_STOP"]
  /\ sent      = [p \in Players |-> IF p \in devices THEN 0 ELSE None]
  /\ shown     = [p \in Players |-> None]
  /\ event     = [p \in Players |-> NoStat]
  /\ phase     = [p \in Players |-> IF p \in devices THEN "sent" ELSE "stopped"]
  /\ inPlay    = [t \in Threads |-> NoCall]
  /\ replaced  = {}

Fairness ==
  \A p \in Players :
    /\ WF_vars(SongStarts(p)) /\ WF_vars(SongEnds(p)) /\ WF_vars(RunsDry(p))
    /\ WF_vars(HandleStat(p))

ListenSpec == ListenInit /\ [][Listening]_vars /\ Fairness

-----------------------------------------------------------------------------
Song == Item \cup {None, Gone}

TypeOK ==
  /\ n \in 0 .. MaxItems
  /\ currentItem \in SizeT
  /\ repeat \in BOOLEAN
  /\ devices \subseteq Players
  /\ playState \in [Players -> PlayStates]
  /\ sent \in [Players -> Song]
  /\ shown \in [Players -> Song]
  /\ event \in [Players -> [code : {"", "STMs", "STMd", "STMu"}, item : Song]]
  /\ phase \in [Players -> {"stopped", "sent", "started", "decoded", "dry"}]
  /\ inPlay \in [Threads -> [dev : Players \cup {None}, item : Song]]
  /\ replaced \subseteq Threads

(* The players of the group are in step: whoever streams a song streams    *)
(* the one the list is at, except while a caller of setGroup has yet to    *)
(* seek to the start of the new list.  "Set current song, all listeners    *)
(* get a 'play' command" (slimIPC.hpp:300).                                *)
InStep ==
  \A p \in Players :
    \/ sent[p] \in {None, currentItem}
    \/ sent[p] = Gone /\ replaced # {}

(* A seek brings every player to the song the list moves to, or to a stop, *)
(* whatever the races of play() with earlier seeks had left them with.     *)
SeekAligns ==
  [][ \A t \in Threads :
        SeekCommand(t) \/ ReplaceSeeks(t)
          => \A p \in Players : sent'[p] \in {None, currentItem'} ]_vars

(* "first client to reach end-of-song, requests next. then request will    *)
(* pass a new play command to all clients" (slimIPC.hpp:126-128): only an  *)
(* end of the song the list is at moves the list on.                       *)
EndAdvances ==
  \A p \in Players :
    event[p].code = "STMd" /\ event'[p] = NoStat /\ currentItem' # currentItem
      => event[p].item \in {currentItem, Gone}

(* The code does not keep it for a group: two players that end the same    *)
(* song move the list on twice.  No run lists this.                        *)
FirstEndAdvances == [][EndAdvances]_vars

(* A list that is not repeated is played to its end, and then every player *)
(* falls silent for good.                                                  *)
PlaysToEnd == repeat \/ <>[](\A p \in Players : sent[p] = None)

(* "repeat list, after it's completed" (slimIPC.hpp:124): a repeated list  *)
(* comes back to each of its songs for ever.                               *)
RepeatsForever ==
  repeat => \A i \in Item : []<>(i < n => currentItem = i)
===========================================================================
