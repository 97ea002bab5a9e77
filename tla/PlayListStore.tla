-------------------------- MODULE PlayListStore --------------------------
(***************************************************************************)
(* The play list of the one group every player is put in ("all"), and the  *)
(* file slimIPC.ini it is kept in: slimIPC::setGroup, addToGroup, seekList *)
(* (its effect on the list), setRepeat, save, load and the constructor,    *)
(* called by the slim thread (remote control, menus) and by the shout      *)
(* thread (web pages).  Every list operation holds mutex.group from its    *)
(* first to its last access of the list, so each is one step; IPCLocks     *)
(* models the mutexes themselves.                                          *)
(*                                                                         *)
(* The process may stop between any two steps, and inside save(), which    *)
(* truncates the file and then writes it line by line.                     *)
(***************************************************************************)
EXTENDS PlayListOps

CONSTANTS
  Threads,      \* the threads that operate on the list: slim and shout
  Songs,        \* the entries a list may hold
  Fragile,      \* those whose saved url does not lead back to the song: a
                \* remote stream is saved without its host, a file name is
                \* cut at its first '='
  Blank,        \* the entry without a url: the constructor's default, and
                \* what loading a fragile url makes of it
  DefaultList,  \* the list made from the database when no file was found
  Asked,        \* the indices a web page or the play list menu seeks to
  MaxLen        \* bound: the longest list explored

ASSUME StoreAssumption ==
  /\ Fragile \subseteq Songs
  /\ Blank \in Songs \ Fragile
  /\ MaxLen \in Nat /\ MaxLen <= IntMax
  /\ DefaultList \in Seq(Songs) /\ Len(DefaultList) <= MaxLen
  /\ Asked \subseteq (-IntMax .. IntMax)

VARIABLES
  items,        \* playList::items of the group
  currentItem,  \* playList::currentItem
  repeat,       \* playList::repeat
  disk,         \* the contents of slimIPC.ini
  replaced,     \* the threads that replaced the list and go on to seek to 0
  up            \* the process runs.  While it does not, the list variables
                \* keep their last value, for the properties to refer to

vars == <<items, currentItem, repeat, disk, replaced, up>>

Lists == UNION {[1 .. n -> Songs] : n \in 0 .. MaxLen}

(***************************************************************************)
(* The file.  save() writes, in the order of the map: the group names, the *)
(* entries, the position.  A reader that finds no position takes 0.        *)
(***************************************************************************)
File(named, list, position) ==
  [named |-> named, items |-> list, position |-> position]

NoFile == File(FALSE, << >>, 0)

(* The files a stop in the middle of save() can leave behind.              *)
CutFiles(list) ==
  {NoFile} \cup {File(TRUE, SubSeq(list, 1, k), 0) : k \in 0 .. Len(list)}

(* musicFile::operator string followed by musicFile(url): what a saved     *)
(* entry is after the next start.                                          *)
Reloaded(song) == IF song \in Fragile THEN Blank ELSE song
Reload(list)   == [i \in DOMAIN list |-> Reloaded(list[i])]

(* save() of the list, to its end or until the process stops.              *)
Save(list, position) ==
  \/ disk' = File(TRUE, list, position) /\ up' = TRUE
  \/ disk' \in CutFiles(list) /\ up' = FALSE

-----------------------------------------------------------------------------
(* The constructor: load(), and the default list when that gave no group.  *)
LoadOrDefault ==
  /\ repeat' = FALSE
  /\ replaced' = {}
  /\ IF disk.named
     THEN /\ items' = Reload(disk.items)
          /\ currentItem' = ToSize(ToInt(disk.position))
          /\ disk' = disk
          /\ up' = TRUE
     ELSE /\ items' = DefaultList
          /\ currentItem' = 0
          /\ Save(DefaultList, 0)

(* setGroup.  Its callers seek to the first entry next (SeekFirst).        *)
SetGroup(t, new) ==
  /\ up
  /\ t \notin replaced
  /\ items' = new
  /\ currentItem' = 0
  /\ Save(new, 0)
  /\ replaced' = replaced \cup {t}
  /\ UNCHANGED repeat

AddToGroupUnsaved(t, new, offset) ==        \* mutant: no save()
  /\ up
  /\ t \notin replaced
  /\ Len(items) + Len(new) <= MaxLen
  /\ items' = InsertItems(items, new, offset)
  /\ UNCHANGED <<currentItem, repeat, disk, replaced, up>>

AddToGroup(t, new, offset) ==
  /\ up
  /\ t \notin replaced
  /\ Len(items) + Len(new) <= MaxLen
  /\ items' = InsertItems(items, new, offset)
  /\ Save(items', currentItem)
  /\ UNCHANGED <<currentItem, repeat, replaced>>

(* seekList, as far as the list is concerned: nothing is saved.            *)
Seek(offset, origin) ==
  /\ currentItem' = SeekItem(Len(items), currentItem, repeat, offset, origin)
  /\ UNCHANGED <<items, repeat, disk, up>>

SeekFirst(t) ==
  /\ up
  /\ t \in replaced
  /\ Seek(0, "SEEK_SET")
  /\ replaced' = replaced \ {t}

(* "next", "prev", the end of a song; and a jump to a chosen entry.        *)
SeekList(t, offset, origin) ==
  /\ up
  /\ t \notin replaced
  /\ Seek(offset, origin)
  /\ UNCHANGED replaced

SetRepeat(t) ==
  /\ up
  /\ t \notin replaced
  /\ repeat' = ~repeat
  /\ UNCHANGED <<items, currentItem, disk, replaced, up>>

Stop ==
  /\ up
  /\ up' = FALSE
  /\ UNCHANGED <<items, currentItem, repeat, disk, replaced>>

Start == ~up /\ LoadOrDefault

-----------------------------------------------------------------------------
Init ==
  /\ items = << >> /\ currentItem = 0 /\ repeat = FALSE
  /\ disk = NoFile
  /\ replaced = {}
  /\ up = FALSE

(* Any seek: of a chosen entry, of a neighbour, of the first entry of a    *)
(* new list.                                                               *)
AnySeek ==
  \E t \in Threads :
    \/ SeekFirst(t)
    \/ \E offset \in {-1, 1} : SeekList(t, offset, "SEEK_CUR")
    \/ \E index \in Asked : SeekList(t, index, "SEEK_SET")

(* Additions use the default offset, -1; a new list is never empty.        *)
Next ==
  \/ \E t \in Threads :
       \/ \E new \in Lists \ {<< >>} : SetGroup(t, new)
       \/ \E new \in Lists : AddToGroup(t, new, -1)
       \/ SetRepeat(t)
  \/ AnySeek
  \/ Stop
  \/ Start

Spec == Init /\ [][Next]_vars

-----------------------------------------------------------------------------
TypeOK ==
  /\ items \in Lists
  /\ currentItem \in SizeT
  /\ repeat \in BOOLEAN
  /\ disk \in [named : BOOLEAN, items : Lists, position : SizeT]
  /\ replaced \subseteq Threads
  /\ up \in BOOLEAN

(* The position, in memory and on disk, names an entry of its list; the    *)
(* only others are 0 of a list never filled and SizeMax, which a seek in   *)
(* an empty list leaves.  getSong (slimIPC.cpp:680) and the stream request *)
(* (serverShoutCast.cpp:456) index the list with it unchecked.             *)
PositionInv ==
  /\ GoodPosition(items, currentItem)
  /\ GoodPosition(disk.items, disk.position)

(* Whenever the program runs, the file holds the list it plays from: no    *)
(* operation changes the list without saving it.  After a stop the file    *)
(* holds a beginning of that list, or no list at all.                      *)
SavedInv ==
  /\ up => disk.named /\ Reload(disk.items) = Reload(items)
  /\ disk.named =>
       /\ Len(disk.items) <= Len(items)
       /\ Reload(disk.items) = SubSeq(Reload(items), 1, Len(disk.items))

(* Adding entries never changes which song is the current one: addToGroup  *)
(* leaves currentItem alone and is never asked to insert before it.        *)
CurrentSongKept ==
  [][ up /\ up' /\ replaced' = replaced /\ items' # items /\ HasItem(items, currentItem)
        => /\ HasItem(items', currentItem')
           /\ items'[currentItem' + 1] = items[currentItem + 1] ]_vars

(* A seek in a list that has entries always repairs the position: whatever *)
(* was asked for, and wherever an empty list had left it, the position     *)
(* names an entry afterwards.                                              *)
SeekRepairs ==
  [][ AnySeek /\ items # << >> => HasItem(items', currentItem') ]_vars

(* "load an save status from/to disk" (slimIPC.hpp:217): a start that      *)
(* finds the whole list on disk brings back the list that was playing.     *)
(* The code does not keep it for songs whose url is not read back as it    *)
(* was (Fragile).  No run lists this.                                      *)
StatusRestored ==
  [][ ~up /\ up' /\ disk.named /\ disk.items = items => items' = items ]_vars
===========================================================================
