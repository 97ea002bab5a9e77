----------------------- MODULE PlayListStoreProofs -----------------------
(***************************************************************************)
(* For every set of songs, threads and asked-for indices, and every bound  *)
(* on the list's length: the types of PlayListStore, the position          *)
(* invariant and the invariant that ties the list to its file.             *)
(***************************************************************************)
EXTENDS PlayListStore, SequenceTheorems, TLAPS

(* Where a seek may leave the position: on an entry when there is one, and *)
(* on 0 or SizeMax when there is none.  Whatever was asked for.            *)
LEMMA SeekItemRange ==
  ASSUME NEW n \in Nat, n <= IntMax,
         NEW cur \in SizeT, NEW rep \in BOOLEAN,
         NEW offset \in Int, NEW origin \in Origins
  PROVE  LET pos == SeekItem(n, cur, rep, offset, origin)
         IN  /\ pos \in SizeT
             /\ n > 0 => pos < n
             /\ n = 0 => pos \in {0, SizeMax}
<1>1. NewIndex(n, cur, offset, origin) \in Int
  BY IntMaxAssumption DEF NewIndex, Origins, ToInt, AddSize, SizeT, SizeMod
<1> DEFINE new == NewIndex(n, cur, offset, origin)
           clipped == Clip(new, 0, n - 1)
<1>2. /\ n > 0 => clipped \in 0 .. n - 1
      /\ n = 0 => clipped = -1
  BY <1>1 DEF Clip
<1>3. /\ n > 0 => ToSize(clipped) = clipped
      /\ n = 0 => ToSize(clipped) = SizeMax
  BY <1>2, IntMaxAssumption DEF ToSize, SizeMax, SizeMod
<1> HIDE DEF new, clipped
<1>4. SeekItem(n, cur, rep, offset, origin) \in {0, ToSize(clipped)}
  BY DEF SeekItem, clipped, new
<1> QED BY <1>2, <1>3, <1>4, IntMaxAssumption DEF SizeT, SizeMod, SizeMax

(* A list is a sequence of songs no longer than the bound.                 *)
LEMMA ListIsSeq ==
  ASSUME NEW list \in Lists
  PROVE  list \in Seq(Songs) /\ Len(list) \in Nat /\ Len(list) <= MaxLen
<1>1. PICK n \in 0 .. MaxLen : list \in [1 .. n -> Songs]
  BY DEF Lists
<1>2. list \in Seq(Songs) /\ Len(list) = n
  BY <1>1, StoreAssumption
<1> QED BY <1>1, <1>2, StoreAssumption

LEMMA SeqIsList ==
  ASSUME NEW list \in Seq(Songs), Len(list) <= MaxLen
  PROVE  list \in Lists
<1>1. list \in [1 .. Len(list) -> Songs] /\ Len(list) \in 0 .. MaxLen
  BY StoreAssumption
<1> QED BY <1>1 DEF Lists

LEMMA EmptyIsList == << >> \in Lists
<1>1. << >> \in Seq(Songs) /\ Len(<< >>) <= MaxLen
  BY EmptySeq, StoreAssumption
<1> QED BY <1>1, SeqIsList

(* Appending keeps the old entries where they were.                        *)
LEMMA AppendedItems ==
  ASSUME NEW list \in Seq(Songs), NEW new \in Seq(Songs)
  PROVE  /\ InsertItems(list, new, -1) \in Seq(Songs)
         /\ Len(InsertItems(list, new, -1)) = Len(list) + Len(new)
         /\ \A i \in 1 .. Len(list) : InsertItems(list, new, -1)[i] = list[i]
<1>1. InsertPos(Len(list), -1) = Len(list)
  BY DEF InsertPos
<1>2. SubSeq(list, 1, Len(list)) = list
  BY SubSeqFull
<1>3. SubSeq(list, Len(list) + 1, Len(list)) = << >>
  BY SubSeqEmpty
<1>4. InsertItems(list, new, -1) = (list \o new) \o << >>
  BY <1>1, <1>2, <1>3 DEF InsertItems
<1>5. /\ list \o new \in Seq(Songs)
      /\ Len(list \o new) = Len(list) + Len(new)
      /\ \A i \in 1 .. Len(list) + Len(new) :
           (list \o new)[i] = IF i <= Len(list) THEN list[i] ELSE new[i - Len(list)]
  BY ConcatProperties
<1>6. (list \o new) \o << >> = list \o new
  BY <1>5, ConcatEmptySeq
<1> HIDE DEF InsertItems
<1>7. InsertItems(list, new, -1) = list \o new
  BY <1>4, <1>6
<1>8. \A i \in 1 .. Len(list) : (list \o new)[i] = list[i]
  <2>1. Len(list) \in Nat /\ Len(new) \in Nat
    OBVIOUS
  <2> QED BY <1>5, <2>1
<1> QED BY <1>5, <1>7, <1>8, Zenon

LEMMA ReloadProperties ==
  ASSUME NEW list \in Seq(Songs)
  PROVE  /\ Reload(list) \in Seq(Songs)
         /\ Len(Reload(list)) = Len(list)
         /\ \A i \in 1 .. Len(list) : Reload(list)[i] = Reloaded(list[i])
<1>1. DOMAIN list = 1 .. Len(list) /\ Len(list) \in Nat
  OBVIOUS
<1>2. \A i \in 1 .. Len(list) : Reloaded(list[i]) \in Songs
  BY StoreAssumption DEF Reloaded
<1>3. Reload(list) = [i \in 1 .. Len(list) |-> Reloaded(list[i])]
  BY <1>1 DEF Reload
<1> QED BY <1>1, <1>2, <1>3

(* What was cut off while saving is cut off in the reloaded list too.      *)
LEMMA CutReload ==
  ASSUME NEW list \in Seq(Songs), NEW k \in 0 .. Len(list)
  PROVE  /\ SubSeq(list, 1, k) \in Seq(Songs)
         /\ Len(SubSeq(list, 1, k)) = k
         /\ Reload(SubSeq(list, 1, k)) = SubSeq(Reload(list), 1, k)
<1> DEFINE cut == SubSeq(list, 1, k)
<1>1. /\ cut \in Seq(Songs)
      /\ Len(cut) = k
      /\ \A i \in 1 .. k : cut[i] = list[i]
  BY SubSeqProperties
<1>2. /\ Reload(list) \in Seq(Songs)
      /\ Len(Reload(list)) = Len(list)
      /\ \A i \in 1 .. Len(list) : Reload(list)[i] = Reloaded(list[i])
  BY ReloadProperties
<1>3. /\ SubSeq(Reload(list), 1, k) \in Seq(Songs)
      /\ Len(SubSeq(Reload(list), 1, k)) = k
      /\ \A i \in 1 .. k : SubSeq(Reload(list), 1, k)[i] = Reload(list)[i]
  BY <1>2, SubSeqProperties
<1> HIDE DEF cut
<1>4. /\ Reload(cut) \in Seq(Songs)
      /\ Len(Reload(cut)) = k
      /\ \A i \in 1 .. k : Reload(cut)[i] = Reloaded(cut[i])
  BY <1>1, ReloadProperties
<1>5. Reload(cut) = SubSeq(Reload(list), 1, k)
  BY <1>1, <1>2, <1>3, <1>4, SeqEqual
<1> QED BY <1>1, <1>5 DEF cut

LEMMA ReloadTwice ==
  ASSUME NEW list \in Seq(Songs)
  PROVE  Reload(Reload(list)) = Reload(list)
<1>1. \A s \in Songs : Reloaded(Reloaded(s)) = Reloaded(s)
  BY StoreAssumption DEF Reloaded
<1>2. /\ Reload(list) \in Seq(Songs)
      /\ Len(Reload(list)) = Len(list)
      /\ \A i \in 1 .. Len(list) : Reload(list)[i] = Reloaded(list[i])
  BY ReloadProperties
<1>3. /\ Reload(Reload(list)) \in Seq(Songs)
      /\ Len(Reload(Reload(list))) = Len(list)
      /\ \A i \in 1 .. Len(list) : Reload(Reload(list))[i] = Reloaded(Reload(list)[i])
  BY <1>2, ReloadProperties
<1>4. \A i \in 1 .. Len(list) : list[i] \in Songs
  BY ElementOfSeq
<1> QED BY <1>1, <1>2, <1>3, <1>4, SeqEqual

-----------------------------------------------------------------------------
(* The inductive invariant is the conjunction of the three invariants: the *)
(* position on disk is only as good as the list it was saved with, and the *)
(* position after a start is only as good as the one on disk.              *)
Inv == TypeOK /\ PositionInv /\ SavedInv

DiskOK == disk \in [named : BOOLEAN, items : Lists, position : SizeT]

(* A save of the list in memory, finished or cut short, leaves a file that *)
(* satisfies the invariant.                                                *)
LEMMA SaveKeepsInv ==
  ASSUME NEW list \in Lists, NEW position \in SizeT,
         GoodPosition(list, position),
         items' = list, Save(list, position)
  PROVE  /\ DiskOK'
         /\ GoodPosition(disk'.items, disk'.position)
         /\ SavedInv'
         /\ up' \in BOOLEAN
<1>1. list \in Seq(Songs) /\ Len(list) <= MaxLen /\ Len(list) \in Nat
  BY ListIsSeq
<1>2. 0 \in SizeT
  BY IntMaxAssumption DEF SizeT, SizeMod
<1>3. SubSeq(Reload(list), 1, Len(list)) = Reload(list)
  BY <1>1, ReloadProperties, SubSeqFull
<1>4. CASE disk' = File(TRUE, list, position) /\ up' = TRUE
  BY <1>1, <1>3, <1>4 DEF File, DiskOK, SavedInv, GoodPosition, HasItem
<1>5. CASE disk' = NoFile /\ up' = FALSE
  <2>1. << >> \in Lists
    BY EmptyIsList
  <2> QED
    BY <1>2, <1>5, <2>1 DEF NoFile, File, DiskOK, SavedInv, GoodPosition, HasItem
<1>6. ASSUME NEW k \in 0 .. Len(list),
             disk' = File(TRUE, SubSeq(list, 1, k), 0), up' = FALSE
      PROVE  /\ DiskOK'
             /\ GoodPosition(disk'.items, disk'.position)
             /\ SavedInv'
             /\ up' \in BOOLEAN
  <2> DEFINE cut == SubSeq(list, 1, k)
  <2>1. /\ cut \in Seq(Songs)
        /\ Len(cut) = k
        /\ Reload(cut) = SubSeq(Reload(list), 1, k)
    BY <1>1, CutReload
  <2>2. cut \in Lists
    <3>1. Len(cut) <= MaxLen
      BY <1>1, <2>1, StoreAssumption
    <3> QED BY <2>1, <3>1, SeqIsList
  <2> HIDE DEF cut
  <2>3. /\ disk'.named = TRUE /\ disk'.items = cut /\ disk'.position = 0
        /\ DiskOK'
    BY <1>2, <1>6, <2>2 DEF cut, File, DiskOK
  <2>4. GoodPosition(cut, 0)
    BY <2>1, EmptySeq DEF GoodPosition, HasItem
  <2>5. SavedInv'
    <3>1. Len(disk'.items) <= Len(items')
      <4>1. k <= Len(list)
        BY <1>1
      <4> QED BY <2>1, <2>3, <4>1, Zenon
    <3>2. Reload(disk'.items) = SubSeq(Reload(items'), 1, Len(disk'.items))
      BY <2>1, <2>3, Zenon
    <3> QED BY <1>6, <3>1, <3>2, Zenon DEF SavedInv
  <2> QED
    BY <1>6, <2>3, <2>4, <2>5
<1> QED BY <1>4, <1>5, <1>6 DEF Save, CutFiles

(* A seek keeps the invariant, wherever it is asked to go.                 *)
LEMMA SeekKeepsInv ==
  ASSUME Inv, NEW offset \in Int, NEW origin \in Origins,
         Seek(offset, origin), replaced' \subseteq Threads
  PROVE  Inv'
<1>1. items \in Seq(Songs) /\ Len(items) \in Nat /\ Len(items) <= IntMax
  BY ListIsSeq, StoreAssumption, IntMaxAssumption DEF Inv, TypeOK
<1>2. /\ currentItem' \in SizeT
      /\ Len(items) > 0 => currentItem' < Len(items)
      /\ Len(items) = 0 => currentItem' \in {0, SizeMax}
  BY <1>1, SeekItemRange DEF Seek, Inv, TypeOK
<1>3. Len(items) = 0 => items = << >>
  BY <1>1, EmptySeq
<1>4. GoodPosition(items, currentItem')
  BY <1>1, <1>2, <1>3 DEF GoodPosition, HasItem
<1> QED
  BY <1>2, <1>4 DEF Seek, Inv, TypeOK, PositionInv, SavedInv

LEMMA InitInv == Init => Inv
<1> SUFFICES ASSUME Init PROVE Inv
  OBVIOUS
<1>1. << >> \in Lists
  BY EmptyIsList
<1>2. 0 \in SizeT
  BY IntMaxAssumption DEF SizeT, SizeMod
<1> QED
  BY <1>1, <1>2
     DEF Init, Inv, TypeOK, PositionInv, SavedInv, GoodPosition, NoFile, File

LEMMA SetGroupInv ==
  ASSUME Inv, NEW t \in Threads, NEW new \in Lists \ {<< >>}, SetGroup(t, new)
  PROVE  Inv'
<1>1. 0 \in SizeT
  BY IntMaxAssumption DEF SizeT, SizeMod
<1>2. GoodPosition(new, 0)
  BY ListIsSeq, EmptySeq DEF GoodPosition, HasItem
<1>3. DiskOK' /\ GoodPosition(disk'.items, disk'.position) /\ SavedInv' /\ up' \in BOOLEAN
  BY <1>1, <1>2, SaveKeepsInv DEF SetGroup
<1> QED
  BY <1>1, <1>2, <1>3 DEF SetGroup, Inv, TypeOK, PositionInv, DiskOK

LEMMA AddToGroupInv ==
  ASSUME Inv, NEW t \in Threads, NEW new \in Lists, AddToGroup(t, new, -1)
  PROVE  Inv'
<1>1. items \in Seq(Songs) /\ new \in Seq(Songs)
  BY ListIsSeq DEF Inv, TypeOK
<1>2. /\ items' \in Seq(Songs)
      /\ Len(items') = Len(items) + Len(new)
  BY <1>1, AppendedItems DEF AddToGroup
<1>3. items' \in Lists
  BY <1>2, SeqIsList DEF AddToGroup
<1>4. GoodPosition(items', currentItem)
  <2>1. CASE HasItem(items, currentItem) \/ currentItem = SizeMax
    BY <1>1, <1>2, <2>1 DEF GoodPosition, HasItem, Inv, TypeOK, SizeT
  <2>2. CASE items = << >> /\ currentItem = 0
    BY <1>2, <2>2, EmptySeq DEF GoodPosition, HasItem
  <2> QED BY <2>1, <2>2 DEF Inv, PositionInv, GoodPosition
<1>5. DiskOK' /\ GoodPosition(disk'.items, disk'.position) /\ SavedInv' /\ up' \in BOOLEAN
  BY <1>3, <1>4, SaveKeepsInv DEF AddToGroup, Inv, TypeOK
<1> QED
  BY <1>3, <1>4, <1>5 DEF AddToGroup, Inv, TypeOK, PositionInv, DiskOK

LEMMA StartInv ==
  ASSUME Inv, Start
  PROVE  Inv'
<1>1. 0 \in SizeT
  BY IntMaxAssumption DEF SizeT, SizeMod
<1>2. CASE disk.named
  <2>1. disk.items \in Seq(Songs) /\ Len(disk.items) <= MaxLen
    BY ListIsSeq DEF Inv, TypeOK
  <2>2. /\ items' = Reload(disk.items)
        /\ currentItem' = ToSize(ToInt(disk.position))
        /\ disk' = disk /\ up' = TRUE
        /\ repeat' = FALSE /\ replaced' = {}
    BY <1>2 DEF Start, LoadOrDefault
  <2>3. currentItem' = disk.position /\ disk.position \in SizeT
    BY <2>2, IntMaxAssumption DEF ToSize, ToInt, SizeT, SizeMod, Inv, TypeOK
  <2>4. /\ items' \in Seq(Songs)
        /\ Len(items') = Len(disk.items)
        /\ Reload(items') = Reload(disk.items)
    BY <2>1, <2>2, ReloadProperties, ReloadTwice
  <2>5. items' \in Lists
    BY <2>1, <2>4, SeqIsList
  <2>6. disk.items = << >> => items' = << >>
    BY <2>1, <2>4, EmptySeq
  <2>7. GoodPosition(items', currentItem')
    BY <2>3, <2>4, <2>6 DEF GoodPosition, HasItem, Inv, PositionInv
  <2>8. SubSeq(Reload(items'), 1, Len(items')) = Reload(items')
    BY <2>4, ReloadProperties, SubSeqFull
  <2>9. SavedInv'
    BY <1>2, <2>2, <2>4, <2>8 DEF SavedInv
  <2> QED
    BY <2>2, <2>3, <2>5, <2>7, <2>9 DEF Inv, TypeOK, PositionInv
<1>3. CASE ~disk.named
  <2>1. /\ items' = DefaultList /\ currentItem' = 0
        /\ repeat' = FALSE /\ replaced' = {}
        /\ Save(DefaultList, 0)
    BY <1>3 DEF Start, LoadOrDefault
  <2>2. DefaultList \in Lists
    BY SeqIsList, StoreAssumption
  <2>3. GoodPosition(DefaultList, 0)
    BY StoreAssumption, EmptySeq DEF GoodPosition, HasItem
  <2>4. DiskOK' /\ GoodPosition(disk'.items, disk'.position) /\ SavedInv' /\ up' \in BOOLEAN
    BY <1>1, <2>1, <2>2, <2>3, SaveKeepsInv
  <2> QED
    BY <1>1, <2>1, <2>2, <2>3, <2>4 DEF Inv, TypeOK, PositionInv, DiskOK
<1> QED BY <1>2, <1>3

LEMMA NextInv == Inv /\ [Next]_vars => Inv'
<1> SUFFICES ASSUME Inv, [Next]_vars PROVE Inv'
  OBVIOUS
<1>1. ASSUME NEW t \in Threads, NEW new \in Lists \ {<< >>}, SetGroup(t, new)
      PROVE  Inv'
  BY <1>1, SetGroupInv
<1>2. ASSUME NEW t \in Threads, NEW new \in Lists, AddToGroup(t, new, -1)
      PROVE  Inv'
  BY <1>2, AddToGroupInv
<1>3. ASSUME NEW t \in Threads, SeekFirst(t)
      PROVE  Inv'
  <2>1. Seek(0, "SEEK_SET") /\ replaced' \subseteq Threads
    BY <1>3 DEF SeekFirst, Inv, TypeOK
  <2> QED BY <2>1, SeekKeepsInv DEF Origins
<1>4. ASSUME NEW t \in Threads, NEW offset \in Int, NEW origin \in Origins,
             SeekList(t, offset, origin)
      PROVE  Inv'
  <2>1. Seek(offset, origin) /\ replaced' \subseteq Threads
    BY <1>4 DEF SeekList, Inv, TypeOK
  <2> QED BY <2>1, SeekKeepsInv
<1>5. CASE AnySeek
  <2>1. Asked \subseteq Int
    BY StoreAssumption, IntMaxAssumption
  <2> QED BY <1>3, <1>4, <1>5, <2>1 DEF AnySeek, Origins
<1>6. ASSUME NEW t \in Threads, SetRepeat(t)
      PROVE  Inv'
  BY <1>6 DEF SetRepeat, Inv, TypeOK, PositionInv, SavedInv
<1>7. CASE Stop
  BY <1>7 DEF Stop, Inv, TypeOK, PositionInv, SavedInv
<1>8. CASE Start
  BY <1>8, StartInv
<1>9. CASE UNCHANGED vars
  BY <1>9 DEF vars, Inv, TypeOK, PositionInv, SavedInv
<1> QED
  BY <1>1, <1>2, <1>5, <1>6, <1>7, <1>8, <1>9 DEF Next

LEMMA Invariant == Spec => []Inv
BY InitInv, NextInv, PTL DEF Spec

(* The list, its position and its file always have their types.            *)
THEOREM TypeCorrect == Spec => []TypeOK
<1>1. Inv => TypeOK
  BY DEF Inv
<1> QED BY <1>1, Invariant, PTL

(* However the two threads, stops and restarts interleave, the position    *)
(* names an entry of the list, or the list was empty when it was set.      *)
THEOREM PositionSafe == Spec => []PositionInv
<1>1. Inv => PositionInv
  BY DEF Inv
<1> QED BY <1>1, Invariant, PTL

(* The file always holds the list the program plays from, or, after a stop *)
(* while saving, a beginning of it.                                        *)
THEOREM ListSaved == Spec => []SavedInv
<1>1. Inv => SavedInv
  BY DEF Inv
<1> QED BY <1>1, Invariant, PTL

(* Adding to the list does not change the song at its position: the songs  *)
(* come behind it, and the position stays (slimIPC::addToGroup).           *)
LEMMA AdditionKeepsSong ==
  ASSUME Inv, NEW t \in Threads, NEW new \in Lists, AddToGroup(t, new, -1),
         HasItem(items, currentItem)
  PROVE  /\ HasItem(items', currentItem')
         /\ items'[currentItem' + 1] = items[currentItem + 1]
<1>1. /\ items \in Seq(Songs) /\ new \in Seq(Songs) /\ Len(items) \in Nat /\ Len(new) \in Nat
      /\ currentItem \in Nat
  BY ListIsSeq, IntMaxAssumption DEF Inv, TypeOK, SizeT, SizeMod
<1>2. /\ currentItem' = currentItem
      /\ Len(items') = Len(items) + Len(new)
      /\ \A i \in 1 .. Len(items) : items'[i] = items[i]
  BY <1>1, AppendedItems DEF AddToGroup
<1>3. currentItem + 1 \in 1 .. Len(items)
  BY <1>1 DEF HasItem
<1> QED BY <1>1, <1>2, <1>3 DEF HasItem

(* The song that plays stays the current one whatever is added to the      *)
(* list, by either thread and between any other operations.                *)
THEOREM SongKept == Spec => CurrentSongKept
<1> DEFINE Kept == up /\ up' /\ replaced' = replaced /\ items' # items
                     /\ HasItem(items, currentItem)
                   => /\ HasItem(items', currentItem')
                      /\ items'[currentItem' + 1] = items[currentItem + 1]
<1>1. Inv /\ [Next]_vars => [Kept]_vars
  <2> SUFFICES ASSUME Inv, Next, up, up', replaced' = replaced, items' # items,
                      HasItem(items, currentItem)
               PROVE  /\ HasItem(items', currentItem')
                      /\ items'[currentItem' + 1] = items[currentItem + 1]
    OBVIOUS
  <2>1. ASSUME NEW t \in Threads, NEW new \in Lists, SetGroup(t, new) PROVE FALSE
    BY <2>1 DEF SetGroup
  <2>2. ASSUME NEW t \in Threads, SetRepeat(t) PROVE FALSE
    BY <2>2 DEF SetRepeat
  <2>3. ~ AnySeek
    BY DEF AnySeek, SeekFirst, SeekList, Seek
  <2>4. ~ Stop /\ ~ Start
    BY DEF Stop, Start
  <2>5. PICK t \in Threads, new \in Lists : AddToGroup(t, new, -1)
    BY <2>1, <2>2, <2>3, <2>4 DEF Next
  <2> QED BY <2>5, AdditionKeepsSong
<1> QED BY <1>1, Invariant, PTL DEF Spec, CurrentSongKept

(* Wherever the position was, and whatever is asked for, a seek in a list  *)
(* that has entries ends on one of them (slimIPC::seekList).               *)
THEOREM SeeksRepair == Spec => SeekRepairs
<1>1. Inv /\ [Next]_vars => [AnySeek /\ items # << >> => HasItem(items', currentItem')]_vars
  <2> SUFFICES ASSUME Inv, AnySeek, items # << >> PROVE HasItem(items', currentItem')
    OBVIOUS
  <2>1. Asked \subseteq Int
    BY StoreAssumption, IntMaxAssumption
  <2>2. PICK offset \in Int, origin \in Origins : Seek(offset, origin)
    BY <2>1 DEF AnySeek, SeekFirst, SeekList, Origins
  <2>3. items \in Seq(Songs) /\ Len(items) \in Nat /\ Len(items) <= IntMax /\ Len(items) # 0
    BY ListIsSeq, EmptySeq, StoreAssumption, IntMaxAssumption DEF Inv, TypeOK
  <2>4. currentItem' < Len(items) /\ items' = items
    BY <2>2, <2>3, SeekItemRange DEF Seek, Inv, TypeOK
  <2> QED BY <2>4 DEF HasItem
<1> QED BY <1>1, Invariant, PTL DEF Spec, SeekRepairs
===========================================================================
