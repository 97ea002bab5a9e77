--------------------------- MODULE PlayListOps ---------------------------
(***************************************************************************)
(* The arithmetic of a play list position, as slimIPC::seekList computes   *)
(* it.  `currentItem` is a size_t, the position it is moved to is an int,  *)
(* and the two are compared and converted in both directions, so both      *)
(* types keep their width here: an int lies in -IntMax-1 .. IntMax, a      *)
(* size_t in 0 .. SizeMod-1.  One width serves both types: a list never    *)
(* holds IntMax entries, so the upper half of a 64-bit size_t is only ever *)
(* entered by the conversion of a small negative int.                      *)
(*                                                                         *)
(* Positions count from 0, as in the source; the entry at position i of a  *)
(* TLA+ sequence is s[i+1].                                                *)
(***************************************************************************)
EXTENDS Integers, Sequences

CONSTANT IntMax      \* the largest int

ASSUME IntMaxAssumption == IntMax \in Nat /\ IntMax > 0

SizeMod == 2 * (IntMax + 1)
SizeT   == 0 .. SizeMod - 1

(* The value of a size_t after (size_t)-1: where seekList leaves the       *)
(* position of an empty list.                                              *)
SizeMax == SizeMod - 1

ToSize(i) == IF i < 0 THEN i + SizeMod ELSE i
ToInt(u)  == IF u > IntMax THEN u - SizeMod ELSE u

(* u + i for a size_t u and a small int i, computed modulo SizeMod.        *)
AddSize(u, i) ==
  LET sum == u + i
  IN  IF sum < 0 THEN sum + SizeMod
      ELSE IF sum >= SizeMod THEN sum - SizeMod ELSE sum

(* util::clip<int>: the lower bound first, then the upper one, so that an  *)
(* empty range (hi < lo) yields hi.                                        *)
Clip(x, lo, hi) ==
  LET raised == IF x < lo THEN lo ELSE x
  IN  IF raised > hi THEN hi ELSE raised

Origins == {"SEEK_SET", "SEEK_END", "SEEK_CUR"}

(* The int newIndex a seek asks for in a list of n entries at position cur. *)
NewIndex(n, cur, offset, origin) ==
  CASE origin = "SEEK_SET" -> offset
    [] origin = "SEEK_END" -> ToInt(AddSize(n, -offset))
    [] origin = "SEEK_CUR" -> ToInt(AddSize(cur, offset))

(* isAtEnd before repeat is looked at: the comparison is between size_t's, *)
(* so a negative index also counts as past the end.                        *)
PastEndLate(n, cur, offset, origin) ==      \* mutant: > for >=
  ToSize(NewIndex(n, cur, offset, origin)) > n

PastEnd(n, cur, offset, origin) ==
  ToSize(NewIndex(n, cur, offset, origin)) >= n

(* Whether the seek starts a song (isAtEnd is false when the players are   *)
(* told), and the position it leaves behind.                               *)
SeekPlays(n, cur, repeat, offset, origin) ==
  repeat \/ ~PastEnd(n, cur, offset, origin)

(* Mutants of SeekItem: no conversion back to a size_t, no clip, a clip to *)
(* the length, and a repeated list that stays at its end.                  *)
SeekItemSigned(n, cur, repeat, offset, origin) ==
  Clip(NewIndex(n, cur, offset, origin), 0, n - 1)

SeekItemUnclipped(n, cur, repeat, offset, origin) ==
  ToSize(NewIndex(n, cur, offset, origin))

SeekItemOneOff(n, cur, repeat, offset, origin) ==
  ToSize(Clip(NewIndex(n, cur, offset, origin), 0, n))

SeekItemNoWrap(n, cur, repeat, offset, origin) ==
  ToSize(Clip(NewIndex(n, cur, offset, origin), 0, n - 1))

SeekItem(n, cur, repeat, offset, origin) ==
  IF repeat /\ PastEnd(n, cur, offset, origin)
  THEN 0
  ELSE ToSize(Clip(NewIndex(n, cur, offset, origin), 0, n - 1))

(* playList::get and the guard of slimIPC::getSong look an entry up; this  *)
(* is the question both ask: is there an entry at position cur ?           *)
HasItem(list, cur) == cur < Len(list)

(* The position an insertion with `offset` lands at: the end, unless       *)
(* offset names an existing entry.                                         *)
InsertPosFirst(n, offset) ==                \* mutant: a default of 0
  IF offset >= 0 /\ offset < n THEN offset ELSE 0

InsertPos(n, offset) == IF offset >= 0 /\ offset < n THEN offset ELSE n

InsertItems(list, new, offset) ==
  LET pos == InsertPos(Len(list), offset)
  IN  SubSeq(list, 1, pos) \o new \o SubSeq(list, pos + 1, Len(list))

(* A position the code may hold for a list: an entry of the list, the      *)
(* initial 0 of a list that has none, or SizeMax after a seek in an empty  *)
(* list.                                                                   *)
GoodPosition(list, cur) ==
  \/ HasItem(list, cur)
  \/ list = << >> /\ cur = 0
  \/ cur = SizeMax
===========================================================================
