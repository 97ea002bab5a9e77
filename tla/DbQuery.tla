------------------------------ MODULE DbQuery ------------------------------
(***************************************************************************)
(* Searches in the music database (musicDB.cpp): the comparison of fields, *)
(* the binary searches, the groups of equal fields, and the songs that a   *)
(* group adds to a play list (slimIPC.cpp, makeEntries).                   *)
(*                                                                         *)
(* A string is a sequence of characters, a character a number; 10 + c is   *)
(* the capital of c.  The entries are a sequence of records, and a table   *)
(* is a sequence of their numbers, which count from 0.                     *)
(***************************************************************************)
EXTENDS Integers, Sequences, SequencesExt

Lower(s) == [i \in DOMAIN s |-> s[i] % 10]

Cut(s, len) == SubSeq(s, 1, IF len < Len(s) THEN len ELSE Len(s))

(* strncasecmp(a, b, len) < 0 *)
LessWhole(a, b, len) ==   \* mutant: compares past the length
  LET x == Lower(a)  y == Lower(b)
  IN  \E k \in 1 .. Len(y) :
        /\ \A i \in 1 .. k - 1 : i <= Len(x) /\ x[i] = y[i]
        /\ k <= Len(x) => x[k] < y[k]

Less(a, b, len) ==
  LET x == Lower(Cut(a, len))  y == Lower(Cut(b, len))
  IN  \E k \in 1 .. Len(y) :
        /\ \A i \in 1 .. k - 1 : i <= Len(x) /\ x[i] = y[i]
        /\ k <= Len(x) => x[k] < y[k]

(* The database's operator[]: what is no entry is an empty one. *)
Field(entries, i, field) ==
  IF i < Len(entries) THEN entries[i + 1][field] ELSE <<>>

(* binSearchLowerIt and binSearchUpperIt: where the positions of lo .. hi   *)
(* that are before what is looked for end.  A step looks at the middle of  *)
(* the `count` positions that follow `first`.                              *)
BinSearch(before, lo, hi) ==
  LET search[r \in {r \in (lo .. hi) \X (0 .. hi - lo) : r[1] + r[2] <= hi}] ==
        LET first == r[1]  count == r[2]  half == count \div 2
        IN  IF count = 0 THEN first
            ELSE IF first + half + 1 \in before
                 THEN search[<<first + half + 1, count - half - 1>>]
                 ELSE search[<<first, half>>]
  IN  search[<<lo, hi - lo>>]

(* The positions of a table whose field is below the match, and those whose *)
(* field is not above it, as far as the match is long.                     *)
Below(entries, table, field, match) ==
  {k \in DOMAIN table : Less(Field(entries, table[k], field), match, Len(match))}
NotAbove(entries, table, field, match) ==
  {k \in DOMAIN table : ~ Less(match, Field(entries, table[k], field), Len(match))}

(* dbQuery::find: the part of the range whose field begins with the match. *)
Find(entries, table, range, field, match) ==
  LET first == BinSearch(Below(entries, table, field, match), range[1], range[2])
  IN  IF match = <<>> THEN range
      ELSE <<first, BinSearch(NotAbove(entries, table, field, match), first, range[2])>>

Found(table, range) == SubSeq(table, range[1] + 1, range[2])

(* The groups of a result that share a field, each with its first entry.   *)
(* The loop starts with the entry the first group was made from, and so    *)
(* counts it twice, which "number of objects per index" (musicDB.hpp:242)  *)
(* does not say: the search screen shows a match too many.                 *)
Unique(entries, found, field) ==
  LET groups[k \in 0 .. Len(found)] ==
        IF k = 0 THEN <<[idx |-> Head(found), count |-> 1]>>
        ELSE LET gs == groups[k - 1]
             IN  IF Field(entries, found[k], field) = Field(entries, Last(gs).idx, field)
                 THEN [gs EXCEPT ![Len(gs)].count = @ + 1]
                 ELSE Append(gs, [idx |-> found[k], count |-> 1])
  IN  IF found = <<>> THEN <<>> ELSE groups[Len(found)]

(* The constructor of a new query: the range in the field's table. *)
Query(entries, tables, field, match) ==
  LET range == Find(entries, tables[field], <<0, Len(tables[field])>>, field, match)
  IN  [field |-> field, match |-> match, range |-> range,
       unique |-> Unique(entries, Found(tables[field], range), field)]

(* uIndex: the entry of group u, and the first of the database if there is *)
(* no such group.                                                          *)
UIndexFromOne(query, u) == IF u \in 1 .. Len(query.unique) THEN query.unique[u].idx ELSE 0

UIndex(query, u) == IF u < Len(query.unique) THEN query.unique[u + 1].idx ELSE 0

(* makeEntries: the results are searched again for the field of the group, *)
(* as a prefix.                                                            *)
MakeEntries(entries, tables, query, u) ==
  LET f == query.field
  IN  Found(tables[f], Find(entries, tables[f], query.range, f,
                            Field(entries, UIndex(query, u), f)))
=============================================================================
