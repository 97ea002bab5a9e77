------------------------------ MODULE MusicDB ------------------------------
(***************************************************************************)
(* The music database (musicDB.cpp): a file with the entries that a scan   *)
(* of the music found, and a file with its index, both read by every start *)
(* and made again when they do not fit.  The process may be killed while   *)
(* it writes either, the music and its path may change, and either file    *)
(* may be deleted, which is how a new scan is asked for.                   *)
(*                                                                         *)
(* The index file is a sequence of words: the number of entries, their     *)
(* offsets in the other file, and the sorted tables one after the other.   *)
(***************************************************************************)
EXTENDS DbQuery, Functions

CONSTANTS
  Libraries,    \* what a scan may find: sequences of entries
  Paths,        \* configured paths of the music, with their lengths
  Fields,       \* the sorted fields, in the order of their tables
  Matches,      \* what is searched for
  MaxOps        \* bound: changes of the environment, and kills

(* A string is shorter than INT_MAX, the length up to which sort compares. *)
IntMax == 2147483647
Strings == {s \in Seq(Nat) : Len(s) < IntMax}

(* pickle: two bytes of length, and each string with its zero.  An entry   *)
(* begins where those before it end, after the header and the path.        *)
RecordLength(e) == 2 + FoldLeft(LAMBDA sum, f : sum + Len(e[f]) + 1, 0, Fields)
Offset(p, es, i) ==
  FoldLeft(LAMBDA sum, e : sum + RecordLength(e), 4 + p + 1, SubSeq(es, 1, i - 1))
Offsets(p, es) == [i \in 1 .. Len(es) |-> Offset(p, es, i)]

(* What the file can hold: a path and its zero in dbPath[200], the length  *)
(* of a record in a uint16_t, and an offset in a uint32_t and in what      *)
(* ftell returns.  Nothing in the code sees to it.  A longer record is     *)
(* written with its length modulo 2^16 and read back in parts, and all     *)
(* that follow begin elsewhere: of such music nothing is claimed.          *)
PathMax   == 200
RecordMax == 65535
OffsetMax == IntMax

ASSUME MusicDBAssumption ==
  /\ MaxOps \in Nat
  /\ Paths \in SUBSET Nat /\ \A p \in Paths : p < PathMax
  /\ Fields \in Seq(STRING)
  /\ Libraries \subseteq Seq([Range(Fields) -> Strings])
  /\ \A lib \in Libraries :
       /\ \A i \in DOMAIN lib : RecordLength(lib[i]) <= 2 + RecordMax
       /\ \A p \in Paths : Offset(p, lib, Len(lib) + 1) <= OffsetMax
  /\ Matches \subseteq Strings

NoFile == [none |-> TRUE]

VARIABLES
  library, path,   \* the music, and the configured path
  dbFile,          \* [path, entries, torn]: torn if a part of an entry follows
  idxFile,         \* a sequence of words; <<>> is also no file
  pc,              \* where init() is, or "ready"; "off" and "trap"
  entries,         \* offset[]: the entries that can be read
  tables,          \* idx[]: per field
  query, added,    \* the last query, and the last songs of one of its groups
  scanned, killed, \* history: what the last scan found; a kill
  ops

vars == <<library, path, dbFile, idxFile, pc, entries, tables, query, added,
          scanned, killed, ops>>
disk == <<dbFile, idxFile>>
memory == <<entries, tables, query, added>>
world == <<library, path, ops>>

FieldSet == Range(Fields)
NoTables == [f \in FieldSet |-> <<>>]
NoQuery == [field |-> Fields[1], match |-> <<>>, range |-> <<0, 0>>, unique |-> <<>>]

-----------------------------------------------------------------------------
(* load: the entries of the file, which are those that were written, as    *)
(* each fits the length before it.  The one that ends with the file, which *)
(* was not written in full, or is nothing, is taken off again.             *)
LoadEntriesTorn(file) ==   \* mutant: no pop_back
  IF file.torn THEN Append(file.entries, [f \in FieldSet |-> <<>>])
  ELSE file.entries

LoadEntries(file) == file.entries

LoadsDb == dbFile # NoFile /\ dbFile.path = path

(* The words of the index file; a read behind its end leaves what was.     *)
WordOr(k, old) == IF k <= Len(idxFile) THEN idxFile[k] ELSE old

CountUnchecked(n) == Len(idxFile) >= 1   \* mutant: any number of entries

CountFits(n) == Len(idxFile) >= 1 /\ idxFile[1] = n

(* The offsets agree.  `off` is not initialized before the first read, and *)
(* keeps the offset before when there is no more to read: `junk` is its    *)
(* first value.                                                            *)
OffsetsFit(offs, junk) ==
  \A i \in DOMAIN offs :
    offs[i] = WordOr(i + 1, IF i = 1 \/ Len(idxFile) < 2 THEN junk ELSE Last(idxFile))

(* resize() fills a table with zeros, and the reads replace them.          *)
TableWords(n) ==
  [f \in FieldSet |->
     LET t == CHOOSE t \in DOMAIN Fields : Fields[t] = f
     IN  [i \in 1 .. n |-> WordOr(1 + t * n + i, 0)]]

(* init: load().  Without a database the next is a scan, without an index  *)
(* that fits it is index().  When the offsets differ the file is closed    *)
(* twice, which the process may not survive.                               *)
LoadFails ==
  /\ ~ LoadsDb
  /\ pc' = "scan"
  /\ entries' = <<>> /\ tables' = NoTables

LoadWithoutIndex ==
  /\ LoadsDb
  /\ entries' = LoadEntries(dbFile) /\ tables' = NoTables
  /\ ~ CountFits(Len(entries'))
  /\ pc' = "index"

LoadDiffers ==
  /\ LoadsDb
  /\ entries' = LoadEntries(dbFile) /\ tables' = NoTables
  /\ CountFits(Len(entries'))
  /\ ~ OffsetsFit(Offsets(path, entries'), 0)
  /\ pc' \in {"index", "trap"}

LoadIndexed ==
  /\ LoadsDb
  /\ entries' = LoadEntries(dbFile)
  /\ CountFits(Len(entries'))
  /\ LET offs == Offsets(path, entries')
     IN  \E junk \in {0} \cup ToSet(offs) : OffsetsFit(offs, junk)
  /\ tables' = TableWords(Len(entries'))
  /\ pc' = "ready"

Start ==
  /\ pc = "off"
  /\ LoadFails \/ LoadWithoutIndex \/ LoadDiffers \/ LoadIndexed
  /\ query' = NoQuery /\ added' = <<>>
  /\ UNCHANGED <<world, disk, scanned, killed>>

(* scan: everything that is found is written to a new file. *)
Scan ==
  /\ pc = "scan"
  /\ dbFile' = [path |-> path, entries |-> library, torn |-> FALSE]
  /\ entries' = library
  /\ scanned' = library
  /\ pc' = "index"
  /\ UNCHANGED <<world, idxFile, tables, query, added, killed>>

(* std::sort by a field: any order that agrees with the comparison. *)
Sorted(es, table, f) ==
  \A i, j \in DOMAIN table : i < j =>
    ~ Less(Field(es, table[j], f), Field(es, table[i], f), IntMax)
SortedTables(es, f) ==
  {t \in [1 .. Len(es) -> 0 .. Len(es) - 1] : IsInjective(t) /\ Sorted(es, t, f)}

(* One sorted table for each field.                                        *)
Indexes(es) ==
  {ts \in [FieldSet -> UNION {SortedTables(es, f) : f \in FieldSet}] :
     \A f \in FieldSet : ts[f] \in SortedTables(es, f)}

(* The words that are written: the number of entries, their offsets, and   *)
(* the tables one after the other, each of as many words.                  *)
IndexWordsSwapped(p, es, ts) ==   \* mutant: the tables in another order
  LET n == Len(es)
  IN  <<n>> \o Offsets(p, es) \o
        [k \in 1 .. n * Len(Fields) |->
           ts[Fields[Len(Fields) - ((k - 1) \div n)]][((k - 1) % n) + 1]]

IndexWords(p, es, ts) ==
  LET n == Len(es)
  IN  <<n>> \o Offsets(p, es) \o
        [k \in 1 .. n * Len(Fields) |-> ts[Fields[((k - 1) \div n) + 1]][((k - 1) % n) + 1]]

(* index: sort the entries by each field and write the tables. *)
Index ==
  /\ pc = "index"
  /\ tables' \in Indexes(entries)
  /\ idxFile' = IndexWords(path, entries, tables')
  /\ pc' = "ready"
  /\ UNCHANGED <<world, dbFile, entries, query, added, scanned, killed>>

-----------------------------------------------------------------------------
(* A search, and the songs that one of its groups adds to the play list. *)
Search ==
  /\ pc = "ready"
  /\ \E f \in FieldSet, m \in Matches : query' = Query(entries, tables, f, m)
  /\ added' = <<>>
  /\ UNCHANGED <<world, disk, pc, entries, tables, scanned, killed>>

AddGroup ==
  /\ pc = "ready"
  /\ \E u \in 0 .. Len(query.unique) - 1 :
       added' = <<u>> \o MakeEntries(entries, tables, query, u)
  /\ UNCHANGED <<world, disk, pc, entries, tables, query, scanned, killed>>

-----------------------------------------------------------------------------
(* The process ends, or is killed while it scans or writes the index: the  *)
(* file then holds any beginning of what was written.                      *)
Off == pc' = "off" /\ entries' = <<>> /\ tables' = NoTables /\ query' = NoQuery /\ added' = <<>>

Exit == pc \in {"ready", "trap"} /\ Off /\ UNCHANGED <<world, disk, scanned, killed>>

KilledInScan ==
  /\ pc = "scan" /\ Off
  /\ \/ dbFile' = [path |-> -1, entries |-> <<>>, torn |-> TRUE]
     \/ \E n \in 0 .. Len(library) :
          \E torn \in IF n < Len(library) THEN BOOLEAN ELSE {FALSE} :
            dbFile' = [path |-> path, entries |-> SubSeq(library, 1, n), torn |-> torn]
  /\ scanned' = library /\ UNCHANGED idxFile

KilledInIndex ==
  /\ pc = "index" /\ Off
  /\ \/ UNCHANGED idxFile
     \/ \E ts \in Indexes(entries) :
        \E n \in 0 .. Len(IndexWords(path, entries, ts)) :
          idxFile' = SubSeq(IndexWords(path, entries, ts), 1, n)
  /\ UNCHANGED <<dbFile, scanned>>

Kill ==
  /\ ops < MaxOps /\ ops' = ops + 1
  /\ KilledInScan \/ KilledInIndex
  /\ killed' = TRUE
  /\ UNCHANGED <<library, path>>

(* While the program is off: other music, another path, a file deleted. *)
Changes ==
  /\ pc = "off" /\ ops < MaxOps /\ ops' = ops + 1
  /\ \/ library' \in Libraries \ {library} /\ UNCHANGED <<path, disk>>
     \/ path' \in Paths \ {path} /\ UNCHANGED <<library, disk>>
     \/ dbFile' = NoFile /\ UNCHANGED <<library, path, idxFile>>
     \/ idxFile' = <<>> /\ UNCHANGED <<library, path, dbFile>>
  /\ UNCHANGED <<pc, memory, scanned, killed>>

Init ==
  /\ library \in Libraries /\ path \in Paths
  /\ dbFile = NoFile /\ idxFile = <<>>
  /\ pc = "off"
  /\ entries = <<>> /\ tables = NoTables /\ query = NoQuery /\ added = <<>>
  /\ scanned = <<>> /\ killed = FALSE /\ ops = 0

Next == Start \/ Scan \/ Index \/ Search \/ AddGroup \/ Exit \/ Kill \/ Changes

Spec == Init /\ [][Next]_vars

-----------------------------------------------------------------------------
(* Every number in a table is that of an entry, also when the index file   *)
(* was cut or belongs to another database (load, musicDB.cpp:343-372).     *)
EntriesExist ==
  pc = "ready" =>
    \A f \in FieldSet : /\ Len(tables[f]) = Len(entries)
                        /\ \A i \in DOMAIN tables[f] : tables[f][i] < Len(entries)

(* What is read is what a scan wrote, provided that no record was longer   *)
(* than RecordMax: never a part of an entry, and after a kill the first    *)
(* entries of that scan.                                                   *)
WholeRecords == pc \in {"index", "ready"} => IsPrefix(entries, scanned)

(* As long as the process was not killed while it wrote, and no record was *)
(* longer than RecordMax, the database is all that the last scan found,    *)
(* its tables hold each entry in order, and a file is not closed twice.    *)
CleanIsSorted ==
  ~ killed => /\ pc # "trap"
              /\ pc \in {"index", "ready"} => entries = scanned
              /\ pc = "ready" =>
                   \A f \in FieldSet : tables[f] \in SortedTables(entries, f)

(* In sorted tables a search finds exactly the entries whose field begins  *)
(* with what was typed, in capitals or not.                                *)
FoundAll ==
  LET t == tables[query.field]
  IN  t \in SortedTables(entries, query.field) /\ query # NoQuery =>
        ToSet(Found(t, query.range)) =
          {i \in 0 .. Len(entries) - 1 :
             IsPrefix(Lower(query.match), Lower(Field(entries, i, query.field)))}

(* Whoever adds a group of a search in sorted tables gets every song that  *)
(* was found with that field (makeEntries).                                *)
GroupAdded ==
  LET t == tables[query.field]
      f == query.field
  IN  added # <<>> /\ t \in SortedTables(entries, f) =>
        \A i \in ToSet(Found(t, query.range)) :
          Field(entries, i, f) = Field(entries, query.unique[Head(added) + 1].idx, f)
            => i \in ToSet(Tail(added))
=============================================================================
