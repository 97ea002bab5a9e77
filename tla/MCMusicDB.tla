----------------------------- MODULE MCMusicDB -----------------------------
(***************************************************************************)
(* TLC instance of MusicDB: up to three songs whose titles and albums are  *)
(* "", "a", "A", "ab" or "b", and libraries of the same and of different   *)
(* sizes.                                                                  *)
(***************************************************************************)
EXTENDS MusicDB, FiniteSets

Song(t, a) == [title |-> t, album |-> a]
la == <<1>>  lA == <<11>>  ab == <<1, 2>>  lb == <<2>>

MCLibraries ==
  {<<>>,
   <<Song(lb, la)>>,
   <<Song(lb, la), Song(la, lb)>>,
   <<Song(la, lb), Song(lb, la)>>,
   <<Song(ab, la), Song(lA, <<>>), Song(la, ab)>>}
MCFields == <<"title", "album">>
MCMatches == {<<>>, <<1>>, <<1, 2>>, <<2>>, <<3>>}

TypeOK ==
  /\ pc \in {"off", "scan", "index", "ready", "trap"}
  /\ dbFile = NoFile \/ dbFile.path \in Paths \cup {-1}
  /\ idxFile \in Seq(Nat)
  /\ \A f \in FieldSet : query.range[1] <= query.range[2]
  /\ ops \in 0 .. MaxOps
=============================================================================
