------------------------- MODULE MCPlayListStore -------------------------
(* PlayListStore for TLC: a local file, a remote stream, the blank entry,  *)
(* lists of up to two entries, and web seeks from before the first entry   *)
(* to past the last.                                                       *)
EXTENDS PlayListStore

CONSTANTS file, stream

MCSongs   == {file, stream, Blank}
MCFragile == {stream}
MCDefault == <<file>>
MCAsked   == -1 .. 3
===========================================================================
