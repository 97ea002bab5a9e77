----------------------------- MODULE MCRemote -----------------------------
(***************************************************************************)
(* TLC instance of Remote: the menus shortened to one item of each kind, a *)
(* directory with an empty one in it, volumes from 0 to 4.  In a behaviour *)
(* the keys that browse, that search, that deal with lists or that change  *)
(* settings are pressed, each with some of the others.                     *)
(***************************************************************************)
EXTENDS Remote, TLC

MCMenu == [main |-> <<"playing", "folder", "searchMenu">>,
           searchMenu |-> <<"search">>, favorites |-> <<"radio">>]
MCEntries == [music |-> <<"song", "dir">>, dir |-> <<>>]
MCPageVolumes == {-1, 1, 5, 9}  \* player.html asks for 10 less, or more

MCKeySets ==
  {{"up", "down", "left", "right", "browse", "vol-"},
   {"up", "down", "left", "right", "digit", "search", "add"},
   {"up", "down", "left", "playing", "favorites", "play", "seek", "list"},
   {"power", "brightness", "playing", "pause", "play", "seek", "vol+", "vol-", "page"}}
=============================================================================
