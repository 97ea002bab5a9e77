------------------------------- MODULE MCWire -------------------------------
(***************************************************************************)
(* Short messages and requests, cut in every way; a buffer of five bytes   *)
(* with headers of two. The templates hold every form of mark: a keyword,  *)
(* an escape, an empty text, a phrase, and a mark without partner.         *)
(***************************************************************************)
EXTENDS Wire

M(op, len) == [op |-> op, len |-> len]

MCFeeds == {
    <<M("HELO", 1), M("IR  ", 0), M("BYE!", 0), M("STAT", 0)>>,
    <<M("HELO", 0), M("STAT", 3), M("IR  ", 1)>>,
    <<M("HELO", 0), M("RESP", 4), M("IR  ", 0)>>}

R(root, exact, file, cookie, filler, eol) ==
    [root |-> root, exact |-> exact, file |-> file, cookie |-> cookie,
     filler |-> filler, eol |-> eol]

MCRequests ==
    {R("html", TRUE, "player.html", c, 0, eol) : c \in {"", "sb", "gone"}, eol \in {"crlf", "lf"}}
    \union {R("html", TRUE, "player.html", "sb", 1, "crlf")}
    \union {R("html", e, "odd.html", "", 0, "crlf") : e \in BOOLEAN}
    \union {R(root, TRUE, f, "", 0, "crlf") :
              root \in {"html", "data"}, f \in {"player.html", "bar.png", "songs", "none"}}
    \union {R("/", TRUE, "", "", 0, "crlf"), R("stream", TRUE, "sb", "", 0, "crlf"),
            R("other", TRUE, "", "", 0, "crlf"), R("dynamic", TRUE, "notify", "", 0, "crlf"),
            R("dynamic", TRUE, "play", "", 0, "crlf")}

MCFiles ==
    [f \in {"player.html", "odd.html", "bar.png", "songs"} |->
      CASE f = "player.html" ->
             [kind |-> "text", body |-> <<"#", "TITLE", "#", "#", "artist", "#", "by",
                "#", "playlist.index", "#", "#", "#", "bg", "#", "playlist.list", "#">>]
        [] f = "odd.html" ->
             [kind |-> "text", body |-> <<"a", "#", "#", "#", "two", "words", "#",
                "#", "device.list", "#", "#", "config.sections", "#", "b", "#", "cut", "off">>]
        [] f = "bar.png" -> [kind |-> "raw", body |-> <<"png", "#", "#", "data">>]
        [] f = "songs" ->
             [kind |-> "dir", body |-> <<
                [url |-> "/data/songs/a b", name |-> "a b", escaped |-> "a%20b", ext |-> "mp3"],
                [url |-> "/data/songs/c", name |-> "c", escaped |-> "c", ext |-> ""]>>]]

MCList == <<[title |-> "one", artist |-> "ann", album |-> "x", file |-> "1.mp3"],
            [title |-> "", artist |-> "bob", album |-> "y", file |-> "2.mp3"]>>
MCCaseOf == [TITLE |-> "title", BASE |-> "base", FILELIST |-> "filelist"]
MCSections == <<"musicDB", "shout">>
MCItemTemplate == <<"#", "listidx", "#", "#", "title", "#">>
MCDeviceTemplate == <<"#", "device.name", "#", "#", "device.group", "#">>
MCDirTemplate == <<"#", "BASE", "#", "#", "FILELIST", "#">>
MCDirItemTemplate ==
    <<"#", "relurl", "#", "#", "name_escaped", "#", "#", "name", "#", "#", "mimetype", "#">>
MCJunk == {0, 1, 9}
=============================================================================
