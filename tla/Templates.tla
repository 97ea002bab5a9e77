------------------------------ MODULE Templates ------------------------------
(***************************************************************************)
(* The page generator of the web interface (htmlTemplate.hpp, htmlIPC.hpp).*)
(* A template is a sequence of tokens: "#", or a word that may be text or  *)
(* a keyword. A page is a sequence of items [key, val]: key is "" for text *)
(* that is copied, else the keyword, and val is the sequence of tokens it  *)
(* was replaced by.                                                        *)
(***************************************************************************)
EXTENDS Integers, SequencesExt

CONSTANTS CaseOf,       \* lower case of the words that have another one
          List,         \* the play list: songs [title, artist, album, file]
          Sections,     \* the sections of the configuration
          Player,       \* the name of the player
          Group,        \* the name of its group
          ItemTemplate, DeviceTemplate,     \* playlistItem.html, deviceListItem.html
          DirTemplate, DirItemTemplate      \* dirlist.html, dirlistItem.html

ASSUME SectionsAssumption == Sections # <<>>
ASSUME ListAssumption ==
    List # <<>> /\ List \in Seq([title : STRING, artist : STRING, album : STRING, file : STRING])
ASSUME WordsAssumption ==
    /\ \A w \in DOMAIN CaseOf : CaseOf[w] \in STRING
    /\ DirTemplate \in Seq(STRING) /\ DirItemTemplate \in Seq(STRING)

Text(tokens) == [i \in 1..Len(tokens) |-> [key |-> "", val |-> <<tokens[i]>>]]
Lower(w) == IF w \in DOMAIN CaseOf THEN CaseOf[w] ELSE w

\* The keyword between two marks; a phrase is none that any matcher knows.
Keyword(tokens) == IF Len(tokens) = 1 THEN Lower(tokens[1]) ELSE "unknown"

\* Mutant of Segments: a double mark is not an escape.
SegmentsUnescaped(t) ==
    LET marks == {i \in 1..Len(t) : t[i] = "#"}
        After(i) == {j \in marks : j >= i}
        from[p \in 1 .. Len(t) + 1] ==
            IF After(p) = {} THEN Text(SubSeq(t, p, Len(t)))
            ELSE LET s1 == Min(After(p))
                     copied == Text(SubSeq(t, p, s1 - 1))
                 IN  IF After(s1 + 1) = {} THEN copied
                     ELSE LET e == Min(After(s1 + 1)) IN
                          copied \o <<[key |-> Keyword(SubSeq(t, s1 + 1, e - 1)), val |-> <<>>]>>
                                 \o from[e + 1]
    IN  from[1]

\* generateData: the text up to a mark, then "##" for a mark or the keyword
\* up to the next one. A last mark without partner ends the page.
Segments(t) ==
    LET marks == {i \in 1..Len(t) : t[i] = "#"}
        After(i) == {j \in marks : j >= i}
        from[p \in 1 .. Len(t) + 1] ==
            IF After(p) = {} THEN Text(SubSeq(t, p, Len(t)))
            ELSE LET s1 == Min(After(p))
                     copied == Text(SubSeq(t, p, s1 - 1))
                 IN  IF After(s1 + 1) = {} THEN copied
                     ELSE LET e == Min(After(s1 + 1)) IN
                          copied \o (IF e = s1 + 1 THEN Text(<<"#">>)
                                     ELSE <<[key |-> Keyword(SubSeq(t, s1 + 1, e - 1)),
                                             val |-> <<>>]>>)
                                 \o from[e + 1]
    IN  from[1]

Filled(items, Replace(_)) ==
    [i \in 1..Len(items) |-> IF items[i].key = "" THEN items[i]
                             ELSE [items[i] EXCEPT !.val = Replace(items[i].key)]]

\* The tokens of a page made from a template and a matcher.
Generate(t, Replace(_)) ==
    LET page == Filled(Segments(t), Replace) IN FlattenSeq([i \in 1..Len(page) |-> page[i].val])

----------------------------------------------------------------------------
(* The keyword matchers.                                                   *)

\* getMime: what the extension of a file is served as.
Mime(ext) ==
    CASE ext \in {"txt", "html", "htm", "js", "json"} -> "text"
      [] ext \in {"mp3", "aif", "wav", "flac", "ogg", "m3u"} -> "audio"
      [] ext \in {"png", "jpg", "svg"} -> "image"
      [] OTHER -> "application"

\* keywordMatcherFile. "mime" is in its list of keywords, "mimetype" is the
\* one that it replaces.
FileValue(f, kw) ==
    CASE kw = "relurl" -> <<f.url>>
      [] kw = "name_escaped" -> <<f.escaped>>
      [] kw = "name" -> <<f.name>>
      [] kw = "mimetype" -> <<Mime(f.ext)>>
      [] OTHER -> <<>>

\* keywordMatcherDirlist: an item for each file of the directory.
DirValue(base, files, kw) ==
    CASE kw = "base" -> <<base>>
      [] kw = "filelist" ->
            FlattenSeq([i \in 1..Len(files) |->
                Generate(DirItemTemplate, LAMBDA k : FileValue(files[i], k))])
      [] OTHER -> <<>>

\* keywordMatcherSong: a song without a title goes by its file.
SongValue(song, idx, kw) ==
    CASE kw = "title" -> <<IF song.title = "" THEN song.file ELSE song.title>>
      [] kw = "artist" -> <<song.artist>>
      [] kw = "album" -> <<song.album>>
      [] kw = "listidx" -> <<ToString(idx)>>
      [] OTHER -> <<>>

\* keywordMatcherDevice. getGroup finds the group of a registered player.
DeviceValue(dev, kw) ==
    CASE kw = "device.name" -> <<dev>>
      [] kw = "device.group" -> <<Group>>
      [] OTHER -> <<>>

PlayListKeys == {"playlist.index", "playlist.size", "playlist.list"}
DeviceKeys == {"device.list", "device.volume", "device.elapsed", "device.playstate"}
SongKeys == {"title", "artist", "album"}

\* dirlist.html asks for nothing of a song and for the list of files, and
\* dirlistItem.html for the address of each.
HasKey(t, kw) == \E i \in DOMAIN Segments(t) : Segments(t)[i].key = kw
ASSUME DirTemplateAssumption ==
    /\ \A kw \in SongKeys : ~HasKey(DirTemplate, kw)
    /\ HasKey(DirTemplate, "filelist") /\ HasKey(DirItemTemplate, "relurl")

\* keywordMatcherIPC: the list and the devices are asked for anew at every
\* keyword, the song is the one its constructor took.
IpcValue(song, client, cur, devices, items, devs, kw) ==
    LET known == client \in ToSet(devices) IN
    CASE kw \in PlayListKeys /\ ~known -> <<>>
      [] kw = "playlist.index" -> <<ToString(cur)>>
      [] kw = "playlist.size" -> <<ToString(Len(List))>>
      [] kw = "playlist.list" ->
            FlattenSeq([i \in 1..Len(List) |->
                Generate(items, LAMBDA k : SongValue(List[i], i - 1, k))])
      [] kw = "device.list" ->
            FlattenSeq([i \in 1..Len(devices) |->
                Generate(devs, LAMBDA k : DeviceValue(devices[i], k))])
      [] kw \in DeviceKeys -> IF known THEN <<"value">> ELSE <<>>
      [] kw = "config.sections" ->
            FlattenSeq([i \in 1..Len(Sections) |->
                IF i = 1 THEN <<Sections[i]>> ELSE <<",", Sections[i]>>])
      [] OTHER -> SongValue(song, -1, kw)

\* getSong for a group that is not there: a song of which nothing is known.
NoSong == [title |-> "", artist |-> "", album |-> "", file |-> ""]
=============================================================================
