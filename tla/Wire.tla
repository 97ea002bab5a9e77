-------------------------------- MODULE Wire --------------------------------
(***************************************************************************)
(* What the two servers make of a byte stream. TCP delivers what a client  *)
(* sent in chunks of any length, and processRead gets one chunk at a time: *)
(* the slim protocol reader cuts the stream of a player into messages      *)
(* (slimProto.cpp), the web reader waits for the end of a request and      *)
(* answers it with a page (serverShoutCast.hpp, .cpp). The two run in two  *)
(* threads: a message may move the play list on while a page is generated. *)
(***************************************************************************)
EXTENDS Templates

CONSTANTS
    Header,     \* bytes of a slim message before its contents: 8
    RxSize,     \* the receive buffer of a player: 1024
    Feeds,      \* what a player sends: sequences of messages [op, len]
    Junk,       \* the lengths a header made of other bytes is taken to say
    BufSize,    \* tokens that fit in the input buffer of the web server
    Requests,   \* [root, exact, file, cookie, filler, eol] of a web client
    Files       \* the files below html and data: [kind, body], kind in
                \* text, raw and dir

Message == [op : STRING, len : Nat]
Request == [root : {"html", "data", "/", "stream", "other", "dynamic"}, exact : BOOLEAN,
            file : STRING, cookie : STRING, filler : Nat, eol : {"crlf", "lf"}]
Name == [url : STRING, name : STRING, escaped : STRING, ext : STRING]

ASSUME SizeAssumption ==
    /\ Header \in Nat \ {0} /\ RxSize \in Nat /\ RxSize > Header
    /\ BufSize \in Nat /\ BufSize > 2

ASSUME InputAssumption ==
    /\ Feeds \subseteq Seq(Message) /\ Junk \subseteq Nat
    /\ Requests \subseteq Request
    /\ \A f \in DOMAIN Files :
        \/ Files[f].kind \in {"text", "raw"} /\ Files[f].body \in Seq(STRING)
        \/ Files[f].kind = "dir" /\ Files[f].body \in Seq(Name)

VARIABLES
    messages,   \* the messages the player sends
    feed,       \* their bytes not yet received: pairs of message and offset
    rx,         \* rxBuf: the bytes received and not yet used
    busy,       \* the loop over the buffer is running
    handled,    \* numbers of the messages given to parseInput, 0 for junk
    up,         \* the connection of the player is kept
    lost, torn, \* messages dropped whole; a message was dropped in part
    req,        \* the request the web client sends
    wire,       \* its tokens not yet received
    bufIn,      \* bufferIn: the tokens received
    web,        \* reading, page, sent, waiting or closed
    last,       \* tokens in the last chunk received
    client,     \* the player the page is about
    song,       \* currentSong of the keyword matcher
    todo, page, \* the items to fill and those written
    cur,        \* currentItem of the play list
    devices     \* the registered players

slim == <<messages, feed, rx, busy, handled, up, lost, torn>>
http == <<req, wire, bufIn, web, last, client, song, todo, page>>
vars == <<slim, http, cur, devices>>

----------------------------------------------------------------------------
(* The reader of the slim protocol.                                        *)

Bytes(ms) == FlattenSeq([k \in 1..Len(ms) |-> [i \in 1 .. Header + ms[k].len |-> <<k, i>>]])
Whole(k) == {<<k, i>> : i \in 1 .. Header + messages[k].len}

\* The header at the front of the buffer: that of a message, or other bytes.
AtHeader == \A i \in 1..Header : rx[i] = <<rx[1][1], i>>
Lengths == IF AtHeader THEN {messages[rx[1][1]].len} ELSE Junk
Op == IF AtHeader THEN messages[rx[1][1]].op ELSE "junk"

\* A chunk that does not fit is dropped as a whole, and the connection kept.
SlimRead ==
    /\ up /\ ~busy
    /\ \E n \in 1..Len(feed) :
        LET chunk == SubSeq(feed, 1, n)
            gone == {k \in 1..Len(messages) : Whole(k) \subseteq ToSet(chunk)}
        IN
        /\ feed' = SubSeq(feed, n + 1, Len(feed))
        /\ IF Len(rx) + n > RxSize
           THEN /\ lost' = lost \union gone
                /\ torn' = (torn \/ ToSet(chunk) # UNION {Whole(k) : k \in gone})
                /\ UNCHANGED <<rx, busy>>
           ELSE /\ rx' = rx \o chunk
                /\ busy' = (Len(rx') >= Header)
                /\ UNCHANGED <<lost, torn>>
    /\ UNCHANGED <<messages, handled, up, http, cur, devices>>

\* What a message does to the state the pages show: a key or the end of a
\* song may move the list on.
Effect ==
    CASE Op = "HELO" -> devices' = Append(devices, Player) /\ UNCHANGED cur
      [] Op \in {"IR  ", "STAT"} ->
            cur' \in {cur, (cur + 1) % Len(List)} /\ UNCHANGED devices
      [] OTHER -> UNCHANGED <<cur, devices>>

\* Mutant of SlimMessage: one message of a chunk is handled.
SlimMessageOnce ==
    /\ busy /\ busy' = FALSE
    /\ \E len \in Lengths :
        IF Len(rx) < len + Header THEN UNCHANGED <<rx, handled, up, cur, devices>>
        ELSE /\ handled' = Append(handled, IF AtHeader THEN rx[1][1] ELSE 0)
             /\ Effect
             /\ up' = (Op # "BYE!")
             /\ rx' = SubSeq(rx, len + Header + 1, Len(rx))
    /\ UNCHANGED <<messages, feed, lost, torn, http>>

\* One turn of the loop: a message that is there as a whole is handled and
\* what follows it moves to the front. BYE! ends the connection at once.
SlimMessage ==
    /\ busy
    /\ \E len \in Lengths :
        IF Len(rx) < len + Header
        THEN busy' = FALSE /\ UNCHANGED <<rx, handled, up, cur, devices>>
        ELSE /\ handled' = Append(handled, IF AtHeader THEN rx[1][1] ELSE 0)
             /\ Effect
             /\ up' = (Op # "BYE!")
             /\ IF up' THEN rx' = SubSeq(rx, len + Header + 1, Len(rx)) ELSE UNCHANGED rx
             /\ busy' = (up' /\ Len(rx') >= Header)
    /\ UNCHANGED <<messages, feed, lost, torn, http>>

----------------------------------------------------------------------------
(* The reader of the web server.                                           *)

EndLine(eol) == IF eol = "crlf" THEN <<"cr", "lf">> ELSE <<"lf">>
Lines(r) ==
    <<<<"get">>>> \o [i \in 1..r.filler |-> <<"hdr">>]
        \o (IF r.cookie = "" THEN <<>> ELSE <<<<"cookie">>>>) \o <<<<>>>>
Tokens(r) == FlattenSeq([i \in 1..Len(Lines(r)) |-> Lines(r)[i] \o EndLine(r.eol)])

\* Mutant of HasEnd: the end of a line is taken for the end of the request.
HasEndLine(chunk) ==
    \E i \in 2..Len(chunk) : SubSeq(chunk, i - 1, i) \in {<<"cr", "lf">>, <<"lf", "lf">>}

\* The end of a request is looked for in one chunk. The history of two bytes
\* is kept in four: a double line feed is found only as a chunk's first two.
HasEnd(chunk) ==
    \/ \E i \in 4..Len(chunk) :
        SubSeq(chunk, i - 3, i) \in {<<"cr", "lf", "cr", "lf">>, <<"lf", "cr", "lf", "cr">>}
    \/ Len(chunk) > 1 /\ SubSeq(chunk, 1, 2) \in {<<"cr", "cr">>, <<"lf", "lf">>}

\* Mutant of Added: the chunk goes to the start of the buffer.
AddedFirst(chunk) == SubSeq(chunk, 1, Min({BufSize, Len(chunk)}))

\* What fits is added to the buffer, the rest is dropped.
Added(chunk) == SubSeq(bufIn \o chunk, 1, Min({BufSize, Len(bufIn \o chunk)}))

\* parseRequestHeader, getCookie: the last character was overwritten, and a
\* line counts when its end is there.
CookieIn(buf) ==
    LET seen == SubSeq(buf, 1, Len(buf) - 1) IN
    req.cookie # "" /\ \E i \in 1 .. Len(seen) - 1 : seen[i] = "cookie"

\* handleGet: the player of the cookie, else the first one registered.
ClientOf(buf) ==
    IF CookieIn(buf) THEN req.cookie
    ELSE IF devices # <<>> THEN devices[1] ELSE ""

\* The entry of dynamicEntries is found without regard to case, and the base
\* of the path by case: in another case the path on the disk is empty.
FileOf == IF req.exact /\ req.file \in DOMAIN Files THEN Files[req.file]
          ELSE [kind |-> "dir", body |-> <<>>]

\* getSong(getGroup(client)), when the matcher is made.
SongOf(c) == IF c \in ToSet(devices) THEN List[cur + 1] ELSE NoSong

\* dHtmlVFS::generateData: a text is filled in, another file is sent as it
\* is, and anything else is listed.
OpenPage ==
    LET f == FileOf IN
    /\ web' = "page"
    /\ todo' = CASE f.kind = "text" -> Segments(f.body)
                 [] f.kind = "raw" -> Text(f.body)
                 [] f.kind = "dir" -> Filled(Segments(DirTemplate),
                                             LAMBDA kw : DirValue(req.file, f.body, kw))
    /\ UNCHANGED page

\* The names in the root directory and the notices the server writes itself.
Root == Text(<<"data/", "dynamic/", "html/", "stream.mp3">>)

\* handleGet: what is sent for each entry of the root. A list is looked up for
\* the player named in the request; the dynamic commands answer nothing, and
\* a notification is kept waiting.
HandleGet ==
    /\ client' = ClientOf(bufIn')
    /\ song' = SongOf(client')
    /\ \/ req.root \in {"html", "data"} /\ OpenPage
       \/ /\ req.root \in {"/", "stream", "other"}
          /\ web' = "sent"
          /\ page' = CASE req.root = "/" -> Root
                       [] req.root = "stream" ->
                            IF req.file \in ToSet(devices) THEN Text(<<List[cur + 1].file>>)
                            ELSE <<>>
                       [] req.root = "other" -> Text(<<"Invalid request", "get">>)
          /\ UNCHANGED todo
       \/ /\ req.root = "dynamic"
          /\ web' = IF req.file = "notify" THEN "waiting" ELSE "closed"
          /\ UNCHANGED <<todo, page>>

\* shoutConnectionHandler::processRead. The buffer starts with the request
\* line, so that it is never taken for left over line ends.
WebRead ==
    /\ web = "reading"
    /\ \E n \in 1..Len(wire) :
        LET chunk == SubSeq(wire, 1, n) IN
        /\ wire' = SubSeq(wire, n + 1, Len(wire))
        /\ bufIn' = Added(chunk)
        /\ last' = n
        /\ IF HasEnd(chunk) THEN HandleGet
           ELSE UNCHANGED <<web, client, song, todo, page>>
    /\ UNCHANGED <<slim, req, cur, devices>>

\* Mutant of Item: the song is asked for at every keyword.
ItemLive ==
    IF Head(todo).key = "" \/ FileOf.kind = "dir" THEN Head(todo)
    ELSE [Head(todo) EXCEPT !.val = IpcValue(SongOf(client), client, cur, devices,
            ItemTemplate, DeviceTemplate, Head(todo).key)]

\* One item of the page: text is copied, a keyword replaced by what the play
\* list and the players are at that moment. DATA pages have no templates for
\* songs and players.
Item ==
    LET own == req.root = "html" IN
    IF Head(todo).key = "" \/ FileOf.kind = "dir" THEN Head(todo)
    ELSE [Head(todo) EXCEPT !.val = IpcValue(song, client, cur, devices,
            IF own THEN ItemTemplate ELSE <<>>, IF own THEN DeviceTemplate ELSE <<>>, Head(todo).key)]

WebItem ==
    /\ web = "page"
    /\ IF todo = <<>>
       THEN web' = "sent" /\ UNCHANGED <<todo, page>>
       ELSE /\ page' = Append(page, Item)
            /\ todo' = Tail(todo)
            /\ UNCHANGED web
    /\ UNCHANGED <<slim, req, wire, bufIn, last, client, song, cur, devices>>

----------------------------------------------------------------------------
Init ==
    /\ messages \in Feeds /\ feed = Bytes(messages)
    /\ rx = <<>> /\ busy = FALSE /\ handled = <<>> /\ up = TRUE
    /\ lost = {} /\ torn = FALSE
    /\ req \in Requests /\ wire = Tokens(req)
    /\ bufIn = <<>> /\ web = "reading" /\ last = 0
    /\ client = "" /\ song = NoSong /\ todo = <<>> /\ page = <<>>
    /\ cur = 0 /\ devices = <<>>

Next == SlimRead \/ SlimMessage \/ WebRead \/ WebItem

Spec == Init /\ [][Next]_vars

----------------------------------------------------------------------------
(* Properties.                                                             *)

\* Every variable keeps its type, and the buffers their size.
TypeOK ==
    /\ rx \in Seq((1..Len(messages)) \X Nat) /\ Len(rx) <= RxSize
    /\ busy \in BOOLEAN /\ up \in BOOLEAN /\ torn \in BOOLEAN
    /\ handled \in Seq(0..Len(messages)) /\ lost \subseteq 1..Len(messages)
    /\ Len(bufIn) <= BufSize
    /\ web \in {"reading", "page", "sent", "waiting", "closed"}
    /\ cur \in 0 .. Len(List) - 1 /\ ToSet(devices) \subseteq {Player}

\* The number of the message the player's next byte belongs to.
NextMessage == IF feed = <<>> THEN Len(messages) + 1 ELSE feed[1][1]

\* As long as no message was dropped in part, the reader stays in step with
\* the player however the stream was cut: each message that arrived and was
\* not dropped has been handled once, in the order sent, and the buffer holds
\* exactly what has come of the next one. And no chunk overruns the buffer.
InStep ==
    /\ Len(rx) <= RxSize
    /\ up /\ ~busy /\ ~torn =>
        /\ ToSet(handled) = (1 .. NextMessage - 1) \ lost
        /\ \A i, j \in DOMAIN handled : i < j => handled[i] < handled[j]
        /\ rx = IF feed = <<>> THEN <<>>
                ELSE [i \in 1 .. feed[1][2] - 1 |-> <<NextMessage, i>>]

\* A request is answered when its last chunk brought the whole empty line,
\* and not before: it is left waiting only when that line was cut in two (or
\* its lines end in a line feed alone and the two did not come by themselves).
RequestEnds ==
    /\ web # "reading" => wire = <<>>
    /\ web = "reading" /\ wire = <<>> =>
        IF req.eol = "crlf" THEN last < 4 ELSE last # 2

\* The player a page is about does not depend on how the request was cut: it
\* is the one of the cookie when the line of the cookie lies in the buffer.
CookieAt == LET is == {i \in 1..Len(Tokens(req)) : Tokens(req)[i] = "cookie"} IN
            IF is = {} THEN BufSize ELSE Min(is)
ClientFromCookie ==
    web # "reading" => IF CookieAt + 1 < BufSize THEN client = req.cookie
                       ELSE client \in {Player, ""}

\* The items of a filled text, told from the count of marks before a token:
\* a token after an even count is text, a keyword lies behind an odd one, and
\* two marks side by side are one that is shown.  Place is where in the page the
\* item of a token is.
Marks(t, i) == Cardinality({j \in 1..i : t[j] = "#"})
Opens(t, i) == t[i] = "#" /\ Marks(t, i) % 2 = 1
Shows(t, i) == IF t[i] = "#" THEN ~Opens(t, i) ELSE Marks(t, i) % 2 = 0
Shown(t, i) ==
    IF t[i] # "#" THEN [key |-> "", val |-> <<t[i]>>]
    ELSE IF Opens(t, i - 1) THEN [key |-> "", val |-> <<"#">>]
    ELSE LET open == Max({j \in 1 .. i - 1 : Opens(t, j)}) IN
         [key |-> Keyword(SubSeq(t, open + 1, i - 1)), val |-> <<>>]
Place(t, i) == Cardinality({j \in 1..i : Shows(t, j)})

Unfilled(e) == IF e.key = "" THEN e ELSE [e EXCEPT !.val = <<>>]
IsFilled(items, t) ==
    /\ Len(items) = Place(t, Len(t))
    /\ \A i \in 1..Len(t) : Shows(t, i) => Unfilled(items[Place(t, i)]) = Shown(t, i)

\* A page that was sent is the file that was asked for: every word outside the
\* marks and every escaped mark is there, in order, and each keyword is at its
\* place; a file that is not a text is sent as it is.
PageIsTheFile ==
    (web = "sent" /\ req.root \in {"html", "data"} /\ req.exact /\ req.file \in DOMAIN Files) =>
        LET f == Files[req.file] IN
        CASE f.kind = "text" -> IsFilled(page, f.body)
          [] f.kind = "raw" -> page = Text(f.body)
          [] f.kind = "dir" -> \A i \in 1..Len(f.body) : \E k \in 1..Len(page) :
                                  \E j \in 1..Len(page[k].val) : page[k].val[j] = f.body[i].url

\* Title, artist and album of a page are those of one song, although the
\* player may go on to the next one while the page is written.
OneSong ==
    \E s \in ToSet(List) \union {NoSong} : \A i \in 1..Len(page) :
        page[i].key \in SongKeys => page[i].val = SongValue(s, -1, page[i].key)
=============================================================================
