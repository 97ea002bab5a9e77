# TLA+ models of SqueezeD

SqueezeD is a music server for the Logitech Squeezebox.  One process runs two
servers in two threads: the *slim* server (port 3483, main thread) speaks the
binary slim protocol with the players, the *shout* server (port 9000) serves
web pages, web commands and the music itself.  They share one object,
`slimIPC`: the play lists, the registered players, the callbacks of web pages
that wait for a change, and the configuration.  A music database, made by
scanning the music at the start, is what the players' search menus look in.

The modules model the play list and the players that listen to it, the locking
of `slimIPC`, the long poll between the two threads, the server loop below
both, the connections with the descriptors and handlers they leave behind, the
readers of both protocols, the page templates, the remote control with its
menus, the music database and the tag readers.  `PROJECT.json` maps every
definition to the lines it stands for, lists the hazards of the code and the
runs.

## Inventory

| Component | State | Operations | What is hard | What makes it correct |
|---|---|---|---|---|
| Play list (`slimIPC.*`) | entries, position, repeat flag; file `slimIPC.ini` | setGroup, addToGroup, seekList, setRepeat, save, load | signed/unsigned positions, empty lists, stops inside save | the position names an entry; the file holds the list; additions do not change the current song |
| Players (`slimProto.*`) | play state, song shown, last stream command | HELO, STAT, play, pause, stop | two players reporting the same end of song; play() racing a seek; a player that leaves and comes back | the group stays in step; a list is played to its end or for ever |
| Mutexes of `slimIPC` | group, client, others, config (recursive) | every public call | nesting, early returns, data under the wrong mutex | nobody is stuck, every call returns |
| Long poll (`serverShoutCast.cpp`, `slimIPC.cpp`) | waiting requests, callbacks, mutex.others | registerCallback, notifyClientUpdate, unregisterCallback | a buffer filled by one thread and sent and deleted by the other; a response made ready after select was entered | no stale callback, no lost wake-up, every poll answered |
| TCP server (`TCPserver*.cpp/hpp`, `socket.*`) | connections, descriptors, write queues | accept, read, write, close | erasing in the walk, partial sends, blocking sends, numbers closed twice | bytes leave in order; nobody reported is passed over; slots come back |
| Slim framing (`processRead`) | receive buffer | one chunk in, whole messages out | messages split and joined, overflow | the messages handled are those that were sent |
| Remote control (`ir`) and menus (`slimDisplay.*`) | screen, cursors, image, power, volume, brightness | one key | key repeat, the popup, animations, lists that change | the image shown is where the next key acts; power gives back what was chosen |
| HTTP (`serverShoutCast.*`) | request buffer, response | one chunk in, a response out | end of request split over chunks, buffer limit | every whole request gets one response, for the right player |
| Templates (`htmlTemplate.hpp`, `htmlIPC.hpp`) | the song of the page | keyword substitution | escaped and unterminated marks, a list that moves on | the page is the file with its keywords filled, of one song |
| Music database (`musicDB.*`) | two files, tables | scan, load, index, query | a kill between and in the files, changed music, searches at both ends | tables name entries in order; a search finds what matches and a group of it is added whole |
| Tag readers (`fileInfo.*`) | position in the file, fields | one header, one frame | cut files, padding, unsynchronised tags | the fields are those of the frames; the readers end |
| Configuration (`configParser.*`) | sections, file | get, set, read, write | truncating write, `=` in values | what was written is read back |
| Start-up (`main.cpp`) | none | starts the threads | order of loading | the list is loaded before it is used |

Interaction.  A remote control key arrives at the slim thread (`ir`) and a web
command at the shout thread (`handleGet`); both call `slimIPC`.  A seek moves
the position and calls `stop()` and `play()` of every registered player, which
queue commands on the players' connections - in whichever thread the seek was
asked for.  A player answers with STAT reports; those that mark the end of a
song seek again.  Every report, and every change of the volume, calls
`notifyClientUpdate`, which fills the responses of waiting web requests and
connects to the shout server's own port to get it out of `select()`.

## Modules

| Module | Models | Lines of the code it stands for |
|---|---|---|
| `PlayListOps` | the arithmetic of `seekList` and `addToGroup`, with the widths of `int` and `size_t` | `slimIPC.cpp` |
| `PlayListStore` | the list and its file, operated on by both threads, with stops of the process | `slimIPC.cpp`, `configParser.cpp` |
| `PlayGroup` | the registered players, what they were told to play and what they report | `slimProto.cpp` |
| `IPCLocks` | the four recursive mutexes and the sequences of accesses of every call | `slimIPC.cpp` |
| `Notify` | waiting web requests, callbacks and the select loops of both threads | `slimIPC.cpp`, `serverShoutCast.cpp` |
| `ByteStream` | what a server promises a client: abstract | `TCPserver*` |
| `TCPServer` | the select loop, its vector of connections and their queues of buffers | `TCPserverPosix.cpp`, `TCPserver.hpp`, `util.hpp` |
| `Sessions` | descriptor numbers of both threads, `slimIPC::devices` and deleted handlers | `TCPserverPosix.cpp`, `slimIPC.cpp`, `socket.cpp` |
| `Wire` | the readers of both protocols, requests and their answers | `slimProto.cpp`, `serverShoutCast.*` |
| `Templates` | the text templates and their keywords, as operators | `htmlTemplate.hpp`, `htmlIPC.hpp` |
| `Remote` | keys, screens, cursors, the image and the player's settings | `slimProto.cpp`, `slimDisplay.*` |
| `DbQuery` | comparison, binary search, groups, as operators | `musicDB.*` |
| `MusicDB` | the two files of the database, starts, scans, kills, searches | `musicDB.*` |
| `FileInfo` | the tag and header readers | `fileInfo.cpp` |
| `PlayListStoreProofs`, `PlayGroupProofs`, `NotifyProofs`, `SessionsProofs`, `TCPServerProofs`, `RemoteProofs`, `MusicDBProofs`, `WireProofs` | theorems | |
| `MC*` | the instances TLC checks | |

`PlayListStore` and `PlayGroup` both extend `PlayListOps`; `PlayGroup` keeps of
the list only its length, as a song is its position.  `Wire` extends
`Templates`, `MusicDB` extends `DbQuery`.  `TCPServer` instantiates
`ByteStream` with a refinement mapping (`StreamSpec`): the run `server` checks
that it implements it, `TCPServerProofs` proves it.  `Notify` and `Sessions` look at the same wake-up from two sides: `Notify`
at who is woken and what he finds, `Sessions` at the descriptor numbers.

### PlayListOps

Positions count from 0 as in the source.  `ToSize` and `ToInt` are the
conversions of `seekList`: `(size_t)newIndex >= items.size()` takes a negative
index for one past the end, and clipping to `items.size()-1` of an empty list
stores -1, that is `SizeMax`.  `int` and `size_t` get the same width here: the
positions of a list are far below both, so the upper half of `size_t` is only
reached by converting a small negative number.

### PlayListStore

Each list operation holds `mutex.group` from its first to its last access, so
it is one action.  What its callers do afterwards without the mutex is another
action: the web page and the menu call `setGroup` and then `seekList(0)`, and
the other thread may get in between (`replaced`, `SeekFirst`).  `Save` either
writes the whole file, or the process stops in the middle and the file keeps a
beginning (`CutFiles`): `configParser::write` truncates it, then writes line by
line, group names first, entries next, position last.  `Reloaded` is what
saving an entry's url and building an entry of it again makes of a song:
`Fragile` songs, remote streams and names with a `=`, do not survive.

### PlayGroup

A player is what the server knows of it (`playState`, `shown`) and what it
does (`sent`, `phase`, `event`): it reports that a song started (STMs), that
it wants the next (STMd) and that it ran dry (STMu), one report at a time.
`SeekList` is the whole of `seekList`, the commands to all players included.
`play()` asked for by a single remote or page is two steps, as it reads the
position of the list without a mutex and sends its command later (`inPlay`).
`ReplaceCommand` and `ReplaceSeeks` are the two calls of a replaced list;
songs of the list that is gone become `Gone`.  Players do not leave here; what
a player leaves behind that does is in `Sessions`.

### IPCLocks

A call is a sequence of `Lock`, `Unlock`, `Read` and `Write` steps, as the
source has them, nested calls included.  The shared data is what the comments
of the mutexes name: the entries and position of the list, its repeat flag,
the vector of players, the vector of callbacks, the configuration.  Unlocking
a mutex of somebody else fails and does nothing, as for a recursive pthread
mutex.  A race is a state in which both threads are about to access the same
data and one of them to write it.

`BeginUnknown` is a web page that names a player nobody registered: `setDevice`,
`setGroup` and `addToGroup` return early with their mutex.  `kept` names the
mutexes that were kept so.

### Notify

Filling a response, erasing its callback and waking the shout thread are three
steps; the shout thread collects its write set, selects and handles in steps
of its own.  `request[w]` is where a web connection is: `asked` (its request
is on the way), `waiting` (callback registered), `ready` (filled), `none`.
`woken` is one flag per port: connections that were closed again before they
were accepted are handled like one.

`registerCallback` does not hold the mutex.  What becomes of a callback
appended while the other thread walks the vector is undefined; the model lets
it be appended or lost (`RaceOutcomes`), and `PollAnswered` asks about the
callbacks that are in the list.  A torn vector is not modelled.

### TCPServer and ByteStream

`loop` is how far the server is in a round: collect and select, accept one
client, walk the vector with an index that steps back when a connection is
erased.  A handler's queue holds buffers (a page, a file, the response of a
poll that is not ready yet), each with its position; `Sent` is what `writeBuf`
does after `send()`.  The code clears `O_NONBLOCK` where it means to set it
(`setBlocking(s, false)`), so `send` blocks: the model sends one byte at a
time while the server is in `send`, until all is placed or the client is gone.
A byte is its number in the stream of its connection.

`ByteStream` promises a client the bytes written for it, in order and once,
and that the server does not end the connection before it got them, unless it
refused or broke it (`Cut`).

### Sessions

A session is one connection.  `table` is the process's descriptor table (the
lowest free number is given), `number` what the server's `connections_s`
holds: they differ after a number was closed by somebody else.
`notifyClientUpdate` opens one `Socket` and closes it three times - after each
`Close()` and in the destructor - and each is a step of its own, as the other
thread may be given the number in between.  `recv` failing erases a connection
without a `close`.  `devices` is the vector of `slimIPC`, as the sessions
whose handlers it points to; deleting a handler leaves it as it is.  `trap`
says that an access the code makes is one to no list, or to a deleted handler;
nothing is modelled after it.

### Wire and Templates

A player's stream is a sequence of bytes that know their message; a chunk is
any beginning of what has not been received.  When a chunk is dropped as the
buffer is full, a later header may be made of other bytes, and its length is
one of `Junk`.  A request is a sequence of tokens (a line, the cookie, the
four characters of its end); the buffer of 2048 bytes is `BufSize` tokens.
A template is a sequence of words and marks, `Segments` what
`generateData` cuts it into, and the page is written one item at a time, while
the slim thread moves the list on.

### Remote

`h` is the connection handler with its display: each function of the code is
an operator from a handler to a handler, and a key press is one step.  The
image is abstracted to the screen and the item it shows; `buffer` is the one
drawn last, `shown` the one the player got.  `SongEnds` is the report that
seeks and then draws; `PagePlay`, `OtherList` and `OtherSeek` are what a page or
another player does to this one: its playlist cursor moves and nothing is
drawn, which the history variable `moved` remembers.  The light is what was
sent last: 5 by the HELO, which sends the brightness as it is
(`slimProto.cpp:531`), one less than the brightness by the keys (622, 692).
Left out: the second search
screen, which is the same class; a second HELO, which is in `Sessions`; a key
that repeats within 200 ms, which changes nothing.

### MusicDB and DbQuery

Strings are sequences of letters, a letter and its capital being equal modulo
10; none is longer than an `int` can count (`IntMax`), which is also how far
two fields are compared.  `MusicDBAssumption` bounds the music by what the file
can hold: the length of a record is a `uint16_t` (`musicDB.cpp:74`, 111), a path
and its zero fit `dbPath[200]`, an offset fits what `ftell` returns.  The code
checks none of it.  A record of 64K or more is read back in parts, everything
behind it is shifted, and the index is closed twice at the next start without
any kill: of such music the module says nothing.  `BinSearch` is the search over positions, told which
of them are before what is looked for.  `dbFile` holds the entries and whether a part of one follows; `idxFile` is
the sequence of words the code writes: count, offsets, tables.  A kill in the
scan leaves some entries and perhaps a torn one, a kill in the index any
beginning of the words.  `Changes` are what happens to the music, its path and
the files between two starts.

### FileInfo

A file is a record of what the readers can tell apart (see the module).  `wild`
is a state in which a reader took bytes for a frame that are none, or ran
beyond its buffer: `StaysInTag` says for which files that happens.
`FilesAssumption` says what a file is: the size in a tag that is accepted is
that of its frames, its padding and the bytes unsynchronisation added, which
between them are all the bytes of it, so that a size that lies is not among the
files.  `raw` are the bytes of the tag as they are in the file; the search for
the MPEG header runs over them (`Scanned`): over the last one of a tag that was
read, over most of one that was cut, over all of one that was refused.  The names of
its state and its actions differ from those of `MusicDB`, so that one module
can hold the proofs about both.

## Runs

| Run | Checks | Bounds |
|---|---|---|
| `store` | `TypeOK`, `PositionInv`, `SavedInv`, `CurrentSongKept`, `SeekRepairs` | lists of at most 2 entries of 3 songs, indices from -1 past the end, 2 threads |
| `group` | `TypeOK`, `SeekAligns` | 1 player, lists up to 3, both threads |
| `listen` | `InStep`, `PlaysToEnd`, `RepeatsForever` | up to 2 players that get no commands, lists up to 3 |
| `locks` | `NobodyStuck`, `EveryCallReturns` | each early return once; all other calls of the two threads, any number of times |
| `notify` | `CallbacksAlive`, `NoLostWakeUp`, `PollAnswered` | 1 player, 3 requests, lost callbacks included |
| `server` | `RoundServesAll`, `StreamSpec`, `SlotsComeBack` | 3 clients, 2 slots, packets of 2 bytes and answers up to 4, a client's window of 1 byte |
| `sessions` | `NumbersAccounted` | 1 player with 2 connections, 2 web connections, 2 HELOs |
| `sessions_departed` | `EntriesLive` (violated) | as `sessions` |
| `remote` | `ScreenShown`, `CursorsOnItems`, `PowerRestores`, `ImageArrives` | menus of one item of each kind, volumes 0..4, four sets of keys; a page or another player in two of them |
| `database` | `EntriesExist`, `WholeRecords`, `CleanIsSorted`, `FoundAll`, `GroupAdded` | libraries of up to 3 entries with 2 fields, 3 changes or kills |
| `wire` | `InStep`, `RequestEnds`, `ClientFromCookie`, `PageIsTheFile`, `OneSong` | 3 feeds of 3-4 messages, a buffer of 5 bytes, 21 requests, every cut |
| `tags` | `TagsRight`, `StaysInTag`, `HeaderRead`, `Ends` | 2061 files |

Two entries are enough to tell first, last and neighbour apart, and an empty
and a one-entry list are among them; two players are enough for one of them to
report what the other already did; three requests for a callback to be erased
with others before and behind it.  `group` has one player: what it shows is a
race of two threads over one player, and `SeeksAlign` proves it for any
number.  `IntMax = 7` leaves room for every position reached and its
conversions.  In `server` a client is refused while two are served, an answer
is longer than a packet and a packet longer than the window, so that every
send is partial.  In `sessions` there are two numbers more than sessions, one
for each thread's notification.  In `remote` a directory holds an empty one;
the four sets of keys are those that browse, search, use lists and change
settings.  In `database` titles share beginnings, differ in capitals only, or
are empty, and libraries of equal and of different sizes follow one another.
In `wire` a message is longer than the buffer, and messages fit one, two or in
parts.  In `tags` every number of padding bytes that the loop guard treats
differently occurs, and refused and cut tags with and without UTF-16 text.

What some properties leave out, because the code does otherwise:

* `ScreenShown`: Now Playing draws the main menu before it resets its cursor,
  and a seek by another player or a page moves the playlist's cursor without
  drawing it (`slimProto.cpp:946`), until the screen is drawn again.
* `PowerRestores`: the light of the HELO is one brighter than what the keys
  send for the same brightness, so that off and on again dims the player.
* `CursorsOnItems`: in an empty directory, `right` reads an item that is not
  there.
* `WholeRecords`, `CleanIsSorted`: records of 64K or more (`RecordMax`).
* `HeaderRead`: files whose refused or cut tag holds an FF, as UTF-16 text does;
  the search may take it for a header.
* `RequestEnds`: an end of request that is cut over two chunks is not found, and
  two line feeds only if they come by themselves.
* `ClientFromCookie`: a cookie behind the cut of a long request is lost.
* `InStep` of `Wire`: after a message was dropped in part, anything may follow.
* `StaysInTag`: tags with 6 or 7 bytes of padding or shorter than 5 bytes, cut
  tags, unsynchronised ones, and version 2.4 tags with long frames.
* `CleanIsSorted`: an index that differs from its database after a kill is
  closed twice.

## Where the code does something else than it says

`sessions_departed` shows that a player that leaves is not deregistered: a
handler is deleted through `connectionHandler*`, whose destructor is not
virtual, so the destructor that "deregisters the player" does not run, and
`slimIPC::devices` keeps pointing to the deleted handler.

Stated in the modules, not kept by the code and not listed by a run:

| Property | What the code does |
|---|---|
| `PlayListStore!StatusRestored` | a saved remote stream comes back as an entry without url |
| `PlayGroup!FirstEndAdvances` | two players at the end of a song move the list on twice |
| `PlayGroup!InStep` with both threads | a `play()` overtaken by a seek leaves a player on the old song |
| `IPCLocks!SharedExclusive` | `registerCallback` unlocks where it should lock, `devices` is walked without its mutex, the repeat flag is toggled and the list is read by `play()` without one |
| `Notify!WakesBoth` | the second wake-up uses a closed socket, so the slim server is not woken |
| `Sessions!SelectsWork` | the number of the wake-up socket is closed three times and may be a connection's by then, whose server's `select` fails from then on |

By inspection, in code that is modelled:

* `notifyClientUpdate` never looks at its argument, so a change of one player
  answers the pages that wait for any other.
* `setDevice`, `setGroup` and `addToGroup` keep their mutex when the player or
  group is unknown; `locks` shows that nothing else blocks.
* `getDevice` returns an uninitialised buffer for a field it does not know.
* The second constructor of `dbQuery` falls through its switch and copies into
  the wrong vector; nothing the program runs uses it.
* The first group of a search counts one entry twice (`musicDB.cpp:571`), against
  "number of objects per index" and "Number of items within this unique result"
  (`musicDB.hpp:242`, 285); the search screen shows one match too many
  (`slimDisplay.cpp:439`).  `DbQuery!Unique` does as the code does, and no
  property rests on the count.
* A report handled late shows the song the list is at and not the one that was
  started (`slimProto.cpp:755`), when somebody moved the list in between.
* A report or a key before the HELO asks for a list that is not there
  (`slimProto.cpp:559`); a second HELO registers the player twice.
* A load that finds a bad header leaves the file open; a base path longer than
  199 characters is scanned again at each start; a scan that was killed is
  never completed; "only scan if index is missing" (`musicDB.cpp:234`) is not
  what `init` does.
* The directory keyword matcher lists `mime` and replaces `mimetype`.
* A route is matched in any case, the path below it only in lower case.
* An MP3 file without any tag is not an audio file to the scan.

## Fairness

* `PlayGroup!Fairness` (only `ListenSpec`): a player with a stream gets to its
  end and says so, and the select loop handles every report it received.
  Nothing is assumed about commands; `ListenSpec` has none.
* `IPCLocks!Fairness`: a thread in a call goes on with it; strong fairness,
  as a waiting thread gets a mutex that is free again and again.  No thread
  is assumed to begin a call.  Once an early return kept a mutex nothing is
  promised.
* `Notify!Fairness`: players keep sending reports (the Squeezebox has a
  heartbeat), the loops keep running, a mutex is obtained in the end.  The
  two-second timeout of select is *not* assumed to fire: `PollAnswered` shows
  that answers do not depend on it.
* `TCPServer!Fairness`: the loop goes on, clients read what they were sent or
  leave, and the event a page waits for comes again.  A client that does
  neither holds a blocking `send`, and with it the server, for ever.
* `Remote!FairSpec`: the player sends its status and reports the end of its
  animations.
* `FileInfo`: the reader goes on.

Runs of `ListenSpec` do not check for deadlock, as a list that was played to
its end leaves nothing to do; nor do `server`, `sessions`, `remote`, `wire`
and `tags`, whose clients, sessions, keys, streams and files come to an end or
are bounded.

## Proofs

For every value of the constants that satisfies the ASSUMEs of the modules:
`IntMaxAssumption`, `StoreAssumption`, `GroupAssumption`, `NotifyAssumption`,
`SessionsAssumption`, `ServerAssumption`, `RemoteAssumption`,
`MusicDBAssumption`, `FilesAssumption`; of `Wire` and `Templates`, `SizeAssumption`,
`InputAssumption`, `SectionsAssumption`, `ListAssumption`, `WordsAssumption`
and `DirTemplateAssumption`.  They say that bounds are numbers, that names
differ from each other, that the menus have items, of which kind messages,
requests and files are, and (the last) that `dirlist.html` has no keyword of a
song and asks for the list of files, and `dirlistItem.html` for the address of
each, as is the case of both files in `html/`.  TLC evaluates each of them in a
run.  Every inductive invariant was an invariant of a TLC run before it was
proved.

The list and its players:

* `PlayListStoreProofs!SeekItemRange`: a seek in a list with entries, wherever
  the position was and whatever was asked for, ends on an entry (stated again
  in `PlayGroupProofs`, which extends another module).
  `PlayGroupProofs!EndOfLastSongStays`: the end of the last song starts
  nothing.
* `PlayListStoreProofs!TypeCorrect`, `PositionSafe`, `ListSaved`: `TypeOK`,
  `PositionInv` and `SavedInv`.  Their conjunction `Inv` is inductive:
  a reload takes the position from the file, so the invariant of memory needs
  the one of the file and the other way round.  `SaveKeepsInv` is the lemma
  about a save, whole or cut, that all list operations share, and `CutReload`
  says that a cut file is a beginning of the list it was cut from.
* `PlayListStoreProofs!SongKept`, `SeeksRepair`: the action properties
  `CurrentSongKept` and `SeekRepairs`, of every step from a state of `Inv`.
  `AdditionKeepsSong` is about the insertion alone: an addition before the
  position moves it along.
* `PlayGroupProofs!TypeCorrect`: `TypeOK`, for one thread or two.
* `PlayGroupProofs!SeeksAlign`: `SeekAligns`, for one thread or two.  It rests
  on `Reached`: only registered players were sent a song or are in a `play()`.
* `PlayGroupProofs!PlayersInStep`: `InStep` for any number of players, under
  the assumption `Threads = {"slim"}`, without which it is false.  `InStep`
  alone is not inductive, as a `play()` in progress holds a song that is sent
  later: `InStepInv` adds that the song held is the one the list is at, and
  that only registered players were sent one.  No run repeats this with
  commands; `listen` checks `InStep` without them.
* `PlayGroupProofs!ListenersInStep`: `InStep` of a group that gets no commands
  (`ListenSpec`, the specification of `listen`), for any number of players.
  `ListenInv` is `InStepInv` and that no list is being replaced.

The web requests that wait:

* `NotifyProofs!TypeCorrect`, `CallbacksStayAlive`: `CallbacksAlive`, for any
  players and requests.  The callbacks are used by two threads; the invariant
  needs who may be walking them (`MutexInv`), that the shout thread's sets are
  of the states of its requests (`ShoutInv`), and that a callback is
  registered once (`Once`), as only its first entry is erased.
* `NotifyProofs!NoAnswerSleeps`: `NoLostWakeUp`.  A request becomes ready inside
  a walk that ends in a wake-up; what is proved is that this debt is kept
  through the erasing, the unlocking and the connecting.

The server:

* `SessionsProofs!TypeCorrect`, `AllAccounted`: `TypeOK` and
  `NumbersAccounted`, for any sessions and numbers.
  The invariant says of every number in the table who holds it (`HoldersInv`)
  and that a number left behind by a broken connection is left once
  (`LeftOnce`).
* `TCPServerProofs!TypeCorrect`, `NobodyMissed`: `TypeOK` and `RoundServesAll`,
  for any clients.  The round walks the vector by its index while entries are
  erased and added; `RoundInv` says that who is still to be served is ahead of
  the index, `MembersInv` that the vector holds each open connection once.
* `TCPServerProofs!Implements`: `Spec => StreamSpec`, the refinement of
  `ByteStream`: initial states map to initial states (`InitOnStream`), every
  step to a step or a stutter (`StepOnStream`, one lemma per action).  It rests
  on `StreamInv`: the buffers of a queue are, end to end, the bytes from the
  one the client waits for to the last one written, through partial sends,
  reads from files and buffers that end while they are sent.

The remote control (`RemoteProofs`), for any menus, music and keys:

* `TypeCorrect`, `ShowsWhereItActs`, `CursorsStayOnItems`, `OnAsChosen`:
  `TypeOK`, `ScreenShown`, `CursorsOnItems` and `PowerRestores`.  The argument
  follows the calls: `Draw` and `SetMenu` change the screen and the display
  only (`Kept`) and leave the screen shown (`Shown`); every `command()` that
  handles a key leaves it so (`Answers`), and one that does not leaves a
  screen that is no popup, which is then drawn.  To be inductive the invariant
  adds that a letter is begun only where there is room (`RoomForLetter`).

The music database (`MusicDBProofs`), for any libraries and paths that fit the
file, any sorted fields, and changes and kills in any order:

* `NumbersOfEntries`, `EntriesOfScan`, `SortedUnlessKilled`: `EntriesExist`,
  `WholeRecords` and `CleanIsSorted`.  The first needs to know what is on disk
  when `load()` accepts it: `CutIndex` says that the index file is a beginning of
  what some `index()` wrote, for some path and some entries.  `IndexFile` says
  where in it each word of a table is (`HasWords`), so that a file whose count
  fits yields numbers below the count, or zeros behind its end (`ReadTables`).
  The last needs `CleanInv`: while nothing was killed the index is of the
  database (`IndexOfDb`), and is read back as it was written (`ReadBack`).
* `SearchFindsAll`: `FoundAll`, a search of a sorted database finds every
  entry that begins with what is looked for, and no other.  `BinSearchFinds`:
  over any set of positions that is a beginning of the range, the search ends
  where the set ends.  `PrecedesTotal`, `PrecedesTransitive` and
  `PrecedesLonger` say that fields compared up to a length are ordered, so the
  positions below a match are a beginning of a sorted table (`TableAscends`);
  `FindFinds` joins the two.
* `GroupIsAdded`: `GroupAdded`, a group of a sorted table that is added brings
  every entry that was found with its field.  A query lasts while its database
  does: `QueryInv` says that its range and groups are those of the tables at
  hand, which `QueryKept` shows of every step.

The tag readers (`MusicDBProofs`, too), for any files:

* `TagsOfFile`, `LoopInTag`, `HeaderFound`: `TagsRight`, `StaysInTag` and
  `HeaderRead`.  `ReadTo(k)` says that the loop is where the `k`-th frame ends,
  that none before was empty, and that the fields are those of the first `k`
  frames over the tag at the end of the file (`TagsTo`); a frame more is
  `OneMore`.  The ends ascend (`EndsAre`), so that the loop knows the next frame
  by its place (`AtNextFrame`), and where it meets none, or ends, it has passed
  them all (`NoFrameLeft`, `FramesDoneKeeps`).  A version 4 tag with frames of
  128 bytes, which is misread, is left out, as `TagsRight` does.  `ScannedIs`
  says that the bytes searched end with the music, for every tag; `SearchInv`
  that the search has passed none of it, as long as the bytes before it hold no
  255 (`NoFF`); `WordSplit` that the bits of a FLAC word are all accounted for.

The readers (`WireProofs`), for any sizes of the buffers, any messages, requests
and files, and cut in any way:

* `StaysInStep`: `InStep`.  `InMessage(k, p)` says where the reader is: the
  first `p` bytes of the stream were received, the first of them in the buffer
  begins message `k`, and those before it were handled, in order, or lost
  whole.  A read moves `p`, a handled message `k`.  The stream is messages put
  end to end, so that the first byte in the buffer is a header's (`StreamIs`),
  and what is dropped is either whole messages (`DroppedWhole`) or sets `torn`,
  after which the invariant says nothing, as nothing is true.
* `RequestsEnd`, `CookieNamesClient`: `RequestEnds` and `ClientFromCookie`.
  `Received(p)` says that the buffer holds the first tokens of the request, as
  many as fit; `TokensAre` where its empty line and its cookie are,
  `EndIsFound` that a chunk holds the end exactly when it brought all of it,
  and `CookieSeen` that the whole line of the cookie is in the buffer when it
  fits.
* `PageOfOneSong`: `OneSong`.  `PageInv` says that the song is fixed when a page
  is opened, and that the items written so far tell of it, whatever item of
  the list is current by then; `IpcSong` that a keyword of a song is answered
  from that one.
* `PagesAreFiles`: `PageIsTheFile`.  `FileInv` says that the items written and
  those left are the items the file was opened with, whatever the list answers
  at each keyword.  For a template, `SegmentsFilled` says that the recursion of
  `generateData`, which goes from one mark to the next, gives what the count of
  marks before each character tells: `OneTurn` is one turn of its loop, and
  `CountSteps`, `CountTakes` and `CountSkips` how a count of places goes on by
  one.  For a directory, `FilesListed` says that the list has the address of
  every entry.
* `TypesKept`: `TypeOK`, with the buffer of the player's handler never beyond
  its size.

`LeastNumber`, in the modules that use `Min` or `Max` of a set of positions, is
the least-number principle, from the well-foundedness of the naturals.
`NumbersFromZero` is the induction over a set of numbers that it gives.  That
the recursive functions of the models exist is shown by hand for each form of
recursion: `SearchExists` for the search, `StepByStep` for a sequence whose
elements are made of the one before, as the parts of a stream or the ends of
frames, `FromEndExists` for a sequence made from its end, as the segments of a
template.

Only model-checked:

* the liveness properties `PlaysToEnd`, `RepeatsForever`, `EveryCallReturns`,
  `PollAnswered`, `SlotsComeBack`, `ImageArrives` and `Ends`: they need
  fairness, which is out of the prover's reach;
* `NobodyStuck` of `IPCLocks`: the module has no parameter but two names, so
  the run is over all its states and a proof would add nothing.

## Plan

To prove next: of `PlayGroup`, what two players that listen without commands
still agree on, beyond `InStep`.

Modules that are left: the configuration (file round trip, defaults), and
`PlayGroup` with players that leave, once the destructor is virtual.

## Not modelled

* What a torn vector does: two threads append to the write queue of one player
  and to `callbacks` without a mutex.  Every outcome would be an arbitrary
  choice; the modules stop at saying that the race exists.
* Bitmaps, fonts, scrolling and the kind of transition on the display; the text
  of pages and headers.
* The configuration's parser and defaults: they read a file once, at the start.
* FLAC comments, the table of mime types, the branch built with TagLib.
* The HTTP client class, which nothing uses; the Windows port; build files.
* `delDevice` and `setConfig`, which nothing the program runs calls.
