----------------------------- MODULE Sessions -----------------------------
(***************************************************************************)
(* The connections of the two servers and what refers to them: the numbers *)
(* of their sockets, which the two threads take from one table, and the    *)
(* entries of slimIPC::devices, which point to the handlers of players.    *)
(*                                                                         *)
(* A handler is deleted through connectionHandler*, whose destructor is    *)
(* not virtual: ~slimConnectionHandler, which calls delDevice, never runs. *)
(* notifyClientUpdate uses one Socket twice and so closes its number three *)
(* times; the number may belong to somebody else by then.                  *)
(***************************************************************************)
EXTENDS Integers, SequencesExt, FiniteSetsExt

CONSTANTS
  PlayerSessions,  \* connections to the slim server, once each
  PageSessions,    \* connections to the shout server
  Name,            \* Name[s]: the player (uuid) that connects as s
  Numbers,         \* the descriptor numbers
  MaxEntries,      \* bound: how many HELOs there are
  None

Sessions == PlayerSessions \cup PageSessions
Threads  == {"slim", "shout"}

ASSUME SessionsAssumption ==
  /\ IsFiniteSet(Sessions) /\ PlayerSessions \cap PageSessions = {}
  /\ DOMAIN Name = PlayerSessions /\ MaxEntries \in Nat
  /\ Numbers \subseteq Nat /\ IsFiniteSet(Numbers)
  /\ Cardinality(Numbers) >= Cardinality(Sessions) + 2
  /\ Sessions \cap Threads = {}
  /\ None \notin Sessions \cup Threads /\ None \notin Numbers

VARIABLES
  stage,    \* each session: "away", "queued" for accept, "open" or "gone"
  number,   \* connections_s::socket, what the server thinks it has
  table,    \* who a number is open for: a session, a notifying thread or None
  hello,    \* the sessions that sent HELO
  devices,  \* slimIPC::devices, as the sessions whose handlers it points to
  note,     \* each thread's notifyClientUpdate: what it does next, on which number
  cut,      \* the sessions whose number somebody else closed
  broken,   \* the sessions that ended with an error
  trap      \* an access to no list, or to a handler that was deleted

sockets == <<number, table, cut, broken>>
vars    == <<stage, sockets, hello, devices, note, trap>>

Thread(s) == IF s \in PlayerSessions THEN "slim" ELSE "shout"
Free == {n \in Numbers : table[n] = None}
Open(t) == {s \in Sessions : stage[s] = "open" /\ Thread(s) = t}

(* select() of a closed number is an error, in this round and ever after.  *)
Selects(t) == \A s \in Open(t) : table[number[s]] # None

(* The thread is in its loop, not in a notification.                       *)
Runs(t) == trap = "none" /\ note[t].do = "nothing" /\ Selects(t)
NoNote == [do |-> "nothing", n |-> None]

-----------------------------------------------------------------------------
(* A connection comes, is accepted, and ends.                              *)
Connect(s) ==
  /\ trap = "none" /\ stage[s] = "away"
  /\ stage' = [stage EXCEPT ![s] = "queued"]
  /\ UNCHANGED <<sockets, hello, devices, note, trap>>

Accept(s) ==
  /\ stage[s] = "queued" /\ Runs(Thread(s))
  /\ stage' = [stage EXCEPT ![s] = "open"]
  /\ number' = [number EXCEPT ![s] = Min(Free)]
  /\ table' = [table EXCEPT ![Min(Free)] = s]
  /\ UNCHANGED <<hello, devices, note, cut, broken, trap>>

(* The server closes the number it has, and erases the connection: recv()  *)
(* returned 0, or the handler has had enough.                              *)
EndKeepsNumber(s) ==                         \* mutant: no close()
  /\ stage[s] = "open" /\ Runs(Thread(s))
  /\ stage' = [stage EXCEPT ![s] = "gone"]
  /\ number' = [number EXCEPT ![s] = None]
  /\ UNCHANGED <<table, hello, devices, note, cut, broken, trap>>

Close(n, by) ==
  /\ table' = [table EXCEPT ![n] = None]
  /\ cut' = cut \cup ({table[n]} \cap (Sessions \ {by}))

End(s) ==
  /\ stage[s] = "open" /\ Runs(Thread(s))
  /\ stage' = [stage EXCEPT ![s] = "gone"]
  /\ number' = [number EXCEPT ![s] = None]
  /\ Close(number[s], s)
  /\ UNCHANGED <<hello, devices, note, broken, trap>>

(* recv() failed: the connection is erased, its number stays open.         *)
Fail(s) ==
  /\ stage[s] = "open" /\ Runs(Thread(s))
  /\ stage' = [stage EXCEPT ![s] = "gone"]
  /\ number' = [number EXCEPT ![s] = None]
  /\ broken' = broken \cup {s}
  /\ UNCHANGED <<table, cut, hello, devices, note, trap>>

-----------------------------------------------------------------------------
(* notifyClientUpdate: one step for each of its calls on the Socket.  It   *)
(* opens none when no page waits for a registered player.  The first       *)
(* connect() adds one connection to those the shout server may accept; the *)
(* second one is made with a number that is closed, and reaches nobody.    *)
Notified(t) ==
  note' = [note EXCEPT ![t] = [do |-> "socket", n |-> None]]

Does(t, what) == trap = "none" /\ note[t].do \in what

NoCallback(t) ==
  /\ Does(t, {"socket"})
  /\ note' = [note EXCEPT ![t] = NoNote]
  /\ UNCHANGED <<stage, sockets, hello, devices, trap>>

OpenSocket(t) ==
  /\ Does(t, {"socket"}) /\ devices # <<>> /\ Open("shout") # {}
  /\ note' = [note EXCEPT ![t] = [do |-> "connect", n |-> Min(Free)]]
  /\ table' = [table EXCEPT ![Min(Free)] = t]
  /\ UNCHANGED <<stage, number, cut, broken, hello, devices, trap>>

WakeShout(t) ==
  /\ Does(t, {"connect"})
  /\ note' = [note EXCEPT ![t].do = "close"]
  /\ \/ \E s \in PageSessions :
          stage[s] = "away" /\ stage' = [stage EXCEPT ![s] = "queued"]
     \/ UNCHANGED stage      \* beyond the bound on sessions
  /\ UNCHANGED <<sockets, hello, devices, trap>>

CloseSocket(t) ==
  /\ Does(t, {"close", "close again", "~Socket"})
  /\ note' = [note EXCEPT ![t] =
       CASE @.do = "close"       -> [@ EXCEPT !.do = "close again"]
         [] @.do = "close again" -> [@ EXCEPT !.do = "~Socket"]
         [] @.do = "~Socket"     -> NoNote]
  /\ Close(note[t].n, t)
  /\ UNCHANGED <<stage, number, broken, hello, devices, trap>>

-----------------------------------------------------------------------------
(* slimIPC::devices.                                                       *)
DevByName(name) == {i \in 1 .. Len(devices) : Name[devices[i]] = name}
Registered(name) == DevByName(name) # {}
Handler(name) == devices[Min(DevByName(name))]

(* addDevice puts an entry at the end at each HELO, whatever there is.     *)
Hello(s) ==
  /\ stage[s] = "open" /\ Runs("slim") /\ Len(devices) < MaxEntries
  /\ hello' = hello \cup {s}
  /\ devices' = Append(devices, s)
  /\ Notified("slim")
  /\ UNCHANGED <<stage, sockets, trap>>

(* A call of the handlers that some entries point to.                      *)
Reach(entries) ==
  trap' = IF \E p \in entries : stage[p] = "gone" THEN "deleted handler" ELSE trap

(* A status report or a key: the screen asks for the player's list, by its *)
(* name, which is empty before the HELO; and the end of a song moves the   *)
(* list on, for every player of the group.                                 *)
Report(s) ==
  /\ stage[s] = "open" /\ Runs("slim")
  /\ IF s \in hello THEN Reach({}) \/ Reach(ToSet(devices)) ELSE trap' = "no list"
  /\ Notified("slim")
  /\ UNCHANGED <<stage, sockets, hello, devices>>

(* A page sets a player's volume: the first entry of that name is used.    *)
SetVolume(s, name) ==
  /\ stage[s] = "open" /\ Runs("shout") /\ Registered(name)
  /\ Reach({Handler(name)})
  /\ Notified("shout")
  /\ UNCHANGED <<stage, sockets, hello, devices>>

Init ==
  /\ stage = [s \in Sessions |-> "away"]
  /\ number = [s \in Sessions |-> None]
  /\ table = [n \in Numbers |-> None]
  /\ hello = {} /\ devices = <<>>
  /\ note = [t \in Threads |-> NoNote]
  /\ cut = {} /\ broken = {} /\ trap = "none"

Next ==
  \/ \E s \in Sessions : Connect(s) \/ Accept(s) \/ End(s) \/ Fail(s)
  \/ \E s \in PlayerSessions : Hello(s) \/ Report(s)
  \/ \E s \in PageSessions : \E name \in {Name[p] : p \in PlayerSessions} :
       SetVolume(s, name)
  \/ \E t \in Threads :
       NoCallback(t) \/ OpenSocket(t) \/ WakeShout(t) \/ CloseSocket(t)

Spec == Init /\ [][Next]_vars

-----------------------------------------------------------------------------
(* Each variable in its range.                                             *)
TypeOK ==
  /\ stage \in [Sessions -> {"away", "queued", "open", "gone"}]
  /\ number \in [Sessions -> Numbers \cup {None}]
  /\ table \in [Numbers -> Sessions \cup Threads \cup {None}]
  /\ hello \subseteq PlayerSessions /\ cut \subseteq Sessions /\ broken \subseteq Sessions
  /\ devices \in Seq(PlayerSessions) /\ Len(devices) <= MaxEntries
  /\ note \in [Threads -> [do : {"nothing", "socket", "connect", "close",
                                 "close again", "~Socket"},
                           n : Numbers \cup {None}]]
  /\ trap \in {"none", "no list", "deleted handler"}

(* Descriptors are accounted for (TCPserverPosix.cpp:246-300): an open     *)
(* connection holds its number, unless another thread's notification       *)
(* closed it; a thread holds at most the number of its notification; and   *)
(* only a connection that broke off leaves its number behind.              *)
NumbersAccounted ==
  /\ \A s \in Sessions : stage[s] = "open" => table[number[s]] = s \/ s \in cut
  /\ \A n \in Numbers : table[n] \in Threads => note[table[n]].n = n
  /\ \A n \in Numbers : table[n] \in Sessions =>
       \/ stage[table[n]] = "open" /\ number[table[n]] = n
       \/ table[n] \in broken

(* "Deconstructor, closes the connection, deregisters the player"          *)
(* (slimProto.cpp:314): an entry of devices points to a live handler.      *)
EntriesLive == \A s \in ToSet(devices) : stage[s] = "open"

(* "Open/close both servers, to wake them up out of the select() wait"     *)
(* (slimIPC.cpp:752).  The code does not keep that a notification leaves   *)
(* the select of both servers working: the number it closes twice too      *)
(* often may be a connection's.  No run lists this.                        *)
SelectsWork == \A t \in Threads : Selects(t)
=============================================================================
