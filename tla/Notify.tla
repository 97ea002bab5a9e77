----------------------------- MODULE Notify -----------------------------
(***************************************************************************)
(* The web pages that wait for a player's next change.  A browser asks for *)
(* dynamic/notify; the shout thread answers with a buffer that cannot be   *)
(* read yet (bufferNotify) and registers its callback in slimIPC.  Any     *)
(* change of a player - a status report handled by the slim thread, a      *)
(* volume command handled by the shout thread - calls notifyClientUpdate,  *)
(* which fills the buffers of the waiting requests and then connects to    *)
(* the server's own port, to get it out of a select() that was entered     *)
(* when there was nothing to write.                                        *)
(*                                                                         *)
(* Both threads run the same loop (TCPserver::runNonBlock): collect the    *)
(* connections that have something to write, select, handle what select    *)
(* reported.  Filling a buffer and erasing its callback are two steps, and *)
(* the shout thread may send and delete a filled buffer in between.        *)
(***************************************************************************)
EXTENDS Integers, SequencesExt

CONSTANTS
  Players,      \* the squeezeboxes
  Requests,     \* the web connections that may wait
  Device,       \* Device[w]: the player request w waits for
  RaceOutcomes, \* what becomes of a callback that is registered, without
                \* the mutex, while the other thread walks the callbacks:
                \* it is "appended" or "lost"
  Nobody        \* the owner of the free mutex.others; no player

ASSUME NotifyAssumption ==
  /\ Device \in [Requests -> Players \cup {Nobody}]
  /\ RaceOutcomes \subseteq {"appended", "lost"} /\ RaceOutcomes # {}
  /\ Nobody \notin Players \cup {"slim", "shout"}
  /\ "page" \notin Requests

VARIABLES
  devices,    \* the players registered in slimIPC
  event,      \* the players with a message on its way to the server
  output,     \* the players with a command queued for them by the shout thread
  request,    \* what has become of each web request
  callbacks,  \* slimIPC::callbacks
  others,     \* the owner of mutex.others
  note,       \* how far each thread is in notifyClientUpdate
  loop,       \* how far each thread is in its select loop
  woken       \* the ports with a connection nobody accepted yet

vars == <<devices, event, output, request, callbacks, others, note, loop, woken>>

server == <<devices, event, output, loop>>   \* what a notification leaves alone

Threads == {"slim", "shout"}

Note(at, device, i, nrc) == [at |-> at, device |-> device, i |-> i, nrc |-> nrc]
NoNote == Note("none", Nobody, 0, FALSE)

Loop(at, reads, writes) == [at |-> at, reads |-> reads, writes |-> writes]

Wants(t) == IF t = "shout" THEN {w \in Requests : request[w] = "ready"} ELSE output
Input(t) == IF t = "shout" THEN {w \in Requests : request[w] = "asked"} ELSE event

(* Other web connections: a page, which may carry a command.               *)
Pages(t) == IF t = "shout" THEN {"page"} ELSE {}

-----------------------------------------------------------------------------
(* The outside: a browser asks for the next change, a player sends HELO    *)
(* or, once registered, a status report.                                   *)
Ask(w) ==
  /\ request[w] = "none"
  /\ request' = [request EXCEPT ![w] = "asked"]
  /\ UNCHANGED <<devices, event, output, callbacks, others, note, loop, woken>>

PlayerSends(p) ==
  /\ p \notin event
  /\ event' = event \cup {p}
  /\ UNCHANGED <<devices, output, request, callbacks, others, note, loop, woken>>

-----------------------------------------------------------------------------
(* The select loop.                                                        *)
Free(t) == note[t] = NoNote

Collect(t) ==
  /\ Free(t)
  /\ loop[t] = Loop("handle", {}, {})
  /\ loop' = [loop EXCEPT ![t] = Loop("select", {}, Wants(t))]
  /\ UNCHANGED <<devices, event, output, request, callbacks, others, note, woken>>

(* select returns what is in its sets: connections with input, connections *)
(* that were to be written to, and the listening socket.  In the same pass *)
(* a waiting connection is accepted.                                       *)
SelectReturns(t) ==
  /\ loop[t].at = "select"
  /\ Input(t) # {} \/ loop[t].writes # {} \/ t \in woken
  /\ \E pages \in SUBSET Pages(t) :
       loop' = [loop EXCEPT ![t] = Loop("handle", Input(t) \cup pages, @.writes)]
  /\ woken' = woken \ {t}
  /\ UNCHANGED <<devices, event, output, request, callbacks, others, note>>

(* Two seconds went by, or only a page was asked for.                      *)
OtherReturn(t) ==
  /\ loop[t].at = "select"
  /\ Input(t) = {} /\ loop[t].writes = {} /\ t \notin woken
  /\ \E pages \in SUBSET Pages(t) :
       loop' = [loop EXCEPT ![t] = Loop("handle", pages, {})]
  /\ UNCHANGED <<devices, event, output, request, callbacks, others, note, woken>>

(* A connection's input is handled before its output.                      *)
Reads(t, c) ==
  /\ Free(t) /\ c \in loop[t].reads
  /\ loop' = [loop EXCEPT ![t].reads = @ \ {c}]

Writes(t, c) ==
  /\ Free(t) /\ loop[t].at = "handle" /\ c \in loop[t].writes \ loop[t].reads
  /\ loop' = [loop EXCEPT ![t].writes = @ \ {c}]

(* A message of a player: HELO registers it and sets its volume, a status  *)
(* report changes its status.  Both end in a notification.                 *)
PlayerMessage(p) ==
  /\ Reads("slim", p)
  /\ event' = event \ {p}
  /\ devices' = devices \cup {p}
  /\ note' = [note EXCEPT !["slim"] = Note("lock", p, 0, FALSE)]
  /\ UNCHANGED <<output, request, callbacks, others, woken>>

WriteToPlayer(p) ==
  /\ Writes("slim", p)
  /\ output' = output \ {p}
  /\ UNCHANGED <<devices, event, request, callbacks, others, note, woken>>

(* registerCallback, which does not take the mutex.                        *)
Register(w) ==
  /\ Reads("shout", w)
  /\ request' = [request EXCEPT ![w] = "waiting"]
  /\ \E outcome \in IF others = Nobody THEN {"appended"} ELSE RaceOutcomes :
       callbacks' = IF outcome = "appended" THEN Append(callbacks, w) ELSE callbacks
  /\ UNCHANGED <<devices, event, output, others, note, woken>>

(* The response is sent and the connection closed: the buffer is deleted,  *)
(* whose destructor unregisters the callback, under the mutex.  The loop   *)
(* that erases it finds it at most once: a request registers once.         *)
RespondUnlocked(w) ==                       \* mutant: no mutex
  /\ Writes("shout", w)
  /\ request' = [request EXCEPT ![w] = "none"]
  /\ callbacks' = RemoveFirst(callbacks, w)
  /\ UNCHANGED <<devices, event, output, others, note, woken>>

Respond(w) ==
  /\ Writes("shout", w)
  /\ others = Nobody
  /\ request' = [request EXCEPT ![w] = "none"]
  /\ callbacks' = RemoveFirst(callbacks, w)
  /\ UNCHANGED <<devices, event, output, others, note, woken>>

(* A page that commands nothing, or sets the volume of a player: that is   *)
(* queued on the player's connection, and the change notified.             *)
Page ==
  /\ Reads("shout", "page")
  /\ \/ UNCHANGED <<output, note>>
     \/ \E p \in devices :
          /\ output' = output \cup {p}
          /\ note' = [note EXCEPT !["shout"] = Note("lock", p, 0, FALSE)]
  /\ UNCHANGED <<devices, event, request, callbacks, others, woken>>

-----------------------------------------------------------------------------
(* notifyClientUpdate.                                                     *)
At(t, at) == note[t].at = at
Goes(t, at) == note' = [note EXCEPT ![t].at = at]

NotifyLock(t) ==
  /\ At(t, "lock")
  /\ others = Nobody
  /\ others' = t
  /\ note' = [note EXCEPT ![t].at = "walk", ![t].i = 1]
  /\ UNCHANGED <<request, callbacks, woken>> /\ UNCHANGED server

(* A callback of a player nobody registered is passed over.                *)
NotifySkip(t) ==
  /\ At(t, "walk") /\ note[t].i <= Len(callbacks)
  /\ Device[callbacks[note[t].i]] \notin devices
  /\ note' = [note EXCEPT ![t].i = @ + 1]
  /\ UNCHANGED <<request, callbacks, others, woken>> /\ UNCHANGED server

(* callback::call: the page is rendered into the buffer, which can be read *)
(* and sent from now on.                                                   *)
NotifyCall(t) ==
  /\ At(t, "walk") /\ note[t].i <= Len(callbacks)
  /\ LET w == callbacks[note[t].i]
     IN  /\ Device[w] \in devices
         /\ request' = [request EXCEPT ![w] = IF @ = "waiting" THEN "ready" ELSE @]
  /\ Goes(t, "erase")
  /\ UNCHANGED <<callbacks, others, woken>> /\ UNCHANGED server

(* Mutant of NotifyErase: the callback is not counted.                     *)
NotifyEraseUncounted(t) ==
  /\ At(t, "erase")
  /\ callbacks' = RemoveAt(callbacks, note[t].i)
  /\ note' = [note EXCEPT ![t].at = "walk"]
  /\ UNCHANGED <<request, others, woken>> /\ UNCHANGED server

NotifyErase(t) ==
  /\ At(t, "erase")
  /\ callbacks' = RemoveAt(callbacks, note[t].i)
  /\ note' = [note EXCEPT ![t].at = "walk", ![t].nrc = TRUE]
  /\ UNCHANGED <<request, others, woken>> /\ UNCHANGED server

NotifyUnlock(t) ==
  /\ At(t, "walk") /\ note[t].i > Len(callbacks)
  /\ others' = Nobody
  /\ note' = [note EXCEPT ![t] = IF @.nrc THEN [@ EXCEPT !.at = "wake"] ELSE NoNote]
  /\ UNCHANGED <<request, callbacks, woken>> /\ UNCHANGED server

(* Connect to the shout port.  The connection to the slim port that is     *)
(* tried next uses the socket closed after the first one, so it reaches    *)
(* nobody.                                                                 *)
WakeNobody(t) ==                            \* mutant: no connection is made
  /\ At(t, "wake")
  /\ note' = [note EXCEPT ![t] = NoNote]
  /\ UNCHANGED <<request, callbacks, others, woken>> /\ UNCHANGED server

Wake(t) ==
  /\ At(t, "wake")
  /\ woken' = woken \cup {"shout"}
  /\ note' = [note EXCEPT ![t] = NoNote]
  /\ UNCHANGED <<request, callbacks, others>> /\ UNCHANGED server

Notifies(t) ==
  \/ NotifyLock(t) \/ NotifySkip(t) \/ NotifyCall(t)
  \/ NotifyErase(t) \/ NotifyUnlock(t) \/ Wake(t)

-----------------------------------------------------------------------------
Init ==
  /\ devices = {} /\ event = {} /\ output = {}
  /\ request = [w \in Requests |-> "none"]
  /\ callbacks = << >>
  /\ others = Nobody
  /\ note = [t \in Threads |-> NoNote]
  /\ loop = [t \in Threads |-> Loop("handle", {}, {})]
  /\ woken = {}

Server(t) == Collect(t) \/ SelectReturns(t) \/ Notifies(t)

Next ==
  \/ \E t \in Threads : Server(t) \/ OtherReturn(t)
  \/ \E p \in Players :
       PlayerSends(p) \/ PlayerMessage(p) \/ WriteToPlayer(p)
  \/ \E w \in Requests : Ask(w) \/ Register(w) \/ Respond(w)
  \/ Page

Spec == Init /\ [][Next]_vars

(* Players keep sending status reports; the two threads keep running and   *)
(* get a mutex that is free again and again.  Nothing is assumed about the *)
(* timeout of select.                                                      *)
Fairness ==
  /\ \A p \in Players : WF_vars(PlayerSends(p)) /\ WF_vars(PlayerMessage(p))
                        /\ WF_vars(WriteToPlayer(p))
  /\ \A w \in Requests : WF_vars(Register(w)) /\ SF_vars(Respond(w))
  /\ \A t \in Threads : WF_vars(Collect(t)) /\ WF_vars(SelectReturns(t))
                        /\ SF_vars(Notifies(t))
  /\ WF_vars(Page)

FairSpec == Spec /\ Fairness

-----------------------------------------------------------------------------
Connections == Requests \cup Players \cup {"page"}

TypeOK ==
  /\ devices \subseteq Players /\ event \subseteq Players /\ output \subseteq Players
  /\ request \in [Requests -> {"none", "asked", "waiting", "ready"}]
  /\ callbacks \in Seq(Requests)
  /\ others \in Threads \cup {Nobody}
  /\ note \in [Threads -> [at : {"none", "lock", "walk", "erase", "wake"},
                           device : Players \cup {Nobody},
                           i : Nat, nrc : BOOLEAN]]
  /\ loop \in [Threads -> [at : {"select", "handle"},
                           reads : SUBSET Connections, writes : SUBSET Connections]]
  /\ woken \subseteq Threads

(* A callback that is registered, or being called, belongs to a request    *)
(* that still exists: the shout thread never deletes the buffer under a    *)
(* notification that is filling it.                                        *)
CallbacksAlive ==
  /\ \A i \in 1 .. Len(callbacks) : request[callbacks[i]] \in {"waiting", "ready"}
  /\ \A t \in Threads :
       At(t, "erase") => /\ note[t].i <= Len(callbacks)
                         /\ request[callbacks[note[t].i]] = "ready"

(* No response depends on the timeout of select: when one is ready and the *)
(* shout thread entered select without it, a connection waits at its port  *)
(* or the thread that filled it is still to connect there.                 *)
NoLostWakeUp ==
  \A w \in Requests :
    request[w] = "ready" /\ loop["shout"].at = "select" /\ w \notin loop["shout"].writes
      => \/ "shout" \in woken
         \/ \E t \in Threads : At(t, "erase") \/ note[t].nrc

(* A page that waits for a registered player is answered, unless its       *)
(* registration was lost in the race with a notification.                  *)
PollAnswered ==
  \A w \in Requests :
    (request[w] = "waiting" /\ w \in ToSet(callbacks) /\ Device[w] \in devices)
      ~> request[w] = "none"

(* "Open/close both servers, to wake them up out of the select() wait"     *)
(* (slimIPC.cpp:752).  The code does not keep that neither thread is left  *)
(* in a select that has nothing to return: the second socket is closed     *)
(* before it is connected.  No run lists this.                             *)
WakesBoth ==
  [][ \A t \in Threads : Wake(t) =>
        \A u \in Threads \ {t} : loop[u].at = "select" => u \in woken' ]_vars
=========================================================================
