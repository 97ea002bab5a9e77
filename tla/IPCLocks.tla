---------------------------- MODULE IPCLocks ----------------------------
(***************************************************************************)
(* The four mutexes of slimIPC and the two threads that take them.  The    *)
(* slim thread serves the players, the shout thread the web pages; both    *)
(* call slimIPC, which guards the play list with mutex.group, the players  *)
(* with mutex.client, the callbacks of waiting web requests with           *)
(* mutex.others and the configuration with mutex.config.  All four are     *)
(* recursive: their owner may take them again.                             *)
(*                                                                         *)
(* A call is the sequence of what it does to the mutexes and, between      *)
(* them, of the shared data it reads and writes.                           *)
(***************************************************************************)
EXTENDS Integers, Sequences

CONSTANTS
  UnknownDevice,  \* a web page may name a player that is not registered:
                  \* before the first one connects it always does
  Nobody          \* the owner of a free mutex

ASSUME LocksAssumption ==
  /\ UnknownDevice \in BOOLEAN
  /\ Nobody \notin {"slim", "shout"}

VARIABLES
  mutex,   \* owner and depth of each mutex
  script,  \* what is left of the call each thread is in
  kept     \* the mutexes an early return kept

vars == <<mutex, script, kept>>

Threads == {"slim", "shout"}
Mutexes == {"group", "client", "others", "config"}
Data    == {"list", "repeat", "devices", "callbacks", "config"}

Step(what, of) == [what |-> what, of |-> of]
Lock(m)   == Step("lock", m)
Unlock(m) == Step("unlock", m)
Read(d)   == Step("read", d)
Write(d)  == Step("write", d)

Locked(m, body) == <<Lock(m)>> \o body \o <<Unlock(m)>>

-----------------------------------------------------------------------------
(* The calls of slimIPC.  seekList tells the players of the group to stop  *)
(* and to play, and play() reads the list.                                 *)
SeekList ==
  Locked("group", <<Read("repeat"), Write("list"), Read("devices"), Read("list")>>)

SetGroup   == Locked("group", <<Write("list")>>)
AddToGroup == Locked("group", <<Write("list")>>)

(* Replacing the list is followed by a seek to its first entry.            *)
ReplaceList == SetGroup \o SeekList

AddDevice == Locked("client", <<Write("devices")>>)

GetConfig         == Locked("config", <<Write("config")>>)
GetConfigSections == Locked("config", <<Read("config")>>)

(* A callback renders a page, which may list the configuration's sections, *)
(* and is erased from the list afterwards.                                 *)
NotifyClientUpdateNested ==                 \* mutant: takes the players' lock
  Locked("others", Locked("client", <<Read("devices")>>)
                     \o GetConfigSections \o <<Write("callbacks")>>)

NotifyClientUpdate ==
  Locked("others", <<Read("devices")>> \o GetConfigSections \o <<Write("callbacks")>>)

(* registerCallback opens with the unlock it should close with.            *)
RegisterCallback ==
  <<Unlock("others"), Write("callbacks"), Unlock("others")>>

UnregisterCallbackLocks ==                  \* mutant: locks twice
  <<Lock("others"), Write("callbacks"), Lock("others")>>

UnregisterCallback == Locked("others", <<Write("callbacks")>>)

(* setRepeat, called with the negation of what getRepeat read.             *)
ToggleRepeat == <<Read("repeat"), Write("repeat")>>
SetRepeat    == ToggleRepeat \o <<Read("devices")>> \o NotifyClientUpdate

(* setDevice of a registered player, by command; "pause" and "stop" touch  *)
(* nothing that is shared.                                                 *)
SetDevice(command) == Locked("client", <<Read("devices")>> \o command)
PauseDevice  == << >>
PlayDevice   == <<Read("list")>>
VolumeDevice == NotifyClientUpdate
SeekDevice   == SeekList
RepeatDevice == ToggleRepeat

(* The early returns: setDevice of a player nobody registered, setGroup    *)
(* and addToGroup of the group such a player is in.  They return with the  *)
(* mutex.                                                                  *)
SetUnknownDevice == <<Lock("client"), Read("devices")>>
SetUnknownGroup  == <<Lock("group")>>

EarlyReturn(m) == IF m = "client" THEN SetUnknownDevice ELSE SetUnknownGroup

(* A player that says HELO is registered and gets its volume set.          *)
Helo == AddDevice \o VolumeDevice

-----------------------------------------------------------------------------
(* What each thread calls for one message of a player or one web request.  *)
Calls(t) ==
  IF t = "slim"
  THEN {Helo, SeekList, ReplaceList, AddToGroup, SetRepeat, PlayDevice,
        NotifyClientUpdate}
  ELSE {SeekList, ReplaceList, AddToGroup, RegisterCallback, UnregisterCallback,
        GetConfig}
       \cup {SetDevice(c) : c \in {PlayDevice, PauseDevice, VolumeDevice,
                                   SeekDevice, RepeatDevice}}

Busy(t) == script[t] # << >>

Free == [by |-> Nobody, depth |-> 0]

Begin(t) ==
  /\ ~Busy(t)
  /\ \E call \in Calls(t) : script' = [script EXCEPT ![t] = call]
  /\ UNCHANGED <<mutex, kept>>

(* A web page for an unknown player.  Bound: once for each mutex, as it    *)
(* only counts up the depth after that.                                    *)
BeginUnknown ==
  /\ UnknownDevice
  /\ ~Busy("shout")
  /\ \E m \in {"client", "group"} \ kept :
       /\ script' = [script EXCEPT !["shout"] = EarlyReturn(m)]
       /\ kept' = kept \cup {m}
  /\ UNCHANGED mutex

(* A recursive mutex is taken when it is free or already the caller's.     *)
CanLock(t, m) == mutex[m].by \in {Nobody, t}

Acquire(t) ==
  /\ Busy(t) /\ Head(script[t]).what = "lock"
  /\ LET m == Head(script[t]).of
     IN  /\ CanLock(t, m)
         /\ mutex' = [mutex EXCEPT ![m] = [by |-> t, depth |-> @.depth + 1]]
  /\ script' = [script EXCEPT ![t] = Tail(@)]
  /\ UNCHANGED kept

(* Unlocking a mutex that is not the caller's fails, and nobody looks.     *)

Release(t) ==
  /\ Busy(t) /\ Head(script[t]).what = "unlock"
  /\ LET m == Head(script[t]).of
     IN  mutex' = IF mutex[m].by # t THEN mutex
                  ELSE [mutex EXCEPT ![m] = IF @.depth = 1 THEN Free
                                            ELSE [@ EXCEPT !.depth = @ - 1]]
  /\ script' = [script EXCEPT ![t] = Tail(@)]
  /\ UNCHANGED kept

Access(t) ==
  /\ Busy(t) /\ Head(script[t]).what \in {"read", "write"}
  /\ script' = [script EXCEPT ![t] = Tail(@)]
  /\ UNCHANGED <<mutex, kept>>

Proceed(t) == Acquire(t) \/ Release(t) \/ Access(t)

Init ==
  /\ mutex  = [m \in Mutexes |-> Free]
  /\ script = [t \in Threads |-> << >>]
  /\ kept   = {}

Next ==
  \/ \E t \in Threads : Begin(t) \/ Proceed(t)
  \/ BeginUnknown

(* A thread goes on with its call, and one that waits for a mutex gets it  *)
(* if the mutex becomes free again and again.                              *)
Fairness == \A t \in Threads : SF_vars(Proceed(t))

Spec == Init /\ [][Next]_vars /\ Fairness

-----------------------------------------------------------------------------
(* The types; a mutex is never taken more than four deep.                  *)
TypeOK ==
  /\ \A m \in Mutexes :
       \/ mutex[m] = Free
       \/ mutex[m].by \in Threads /\ mutex[m].depth \in 1 .. 4
  /\ \A t \in Threads : Len(script[t]) <= 13
  /\ kept \subseteq {"client", "group"}

Waiting(t) ==
  /\ Busy(t) /\ Head(script[t]).what = "lock"
  /\ ~CanLock(t, Head(script[t]).of)

(* Nobody is stuck but behind a call for an unknown player: whoever waits  *)
(* for any other mutex waits for a thread that is in a call and can go on  *)
(* with it.  It takes both that no two calls take two mutexes in opposite  *)
(* orders, also inside what an early return kept, and that every other     *)
(* call gives back what it took.  "the IPC block will provide the mutexes  *)
(* for safe multi-threading" (main.cpp:162).                               *)
NobodyStuck ==
  \A t \in Threads :
    Waiting(t) => LET m     == Head(script[t]).of
                      owner == mutex[m].by
                  IN  m \in kept \/ (Busy(owner) /\ ~Waiting(owner))

(* The threads whose next step does `what` to d.                           *)
At(what, d) == {t \in Threads : Busy(t) /\ Head(script[t]) = Step(what, d)}

Exclusive(d) ==
  \A t \in At("write", d) : \A u \in At("write", d) \cup At("read", d) : t = u

(* "pthread_mutex_t group; //all playlist changes" (slimIPC.hpp:201): the  *)
(* entries and the position of the list are never changed by both threads  *)
(* at once.                                                                *)
ListChangesExclusive == \A t, u \in At("write", "list") : t = u

(* Every call returns, as long as no early return kept a mutex.            *)
EveryCallReturns == \A t \in Threads : Busy(t) ~> (~Busy(t) \/ kept # {})

(* The code does not keep "the mutexes for safe multi-threading"           *)
(* (main.cpp:162) for all data: registerCallback, the walks of devices,    *)
(* the repeat flag and the list in play() take no mutex, or another one.   *)
(* No run lists this.                                                      *)
SharedExclusive == \A d \in Data : Exclusive(d)
===========================================================================
