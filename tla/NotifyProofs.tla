-------------------------- MODULE NotifyProofs --------------------------
(***************************************************************************)
(* For every set of players and requests, and whatever becomes of a        *)
(* callback that is registered during a notification: no callback outlives *)
(* its request, and no response that became ready is left unseen.          *)
(***************************************************************************)
EXTENDS Notify, SequenceTheorems, TLAPS

(* The mutex is the notifying thread's from its lock to its unlock, and it *)
(* counts the callbacks it called until it has connected.                  *)
Walking(t) == note[t].at \in {"walk", "erase"}

MutexInv ==
  \A t \in Threads : /\ Walking(t) <=> others = t
                     /\ note[t].i \in Nat
                     /\ Walking(t) => note[t].i >= 1
                     /\ note[t].nrc => note[t].at \in {"walk", "erase", "wake"}

(* What the shout thread is about to do fits the request: it registers the *)
(* callback of a request it has not read yet, and sends what can be read.  *)
ShoutInv ==
  \A w \in Requests : /\ w \in loop["shout"].reads => request[w] = "asked"
                      /\ w \in loop["shout"].writes => request[w] = "ready"

(* The loop of unregisterCallback finds a callback at most once.           *)
Once == \A i, j \in 1 .. Len(callbacks) : callbacks[i] = callbacks[j] => i = j

Notes == [at : {"none", "lock", "walk", "erase", "wake"},
          device : Players \cup {Nobody}, i : Nat, nrc : BOOLEAN]

Inv == TypeOK /\ MutexInv /\ ShoutInv /\ Once /\ CallbacksAlive

-----------------------------------------------------------------------------
(* What the two ways of erasing a callback leave.                          *)
LEMMA RemovedAt ==
  ASSUME NEW S, NEW seq \in Seq(S), NEW i \in 1 .. Len(seq)
  PROVE  /\ RemoveAt(seq, i) \in Seq(S)
         /\ Len(RemoveAt(seq, i)) = Len(seq) - 1
         /\ \A j \in 1 .. Len(seq) - 1 :
              RemoveAt(seq, i)[j] = IF j < i THEN seq[j] ELSE seq[j + 1]
<1> DEFINE before == SubSeq(seq, 1, i - 1)
           after  == SubSeq(seq, i + 1, Len(seq))
<1>1. Len(seq) \in Nat
  OBVIOUS
<1>2. /\ before \in Seq(S) /\ Len(before) = i - 1
      /\ \A j \in 1 .. i - 1 : before[j] = seq[j]
  BY <1>1, SubSeqProperties
<1>3. /\ after \in Seq(S) /\ Len(after) = Len(seq) - i
      /\ \A j \in 1 .. Len(seq) - i : after[j] = seq[j + i]
  BY <1>1, SubSeqProperties
<1> HIDE DEF before, after
<1>4. /\ before \o after \in Seq(S)
      /\ Len(before \o after) = Len(before) + Len(after)
      /\ \A j \in 1 .. Len(before) + Len(after) : (before \o after)[j] =
           IF j <= Len(before) THEN before[j] ELSE after[j - Len(before)]
  BY <1>2, <1>3, ConcatProperties, Zenon
<1>5. ASSUME NEW j \in 1 .. Len(seq) - 1
      PROVE  (before \o after)[j] = IF j < i THEN seq[j] ELSE seq[j + 1]
  <2>1. CASE j < i
    BY <1>1, <1>2, <1>3, <1>4, <2>1
  <2>2. CASE j >= i
    <3>1. (before \o after)[j] = after[j - (i - 1)]
      BY <1>1, <1>2, <1>3, <1>4, <2>2
    <3>2. j - (i - 1) \in 1 .. Len(seq) - i /\ (j - (i - 1)) + i = j + 1 /\ ~ (j < i)
      BY <1>1, <2>2
    <3>3. after[j - (i - 1)] = seq[(j - (i - 1)) + i]
      BY <1>3, <3>2
    <3> QED BY <3>1, <3>2, <3>3
  <2>3. j < i \/ j >= i
    BY <1>1
  <2> QED BY <2>1, <2>2, <2>3, Zenon
<1>6. RemoveAt(seq, i) = before \o after
  BY DEF RemoveAt, before, after
<1> QED BY <1>1, <1>2, <1>3, <1>4, <1>5, <1>6

LEMMA RemovedOnce ==
  ASSUME NEW S, NEW seq \in Seq(S), NEW e \in S,
         \A i, j \in 1 .. Len(seq) : seq[i] = seq[j] => i = j
  PROVE  /\ RemoveFirst(seq, e) \in Seq(S)
         /\ \A j \in 1 .. Len(RemoveFirst(seq, e)) :
              /\ RemoveFirst(seq, e)[j] # e
              /\ \E i \in 1 .. Len(seq) : RemoveFirst(seq, e)[j] = seq[i]
         /\ \A i, j \in 1 .. Len(RemoveFirst(seq, e)) :
              RemoveFirst(seq, e)[i] = RemoveFirst(seq, e)[j] => i = j
<1>1. CASE ~ \E i \in 1 .. Len(seq) : seq[i] = e
  BY <1>1 DEF RemoveFirst
<1>2. CASE \E i \in 1 .. Len(seq) : seq[i] = e
  <2>1. PICK k \in 1 .. Len(seq) : seq[k] = e
    BY <1>2
  <2> DEFINE I == {i \in 1 .. Len(seq) : seq[i] = e}
             rest == RemoveFirst(seq, e)
  <2>2. I = {k}
    BY <2>1
  <2>3. Min(I) = k
    BY <2>2 DEF Min
  <2>4. SelectInSeq(seq, LAMBDA v : v = e) = k
    BY <2>2, <2>3 DEF SelectInSeq
  <2>5. rest = RemoveAt(seq, k)
    BY <1>2, <2>4 DEF RemoveFirst
  <2>6. Len(seq) \in Nat
    OBVIOUS
  <2> HIDE DEF rest
  <2>7. /\ rest \in Seq(S) /\ Len(rest) = Len(seq) - 1
        /\ \A j \in 1 .. Len(seq) - 1 :
             rest[j] = IF j < k THEN seq[j] ELSE seq[j + 1]
    BY <2>5, RemovedAt
  <2>8. \A j \in 1 .. Len(rest) :
          rest[j] # e /\ \E i \in 1 .. Len(seq) : rest[j] = seq[i]
    BY <2>1, <2>6, <2>7
  <2>9. \A i, j \in 1 .. Len(rest) : rest[i] = rest[j] => i = j
    BY <2>6, <2>7
  <2> QED BY <2>7, <2>8, <2>9 DEF rest
<1> QED BY <1>1, <1>2

-----------------------------------------------------------------------------
LEMMA TypeOfNote == TypeOK => note \in [Threads -> Notes]
BY DEF TypeOK, Notes

LEMMA InitInv == Init => Inv
<1> SUFFICES ASSUME Init PROVE Inv
  OBVIOUS
<1> USE DEF Init
<1>1. TypeOK
  BY EmptySeq DEF TypeOK, NoNote, Note, Loop
<1>2. MutexInv
  BY NotifyAssumption DEF MutexInv, Walking, NoNote, Note, Threads
<1>3. ShoutInv
  BY DEF ShoutInv, Loop, Threads
<1>4. Once /\ CallbacksAlive
  BY EmptySeq DEF Once, CallbacksAlive, At, NoNote, Note, Threads
<1> QED BY <1>1, <1>2, <1>3, <1>4 DEF Inv

(* The outside and the select loops: neither callbacks nor notes change.   *)
LEMMA OutsideKeepsInv ==
  ASSUME Inv,
         \/ \E w \in Requests : Ask(w)
         \/ \E p \in Players : PlayerSends(p) \/ WriteToPlayer(p)
         \/ \E t \in Threads : Collect(t) \/ SelectReturns(t) \/ OtherReturn(t)
  PROVE  Inv'
<1> USE DEF Inv
<1>1. ASSUME NEW w \in Requests, Ask(w) PROVE Inv'
  <2> USE <1>1 DEF Ask
  <2>1. TypeOK'
    BY DEF TypeOK
  <2>2. MutexInv' /\ Once'
    BY DEF MutexInv, Walking, Once
  <2>3. ShoutInv'
    BY DEF ShoutInv, TypeOK
  <2>4. CallbacksAlive'
    BY DEF CallbacksAlive, At, TypeOK
  <2> QED BY <2>1, <2>2, <2>3, <2>4
<1>2. ASSUME NEW p \in Players, PlayerSends(p) PROVE Inv'
  BY <1>2 DEF PlayerSends, TypeOK, MutexInv, Walking, ShoutInv, Once, CallbacksAlive, At
<1>3. ASSUME NEW p \in Players, WriteToPlayer(p) PROVE Inv'
  <2> USE <1>3 DEF WriteToPlayer, Writes
  <2>1. TypeOK'
    BY DEF TypeOK, Threads
  <2>2. MutexInv' /\ Once' /\ CallbacksAlive'
    BY DEF MutexInv, Walking, Once, CallbacksAlive, At
  <2>3. ShoutInv'
    BY DEF ShoutInv, TypeOK, Threads
  <2> QED BY <2>1, <2>2, <2>3
<1>4. ASSUME NEW t \in Threads, Collect(t) \/ SelectReturns(t) \/ OtherReturn(t) PROVE Inv'
  <2>1. Wants(t) \subseteq Connections /\ Input(t) \cup Pages(t) \subseteq Connections
    BY DEF Wants, Input, Pages, Connections, TypeOK
  <2>2. \E at \in {"select", "handle"}, reads \in SUBSET (Input(t) \cup Pages(t)),
           writes \in {Wants(t), loop[t].writes, {}} :
          loop' = [loop EXCEPT ![t] = Loop(at, reads, writes)]
    <3>1. CASE Collect(t)
      BY <3>1 DEF Collect
    <3>2. CASE SelectReturns(t)
      BY <3>2 DEF SelectReturns
    <3>3. CASE OtherReturn(t)
      BY <3>3 DEF OtherReturn
    <3> QED BY <1>4, <3>1, <3>2, <3>3
  <2>3. PICK at \in {"select", "handle"}, reads \in SUBSET (Input(t) \cup Pages(t)),
             writes \in {Wants(t), loop[t].writes, {}} :
          loop' = [loop EXCEPT ![t] = Loop(at, reads, writes)]
    BY <2>2
  <2>4. /\ woken' \subseteq woken
        /\ UNCHANGED <<devices, event, output, request, callbacks, others, note>>
    BY <1>4 DEF Collect, SelectReturns, OtherReturn
  <2>5. TypeOK'
    <3>1. loop[t].writes \subseteq Connections
      BY DEF TypeOK
    <3> QED BY <2>1, <2>3, <2>4, <3>1 DEF TypeOK, Loop
  <2>6. MutexInv' /\ Once' /\ CallbacksAlive'
    BY <2>4 DEF MutexInv, Walking, Once, CallbacksAlive, At
  <2>7. ShoutInv'
    <3>1. CASE t = "shout"
      <4>1. loop'["shout"].reads = reads /\ loop'["shout"].writes = writes
        BY <2>3, <3>1 DEF Loop, TypeOK, Threads
      <4>2. ASSUME NEW w \in Requests
            PROVE  /\ w \in reads => request[w] = "asked"
                   /\ w \in writes => request[w] = "ready"
        BY <3>1, NotifyAssumption DEF ShoutInv, Wants, Input, Pages
      <4> QED BY <2>4, <4>1, <4>2 DEF ShoutInv
    <3>2. CASE t # "shout"
      BY <2>3, <2>4, <3>2 DEF ShoutInv, TypeOK, Threads
    <3> QED BY <3>1, <3>2
  <2> QED BY <2>5, <2>6, <2>7
<1> QED BY <1>1, <1>2, <1>3, <1>4

(* What a thread handles: a message, a request, a response, a page.        *)
LEMMA HandlersKeepInv ==
  ASSUME Inv,
         \/ \E p \in Players : PlayerMessage(p)
         \/ \E w \in Requests : Register(w) \/ Respond(w)
         \/ Page
  PROVE  Inv'
<1> USE DEF Inv
<1>1. ASSUME NEW p \in Players, PlayerMessage(p) PROVE Inv'
  <2> USE <1>1 DEF PlayerMessage, Reads
  <2>1. TypeOK'
    BY DEF TypeOK, Threads, Note
  <2>2. MutexInv'
    BY DEF MutexInv, Walking, Threads, Note, NoNote, Free, TypeOK
  <2>3. ShoutInv' /\ Once'
    BY DEF ShoutInv, Once, TypeOK, Threads
  <2>4. CallbacksAlive'
    BY DEF CallbacksAlive, At, TypeOK, Threads, Note
  <2> QED BY <2>1, <2>2, <2>3, <2>4
<1>2. ASSUME NEW w \in Requests, Register(w) PROVE Inv'
  <2> USE <1>2 DEF Register, Reads
  <2>1. request[w] = "asked" /\ Len(callbacks) \in Nat
    BY DEF ShoutInv, TypeOK
  <2>2. \A i \in 1 .. Len(callbacks) : callbacks[i] \in Requests /\ callbacks[i] # w
    BY <2>1, ElementOfSeq DEF CallbacksAlive, TypeOK
  <2>3. \/ callbacks' = callbacks
        \/ callbacks' = Append(callbacks, w)
    OBVIOUS
  <2>4. /\ callbacks' \in Seq(Requests)
        /\ Len(callbacks') \in {Len(callbacks), Len(callbacks) + 1}
        /\ \A i \in 1 .. Len(callbacks') :
             callbacks'[i] = IF i <= Len(callbacks) THEN callbacks[i] ELSE w
    BY <2>1, <2>3, AppendProperties DEF TypeOK
  <2>5. TypeOK'
    BY <2>4 DEF TypeOK, Threads
  <2>6. MutexInv'
    BY DEF MutexInv, Walking
  <2>7. ShoutInv'
    BY DEF ShoutInv, TypeOK, Threads
  <2>8. Once'
    BY <2>1, <2>2, <2>4 DEF Once
  <2>9. CallbacksAlive'
    <3>1. \A i \in 1 .. Len(callbacks') : request'[callbacks'[i]] \in {"waiting", "ready"}
      BY <2>1, <2>2, <2>4 DEF CallbacksAlive, TypeOK
    <3>2. ASSUME NEW t \in Threads, At(t, "erase")'
          PROVE  /\ note'[t].i <= Len(callbacks')
                 /\ request'[callbacks'[note'[t].i]] = "ready"
      <4>1. /\ note[t].i \in 1 .. Len(callbacks)
            /\ request[callbacks[note[t].i]] = "ready"
        BY <2>1, <3>2 DEF CallbacksAlive, At, MutexInv, Walking
      <4>2. /\ callbacks'[note[t].i] = callbacks[note[t].i]
            /\ Len(callbacks') >= Len(callbacks)
        BY <2>1, <2>4, <4>1
      <4> QED BY <2>1, <2>2, <2>4, <4>1, <4>2 DEF TypeOK
    <3> QED BY <3>1, <3>2 DEF CallbacksAlive
  <2> QED BY <2>5, <2>6, <2>7, <2>8, <2>9
<1>3. ASSUME NEW w \in Requests, Respond(w) PROVE Inv'
  <2> USE <1>3 DEF Respond, Writes
  <2>1. /\ callbacks' \in Seq(Requests)
        /\ \A j \in 1 .. Len(callbacks') :
             callbacks'[j] # w /\ \E i \in 1 .. Len(callbacks) : callbacks'[j] = callbacks[i]
        /\ \A i, j \in 1 .. Len(callbacks') : callbacks'[i] = callbacks'[j] => i = j
    BY SMTT(30), RemovedOnce DEF TypeOK, Once
  <2>2. \A t \in Threads : ~ At(t, "erase")
    BY NotifyAssumption DEF MutexInv, Walking, At, Threads
  <2>3. TypeOK'
    BY <2>1 DEF TypeOK, Threads
  <2>4. MutexInv'
    BY DEF MutexInv, Walking
  <2>5. ShoutInv'
    BY DEF ShoutInv, TypeOK, Threads
  <2>6. Once'
    BY <2>1 DEF Once
  <2>7. CallbacksAlive'
    <3>1. ASSUME NEW j \in 1 .. Len(callbacks')
          PROVE  request'[callbacks'[j]] \in {"waiting", "ready"}
      <4>1. PICK i \in 1 .. Len(callbacks) : callbacks'[j] = callbacks[i]
        BY <2>1
      <4>2. callbacks[i] \in Requests /\ callbacks[i] # w
        BY <2>1, <4>1, ElementOfSeq DEF TypeOK
      <4> QED BY <4>1, <4>2 DEF CallbacksAlive, TypeOK
    <3>2. \A t \in Threads : ~ At(t, "erase")'
      BY <2>2 DEF At
    <3> QED BY <3>1, <3>2 DEF CallbacksAlive
  <2> QED BY <2>3, <2>4, <2>5, <2>6, <2>7
<1>4. ASSUME Page PROVE Inv'
  <2> USE <1>4 DEF Page, Reads
  <2>1. TypeOK'
    <3>1. CASE UNCHANGED <<output, note>>
      BY ZenonT(30), <3>1 DEF TypeOK, Threads
    <3>2. ASSUME NEW p \in devices, output' = output \cup {p},
                 note' = [note EXCEPT !["shout"] = Note("lock", p, 0, FALSE)]
          PROVE  TypeOK'
      <4>1. p \in Players /\ output' \subseteq Players
        BY <3>2 DEF TypeOK
      <4>2. note' \in [Threads -> Notes]
        BY <3>2, <4>1, TypeOfNote DEF Notes, Threads, Note
      <4>3. loop' \in [Threads -> [at : {"select", "handle"},
                                   reads : SUBSET Connections, writes : SUBSET Connections]]
        BY DEF TypeOK, Threads
      <4>4. UNCHANGED <<devices, event, request, callbacks, others, woken>>
        OBVIOUS
      <4> HIDE <1>4 DEF Page, Reads
      <4> QED BY <4>1, <4>2, <4>3, <4>4 DEF TypeOK, Notes
    <3> QED BY <3>1, <3>2
  <2>2. MutexInv'
    BY DEF MutexInv, Walking, Threads, Note, NoNote, Free, TypeOK
  <2>3. ShoutInv' /\ Once'
    BY DEF ShoutInv, Once, TypeOK, Threads
  <2>4. CallbacksAlive'
    BY DEF CallbacksAlive, At, TypeOK, Threads, Note
  <2> QED BY <2>1, <2>2, <2>3, <2>4
<1> QED BY <1>1, <1>2, <1>3, <1>4

(* The notification.                                                       *)
LEMMA NotificationKeepsInv ==
  ASSUME Inv, NEW t \in Threads, Notifies(t)
  PROVE  Inv'
<1> USE DEF Inv
<1>1. /\ UNCHANGED <<devices, event, output, loop>>
      /\ note[t].i \in Nat /\ Len(callbacks) \in Nat
  BY DEF Notifies, NotifyLock, NotifySkip, NotifyCall, NotifyErase, NotifyUnlock, Wake,
         server, TypeOK, MutexInv
<1>2. CASE NotifyLock(t)
  <2> USE <1>2 DEF NotifyLock
  <2>1. TypeOK'
    <3>1. note' \in [Threads -> Notes]
      BY ZenonT(30), TypeOfNote DEF Notes
    <3> QED BY <1>1, <3>1 DEF TypeOK, Notes
  <2>2. MutexInv'
    BY NotifyAssumption DEF MutexInv, Walking, TypeOK, At, Threads
  <2>3. ShoutInv' /\ Once'
    BY <1>1 DEF ShoutInv, Once
  <2>4. CallbacksAlive'
    BY DEF CallbacksAlive, At, TypeOK
  <2> QED BY <2>1, <2>2, <2>3, <2>4
<1>3. CASE NotifySkip(t)
  <2> USE <1>3 DEF NotifySkip
  <2>1. TypeOK'
    <3>1. note' \in [Threads -> Notes]
      BY <1>1, TypeOfNote DEF Notes
    <3> QED BY <1>1, <3>1 DEF TypeOK, Notes
  <2>2. MutexInv'
    BY <1>1 DEF MutexInv, Walking, TypeOK, At
  <2>3. ShoutInv' /\ Once'
    BY <1>1 DEF ShoutInv, Once
  <2>4. CallbacksAlive'
    BY DEF CallbacksAlive, At, TypeOK
  <2> QED BY <2>1, <2>2, <2>3, <2>4
<1>4. CASE NotifyCall(t)
  <2> DEFINE w == callbacks[note[t].i]
  <2>1. note[t].i \in 1 .. Len(callbacks) /\ w \in Requests /\ request[w] \in {"waiting", "ready"}
    BY <1>1, <1>4, ElementOfSeq DEF NotifyCall, MutexInv, Walking, At, TypeOK, CallbacksAlive
  <2>2. /\ request' = [request EXCEPT ![w] = "ready"]
        /\ note' = [note EXCEPT ![t].at = "erase"]
        /\ UNCHANGED <<callbacks, others, woken>>
        /\ note[t].at = "walk"
    BY <1>4, <2>1 DEF NotifyCall, Goes, At, TypeOK
  <2>3. TypeOK'
    BY ZenonT(30), <1>1, <2>1, <2>2 DEF TypeOK
  <2>4. MutexInv'
    BY <2>2 DEF MutexInv, Walking, TypeOK
  <2>5. ShoutInv' /\ Once'
    BY <1>1, <2>1, <2>2 DEF ShoutInv, Once, TypeOK
  <2>6. CallbacksAlive'
    <3>1. ASSUME NEW i \in 1 .. Len(callbacks)
          PROVE  request'[callbacks[i]] \in {"waiting", "ready"}
      BY <2>1, <2>2, ElementOfSeq DEF CallbacksAlive, TypeOK
    <3>2. ASSUME NEW u \in Threads, At(u, "erase")'
          PROVE  /\ note'[u].i <= Len(callbacks)
                 /\ request'[callbacks[note'[u].i]] = "ready"
      <4>1. CASE u = t
        BY <1>1, <2>1, <2>2, <4>1 DEF TypeOK
      <4>2. CASE u # t
        BY <2>2, <3>2, <4>2 DEF At, MutexInv, Walking, TypeOK
      <4> QED BY <4>1, <4>2
    <3> QED BY <2>2, <3>1, <3>2 DEF CallbacksAlive
  <2> QED BY <2>3, <2>4, <2>5, <2>6
<1>5. CASE NotifyErase(t)
  <2>1. note[t].i \in 1 .. Len(callbacks) /\ note[t].at = "erase"
    BY <1>1, <1>5 DEF NotifyErase, MutexInv, Walking, At, CallbacksAlive
  <2>2. /\ callbacks' \in Seq(Requests)
        /\ Len(callbacks') = Len(callbacks) - 1
        /\ \A j \in 1 .. Len(callbacks) - 1 :
             callbacks'[j] = IF j < note[t].i THEN callbacks[j] ELSE callbacks[j + 1]
    BY <1>5, <2>1, RemovedAt DEF NotifyErase, TypeOK
  <2>3. /\ note' = [note EXCEPT ![t].at = "walk", ![t].nrc = TRUE]
        /\ UNCHANGED <<request, others, woken>>
    BY <1>5 DEF NotifyErase
  <2>4. TypeOK'
    <3>1. note' \in [Threads -> Notes]
      BY ZenonT(30), <2>3, TypeOfNote DEF Notes
    <3> QED BY <1>1, <2>2, <2>3, <3>1 DEF TypeOK, Notes
  <2>5. MutexInv'
    BY <2>1, <2>3 DEF MutexInv, Walking, TypeOK
  <2>6. ShoutInv'
    BY <1>1, <2>3 DEF ShoutInv
  <2>7. Once'
    BY SMTT(30), <1>1, <2>1, <2>2 DEF Once
  <2>8. CallbacksAlive'
    <3>1. ASSUME NEW j \in 1 .. Len(callbacks')
          PROVE  request'[callbacks'[j]] \in {"waiting", "ready"}
      <4>1. PICK k \in 1 .. Len(callbacks) : callbacks'[j] = callbacks[k]
        BY <1>1, <2>1, <2>2
      <4> QED BY <2>3, <4>1 DEF CallbacksAlive
    <3>2. \A u \in Threads : ~ At(u, "erase")'
      BY <2>1, <2>3 DEF At, MutexInv, Walking, TypeOK
    <3> QED BY <3>1, <3>2 DEF CallbacksAlive
  <2> QED BY <2>4, <2>5, <2>6, <2>7, <2>8
<1>6. CASE NotifyUnlock(t)
  <2>1. /\ note[t].at = "walk" /\ others' = Nobody
        /\ UNCHANGED <<request, callbacks, woken>>
    BY <1>6 DEF NotifyUnlock, At
  <2>2. note' = [note EXCEPT ![t] = IF @.nrc THEN [@ EXCEPT !.at = "wake"] ELSE NoNote]
    BY <1>6 DEF NotifyUnlock
  <2>3. TypeOK'
    <3>1. NoNote \in Notes
      BY DEF NoNote, Note, Notes
    <3>2. note' \in [Threads -> Notes]
      BY <2>2, <3>1, TypeOfNote DEF Notes
    <3> QED BY <1>1, <2>1, <3>2 DEF TypeOK, Notes
  <2>4. MutexInv'
    BY <2>1, <2>2, NotifyAssumption DEF MutexInv, Walking, TypeOK, NoNote, Note, Threads
  <2>5. ShoutInv' /\ Once'
    BY <1>1, <2>1 DEF ShoutInv, Once
  <2>6. CallbacksAlive'
    BY <2>1, <2>2 DEF CallbacksAlive, At, TypeOK, NoNote, Note
  <2> QED BY <2>3, <2>4, <2>5, <2>6
<1>7. CASE Wake(t)
  <2> USE <1>7 DEF Wake
  <2>1. TypeOK'
    BY <1>1 DEF TypeOK, NoNote, Note, Threads
  <2>2. MutexInv'
    BY DEF MutexInv, Walking, TypeOK, At, NoNote, Note
  <2>3. ShoutInv' /\ Once'
    BY <1>1 DEF ShoutInv, Once
  <2>4. CallbacksAlive'
    BY DEF CallbacksAlive, At, TypeOK, NoNote, Note
  <2> QED BY <2>1, <2>2, <2>3, <2>4
<1> QED BY <1>2, <1>3, <1>4, <1>5, <1>6, <1>7 DEF Notifies

LEMMA StepKeepsInv == Inv /\ [Next]_vars => Inv'
<1> SUFFICES ASSUME Inv, [Next]_vars PROVE Inv'
  OBVIOUS
<1>1. CASE UNCHANGED vars
  BY <1>1 DEF vars, Inv, TypeOK, MutexInv, Walking, ShoutInv, Once, CallbacksAlive, At
<1>2. CASE Next
  BY <1>2, OutsideKeepsInv, HandlersKeepInv, NotificationKeepsInv DEF Next, Server
<1> QED BY <1>1, <1>2

(* The types of Notify, for all its constants.                             *)
THEOREM TypeCorrect == Spec => []TypeOK
<1>1. Inv => TypeOK
  BY DEF Inv
<1> QED BY <1>1, InitInv, StepKeepsInv, PTL DEF Spec

(* A callback that is registered or being called belongs to a request that *)
(* still exists: notifyClientUpdate never fills a buffer that the shout    *)
(* thread deleted.                                                         *)
THEOREM CallbacksStayAlive == Spec => []CallbacksAlive
<1>1. Inv => CallbacksAlive
  BY DEF Inv
<1> QED BY <1>1, InitInv, StepKeepsInv, PTL DEF Spec

-----------------------------------------------------------------------------
(* NoLostWakeUp needs, beyond the invariant, only that a thread which has  *)
(* counted a callback has not connected yet.                               *)
LEMMA WakeUpKept == Inv /\ NoLostWakeUp /\ [Next]_vars => NoLostWakeUp'
<1> SUFFICES ASSUME Inv, NoLostWakeUp, [Next]_vars PROVE NoLostWakeUp'
  OBVIOUS
<1>t. TypeOK /\ MutexInv
  BY DEF Inv
<1> DEFINE Pending == "shout" \in woken \/ \E t \in Threads : At(t, "erase") \/ note[t].nrc
           Seen(w) == loop["shout"].at = "select" => w \in loop["shout"].writes
<1>1. \A w \in Requests : request[w] = "ready" => Seen(w) \/ Pending
  BY DEF NoLostWakeUp
<1> SUFFICES ASSUME NEW w \in Requests, request'[w] = "ready"
             PROVE  Seen(w)' \/ Pending'
  BY DEF NoLostWakeUp
<1>2. CASE UNCHANGED vars
  BY <1>1, <1>2 DEF vars, At
<1>3. ASSUME NEW v \in Requests, Ask(v) \/ Register(v) \/ Respond(v) PROVE Seen(w)' \/ Pending'
  <2>1. request[w] = "ready" /\ UNCHANGED <<note, woken>>
    BY <1>3, <1>t DEF Ask, Register, Respond, TypeOK
  <2>2. CASE Ask(v)
    BY <1>1, <2>1, <2>2 DEF Ask, At
  <2>3. CASE Register(v)
    <3>1. /\ loop'["shout"].at = loop["shout"].at
          /\ loop'["shout"].writes = loop["shout"].writes
      BY <1>t, <2>3 DEF Register, Reads, TypeOK, Threads
    <3> QED BY <1>1, <2>1, <3>1 DEF At
  <2>4. CASE Respond(v)
    <3>1. loop'["shout"].at = "handle"
      BY <1>t, <2>4 DEF Respond, Writes, TypeOK, Threads
    <3> QED BY <3>1
  <2> QED BY <1>3, <2>2, <2>3, <2>4
<1>4. ASSUME NEW p \in Players, PlayerSends(p) \/ WriteToPlayer(p) \/ PlayerMessage(p)
      PROVE  Seen(w)' \/ Pending'
  <2>1. UNCHANGED <<request, woken>> /\ loop'["shout"] = loop["shout"]
    BY <1>4, <1>t DEF PlayerSends, WriteToPlayer, PlayerMessage, Reads, Writes, TypeOK, Threads
  <2>2. \A t \in Threads : At(t, "erase") \/ note[t].nrc => (At(t, "erase") \/ note[t].nrc)'
    BY <1>4, <1>t DEF PlayerSends, WriteToPlayer, PlayerMessage, Reads, Free, NoNote, Note,
                      At, TypeOK, Threads
  <2> QED BY <1>1, <2>1, <2>2
<1>5. CASE Page
  <2>1. UNCHANGED <<request, woken>>
        /\ loop'["shout"].at = loop["shout"].at /\ loop'["shout"].writes = loop["shout"].writes
    BY <1>5, <1>t DEF Page, Reads, TypeOK, Threads
  <2>2. \A t \in Threads : At(t, "erase") \/ note[t].nrc => (At(t, "erase") \/ note[t].nrc)'
    BY <1>5, <1>t DEF Page, Reads, Free, NoNote, Note, At, TypeOK, Threads
  <2> QED BY <1>1, <2>1, <2>2
<1>6. ASSUME NEW t \in Threads, Collect(t) \/ SelectReturns(t) \/ OtherReturn(t)
      PROVE  Seen(w)' \/ Pending'
  <2>1. request[w] = "ready" /\ UNCHANGED note
    BY <1>6 DEF Collect, SelectReturns, OtherReturn
  <2>2. CASE t = "shout"
    BY <1>6, <1>t, <2>1, <2>2 DEF Collect, SelectReturns, OtherReturn, Wants, Loop, TypeOK, Threads
  <2>3. CASE t # "shout"
    <3>1. loop'["shout"] = loop["shout"] /\ ("shout" \in woken => "shout" \in woken')
      BY <1>6, <1>t, <2>3 DEF Collect, SelectReturns, OtherReturn, TypeOK, Threads
    <3> QED BY <1>1, <2>1, <3>1 DEF At
  <2> QED BY <2>2, <2>3
<1>7. ASSUME NEW t \in Threads, Notifies(t)
      PROVE  Seen(w)' \/ Pending'
  <2>1. UNCHANGED loop /\ woken \subseteq woken' /\ \A u \in Threads \ {t} : note'[u] = note[u]
    BY <1>7, <1>t DEF Notifies, NotifyLock, NotifySkip, NotifyCall, NotifyErase, NotifyUnlock,
                      Wake, server, Goes, TypeOK
  <2>2. CASE NotifyLock(t) \/ NotifySkip(t)
    <3>1. request[w] = "ready"
      BY <2>2 DEF NotifyLock, NotifySkip
    <3>2. At(t, "erase") \/ note[t].nrc => (At(t, "erase") \/ note[t].nrc)'
      <4>1. note[t].at \in {"lock", "walk"} /\ note'[t].nrc = note[t].nrc
        BY <1>t, <2>2 DEF NotifyLock, NotifySkip, At, TypeOK
      <4> QED BY <4>1 DEF At
    <3> QED BY <1>1, <2>1, <3>1, <3>2 DEF At
  <2>3. CASE NotifyCall(t) \/ NotifyErase(t)
    BY <1>t, <2>3 DEF NotifyCall, NotifyErase, Goes, At, TypeOK
  <2>4. CASE NotifyUnlock(t)
    <3>1. request[w] = "ready"
      BY <2>4 DEF NotifyUnlock
    <3>2. At(t, "erase") \/ note[t].nrc => (At(t, "erase") \/ note[t].nrc)'
      BY <1>t, <2>4 DEF NotifyUnlock, At, TypeOK
    <3> QED BY <1>1, <2>1, <3>1, <3>2 DEF At
  <2>5. CASE Wake(t)
    BY <2>5 DEF Wake
  <2> QED BY <1>7, <2>2, <2>3, <2>4, <2>5 DEF Notifies
<1> QED BY <1>2, <1>3, <1>4, <1>5, <1>6, <1>7 DEF Next, Server

(* A response that became ready while the shout thread was in select is in *)
(* that select's sets, or a connection to the thread's port is on its way: *)
(* no answer to a poll waits for select to time out.                       *)
THEOREM NoAnswerSleeps == Spec => []NoLostWakeUp
<1>1. Init => NoLostWakeUp
  BY DEF Init, NoLostWakeUp
<1> QED BY <1>1, InitInv, StepKeepsInv, WakeUpKept, PTL DEF Spec
=========================================================================
