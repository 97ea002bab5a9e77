------------------------- MODULE SessionsProofs -------------------------
(***************************************************************************)
(* For any connections to the two servers, and any table of descriptors    *)
(* with a number for each of them and for each thread: every number in use *)
(* is accounted for.                                                       *)
(***************************************************************************)
EXTENDS Sessions, SequenceTheorems, FiniteSetTheorems, WellFoundedInduction, TLAPS

(* A session has a number while it is open, and only what has ended can    *)
(* have left one behind; a thread has one from socket() to its last close. *)
HoldersInv ==
  /\ \A s \in Sessions : number[s] # None <=> stage[s] = "open"
  /\ \A s \in broken : stage[s] = "gone"
  /\ \A t \in Threads : note[t].n # None <=> note[t].do \notin {"nothing", "socket"}

(* No session has left more than one number behind.                        *)
LeftOnce ==
  \A m, n \in Numbers : table[m] \in Sessions /\ table[m] = table[n] => m = n

Inv == TypeOK /\ HoldersInv /\ LeftOnce /\ NumbersAccounted

-----------------------------------------------------------------------------
(* The least-number principle, for Min.                                    *)
LEMMA LeastNumber ==
  ASSUME NEW S, S \subseteq Nat, S # {}
  PROVE  Min(S) \in S /\ \A n \in S : Min(S) <= n
<1> DEFINE R == OpToRel(<, Nat)
<1>1. IsWellFoundedOn(R, Nat)
  BY NatLessThanWellFounded
<1>2. \A m, n \in Nat : <<n, m>> \in R <=> n < m
  BY DEF OpToRel
<1> HIDE DEF R
<1>3. \E m \in S : \A n \in S : ~ (<<n, m>> \in R)
  BY <1>1, WFMin
<1>4. PICK m \in S : \A n \in S : ~ (<<n, m>> \in R)
  BY <1>3
<1>5. ASSUME NEW n \in S PROVE m <= n
  <2>1. m \in Nat /\ n \in Nat
    OBVIOUS
  <2>2. ~ (n < m)
    BY <1>2, <1>4, <2>1, Zenon
  <2> QED BY <2>1, <2>2
<1> QED BY <1>5 DEF Min

(* There are numbers for all: no session and no thread holds two, so that  *)
(* one who holds none finds a number, and takes the least.                 *)
LEMMA NumberFound ==
  ASSUME Inv, NEW x \in Sessions \cup Threads, \A n \in Numbers : table[n] # x
  PROVE  Min(Free) \in Numbers /\ table[Min(Free)] = None
<1> DEFINE Others == (Sessions \cup Threads) \ {x}
<1>1. IsFiniteSet(Threads) /\ Cardinality(Threads) = 2
  <2>1. IsFiniteSet({"slim"}) /\ Cardinality({"slim"}) = 1
    BY FS_Singleton
  <2>2. IsFiniteSet({"slim"} \cup {"shout"}) /\ Cardinality({"slim"} \cup {"shout"}) = 2
    BY <2>1, FS_AddElement
  <2>3. Threads = {"slim"} \cup {"shout"}
    BY DEF Threads
  <2> QED BY <2>2, <2>3
<1>2. Cardinality(Sessions) \in Nat /\ Cardinality(Numbers) \in Nat
  BY FS_CardinalityType, SessionsAssumption
<1>3. IsFiniteSet(Sessions \cup Threads)
      /\ Cardinality(Sessions \cup Threads) = Cardinality(Sessions) + 2
  <2>1. IsFiniteSet(Sessions \cup Threads) /\ Cardinality(Sessions \cup Threads) =
          Cardinality(Sessions) + Cardinality(Threads) - Cardinality(Sessions \cap Threads)
    BY <1>1, FS_Union, SessionsAssumption
  <2>2. Cardinality(Sessions \cap Threads) = 0
    BY FS_EmptySet, SessionsAssumption
  <2> QED BY <1>1, <1>2, <2>1, <2>2
<1>4. IsFiniteSet(Others) /\ Cardinality(Others) = Cardinality(Sessions) + 1
  BY <1>2, <1>3, FS_RemoveElement
<1>5. Free # {}
  <2> SUFFICES ASSUME Free = {} PROVE FALSE
    OBVIOUS
  <2>1. table \in [Numbers -> Others]
    BY DEF Inv, TypeOK, Free
  <2>2. Cardinality(Others) < Cardinality(Numbers)
    BY <1>2, <1>4, SessionsAssumption
  <2>f. IsFiniteSet(Numbers) /\ IsFiniteSet(Others)
    BY <1>4, SessionsAssumption
  <2> HIDE DEF Others
  <2>3. \E m, n \in Numbers : m # n /\ table[m] = table[n]
    BY <2>f, <2>1, <2>2, FS_PigeonHole, Zenon
  <2>4. PICK m, n \in Numbers : m # n /\ table[m] = table[n]
    BY <2>3
  <2>5. table[m] \in Threads
    BY <2>1, <2>4 DEF Others, Inv, LeftOnce
  <2>6. note[table[m]].n = m /\ note[table[m]].n = n
    BY <2>4, <2>5 DEF Inv, NumbersAccounted
  <2> QED BY <2>4, <2>6
<1>6. Free \subseteq Nat
  BY SessionsAssumption DEF Free
<1>7. Min(Free) \in Free
  BY <1>5, <1>6, LeastNumber
<1> QED BY <1>7 DEF Free

-----------------------------------------------------------------------------
LEMMA InitInv == Init => Inv
<1> SUFFICES ASSUME Init PROVE Inv
  OBVIOUS
<1>1. TypeOK
  BY EmptySeq, SessionsAssumption DEF Init, TypeOK, NoNote
<1>2. HoldersInv
  BY DEF Init, HoldersInv, NoNote
<1>3. LeftOnce /\ NumbersAccounted
  BY SessionsAssumption DEF Init, LeftOnce, NumbersAccounted
<1> QED BY <1>1, <1>2, <1>3 DEF Inv

(* A connection comes, is accepted, and ends.                              *)
LEMMA ConnectKeepsInv ==
  ASSUME Inv, NEW s \in Sessions, Connect(s)
  PROVE  Inv'
<1> USE DEF Inv, Connect
<1>1. TypeOK'
  BY DEF TypeOK, sockets
<1>2. HoldersInv'
  BY DEF HoldersInv, TypeOK, sockets
<1>3. LeftOnce' /\ NumbersAccounted'
  BY DEF LeftOnce, NumbersAccounted, TypeOK, sockets
<1> QED BY <1>1, <1>2, <1>3

LEMMA AcceptKeepsInv ==
  ASSUME Inv, NEW s \in Sessions, Accept(s)
  PROVE  Inv'
<1> DEFINE n == Min(Free)
<1>1. stage[s] = "queued" /\ \A m \in Numbers : table[m] # s
  BY DEF Accept, Inv, NumbersAccounted, HoldersInv
<1>2. n \in Numbers /\ table[n] = None
  BY <1>1, NumberFound
<1>3. /\ stage' = [stage EXCEPT ![s] = "open"]
      /\ number' = [number EXCEPT ![s] = n]
      /\ table' = [table EXCEPT ![n] = s]
      /\ UNCHANGED <<hello, devices, note, cut, broken, trap>>
  BY DEF Accept
<1> HIDE DEF n
<1>4. n # None /\ None \notin Sessions /\ s \notin Threads
  BY <1>2, SessionsAssumption
<1>5. TypeOK'
  BY <1>2, <1>3 DEF Inv, TypeOK
<1>6. HoldersInv'
  BY <1>1, <1>2, <1>3, <1>4 DEF Inv, HoldersInv, TypeOK
<1>7. LeftOnce'
  BY <1>1, <1>2, <1>3, <1>4 DEF Inv, LeftOnce, TypeOK
<1>8. NumbersAccounted'
  <2>1. ASSUME NEW r \in Sessions, stage'[r] = "open"
        PROVE  table'[number'[r]] = r \/ r \in cut'
    <3>1. CASE r = s
      BY <1>2, <1>3, <3>1 DEF Inv, TypeOK
    <3>2. CASE r # s
      <4>1. stage[r] = "open" /\ number'[r] = number[r] /\ number[r] \in Numbers
        BY <1>3, <2>1, <3>2 DEF Inv, TypeOK, HoldersInv
      <4>2. table[number[r]] = r \/ r \in cut
        BY <4>1 DEF Inv, NumbersAccounted
      <4> QED BY <1>2, <1>3, <1>4, <4>1, <4>2 DEF Inv, TypeOK
    <3> QED BY <3>1, <3>2
  <2>2. ASSUME NEW m \in Numbers, table'[m] \in Threads
        PROVE  note'[table'[m]].n = m
    BY <1>2, <1>3, <1>4, <2>2 DEF Inv, TypeOK, NumbersAccounted
  <2>3. ASSUME NEW m \in Numbers, table'[m] \in Sessions
        PROVE  \/ stage'[table'[m]] = "open" /\ number'[table'[m]] = m
               \/ table'[m] \in broken'
    <3>1. CASE m = n
      BY <1>2, <1>3, <3>1 DEF Inv, TypeOK
    <3>2. CASE m # n
      <4>1. table'[m] = table[m] /\ table[m] # s
        BY <1>1, <1>2, <1>3, <3>2 DEF Inv, TypeOK
      <4> QED BY <1>3, <2>3, <4>1 DEF Inv, TypeOK, NumbersAccounted
    <3> QED BY <3>1, <3>2
  <2> QED BY <2>1, <2>2, <2>3 DEF NumbersAccounted
<1> QED BY <1>5, <1>6, <1>7, <1>8 DEF Inv

LEMMA FailKeepsInv ==
  ASSUME Inv, NEW s \in Sessions, Fail(s)
  PROVE  Inv'
<1> USE DEF Inv
<1>1. /\ stage[s] = "open" /\ stage' = [stage EXCEPT ![s] = "gone"]
      /\ number' = [number EXCEPT ![s] = None]
      /\ broken' = broken \cup {s}
      /\ UNCHANGED <<table, cut, hello, devices, note, trap>>
  BY DEF Fail
<1>2. TypeOK'
  BY <1>1 DEF TypeOK
<1>3. HoldersInv'
  BY <1>1 DEF HoldersInv, TypeOK
<1>4. LeftOnce'
  BY <1>1 DEF LeftOnce
<1>5. NumbersAccounted'
  BY <1>1 DEF NumbersAccounted, TypeOK
<1> QED BY <1>2, <1>3, <1>4, <1>5

(* What the close of a number that is in use does to the others.           *)
LEMMA ClosedNumber ==
  ASSUME Inv, NEW n \in Numbers, NEW by, Close(n, by)
  PROVE  /\ table' \in [Numbers -> Sessions \cup Threads \cup {None}]
         /\ cut' \subseteq Sessions
         /\ \A m \in Numbers : table'[m] = IF m = n THEN None ELSE table[m]
         /\ \A r \in Sessions : r \in cut \/ (table[n] = r /\ r # by) => r \in cut'
BY DEF Inv, TypeOK, Close

LEMMA EndKeepsInv ==
  ASSUME Inv, NEW s \in Sessions, End(s)
  PROVE  Inv'
<1> DEFINE n == number[s]
<1>1. /\ stage[s] = "open" /\ stage' = [stage EXCEPT ![s] = "gone"]
      /\ number' = [number EXCEPT ![s] = None]
      /\ Close(n, s)
      /\ UNCHANGED <<hello, devices, note, broken, trap>>
  BY DEF End
<1>2. n \in Numbers
  BY <1>1 DEF Inv, TypeOK, HoldersInv
<1> HIDE DEF n
<1>3. /\ table' \in [Numbers -> Sessions \cup Threads \cup {None}]
      /\ cut' \subseteq Sessions
      /\ \A m \in Numbers : table'[m] = IF m = n THEN None ELSE table[m]
      /\ \A r \in Sessions : r \in cut \/ (table[n] = r /\ r # s) => r \in cut'
  BY <1>1, <1>2, ClosedNumber
<1>n. None \notin Sessions \cup Threads
  BY SessionsAssumption
<1>4. TypeOK'
  BY <1>1, <1>3 DEF Inv, TypeOK
<1>5. HoldersInv'
  BY <1>1 DEF Inv, HoldersInv, TypeOK
<1>6. LeftOnce'
  BY <1>3, <1>n DEF Inv, LeftOnce
<1>7. NumbersAccounted'
  <2>1. ASSUME NEW r \in Sessions, stage'[r] = "open"
        PROVE  table'[number'[r]] = r \/ r \in cut'
    <3>1. r # s /\ stage[r] = "open" /\ number'[r] = number[r] /\ number[r] \in Numbers
      BY <1>1, <2>1 DEF Inv, TypeOK, HoldersInv
    <3>2. table[number[r]] = r \/ r \in cut
      BY <3>1 DEF Inv, NumbersAccounted
    <3> QED BY <1>3, <3>1, <3>2
  <2>2. ASSUME NEW m \in Numbers, table'[m] \in Threads
        PROVE  note'[table'[m]].n = m
    BY <1>1, <1>3, <1>n, <2>2 DEF Inv, NumbersAccounted
  <2>3. ASSUME NEW m \in Numbers, table'[m] \in Sessions
        PROVE  \/ stage'[table'[m]] = "open" /\ number'[table'[m]] = m
               \/ table'[m] \in broken'
    <3>1. m # n /\ table'[m] = table[m]
      BY <1>3, <1>n, <2>3
    <3>2. table[m] # s
      BY <1>1, <2>3, <3>1 DEF Inv, NumbersAccounted, HoldersInv, n
    <3> QED BY <1>1, <2>3, <3>1, <3>2 DEF Inv, TypeOK, NumbersAccounted
  <2> QED BY <2>1, <2>2, <2>3 DEF NumbersAccounted
<1> QED BY <1>4, <1>5, <1>6, <1>7 DEF Inv

-----------------------------------------------------------------------------
(* A thread that starts a notification, or ends one for nobody, has no     *)
(* number before and after.                                                *)
LEMMA NoteKeepsInv ==
  ASSUME Inv, NEW t \in Threads, NEW to \in {"nothing", "socket"},
         note[t].do \in {"nothing", "socket"},
         note' = [note EXCEPT ![t] = [do |-> to, n |-> None]],
         UNCHANGED <<stage, number, table, cut, broken>>
  PROVE  HoldersInv' /\ LeftOnce' /\ NumbersAccounted'
<1> USE DEF Inv
<1>1. HoldersInv' /\ LeftOnce'
  BY DEF HoldersInv, LeftOnce, TypeOK
<1>2. note[t].n = None /\ None \notin Numbers
  BY SessionsAssumption DEF HoldersInv
<1>3. ASSUME NEW n \in Numbers, table[n] \in Threads PROVE note'[table[n]].n = n
  BY <1>2, <1>3 DEF NumbersAccounted, TypeOK
<1>4. NumbersAccounted'
  BY <1>3 DEF NumbersAccounted
<1> QED BY <1>1, <1>4

(* HELO, a report of a player, a page that sets a volume.                  *)
LEMMA HandlersKeepInv ==
  ASSUME Inv,
         \/ \E s \in PlayerSessions : Hello(s) \/ Report(s)
         \/ \E s \in PageSessions, name \in {Name[p] : p \in PlayerSessions} : SetVolume(s, name)
  PROVE  Inv'
<1> USE DEF Inv
<1>1. \E t \in Threads : note[t].do = "nothing" /\ Notified(t)
  BY DEF Hello, Report, SetVolume, Runs, Threads
<1>2. UNCHANGED <<stage, sockets>>
  BY DEF Hello, Report, SetVolume
<1>3. HoldersInv' /\ LeftOnce' /\ NumbersAccounted'
  BY <1>1, <1>2, NoteKeepsInv DEF Notified, sockets
<1>4. note' \in [Threads -> [do : {"nothing", "socket", "connect", "close",
                                   "close again", "~Socket"},
                             n : Numbers \cup {None}]]
  <2>1. PICK t \in Threads : Notified(t)
    BY <1>1
  <2>2. note' = [note EXCEPT ![t] = [do |-> "socket", n |-> None]]
    BY <2>1 DEF Notified
  <2> QED BY <2>2 DEF TypeOK
<1>d. devices \in Seq(PlayerSessions) /\ Len(devices) <= MaxEntries
  BY DEF TypeOK
<1>5. ASSUME NEW s \in PlayerSessions, Hello(s) PROVE TypeOK'
  <2>1. devices' = Append(devices, s) /\ hello' = hello \cup {s} /\ UNCHANGED trap
        /\ Len(devices) < MaxEntries
    BY <1>5 DEF Hello
  <2>2. Len(devices) \in Nat /\ DOMAIN devices = 1 .. Len(devices) /\ MaxEntries \in Nat
    BY <1>d, LenProperties, SessionsAssumption
  <2>3. devices' \in Seq(PlayerSessions) /\ Len(devices') = Len(devices) + 1
    BY <1>d, <2>1, <2>2, AppendProperties
  <2>4. Len(devices') <= MaxEntries
    BY <2>1, <2>2, <2>3
  <2>5. hello' \subseteq PlayerSessions
    BY <2>1 DEF TypeOK
  <2> QED BY <1>2, <1>4, <2>1, <2>3, <2>4, <2>5 DEF TypeOK, sockets
<1>6. ASSUME NEW s \in PlayerSessions, Report(s) PROVE TypeOK'
  <2>1. UNCHANGED <<hello, devices>> /\ trap' \in {trap, "no list", "deleted handler"}
    BY <1>6 DEF Report, Reach
  <2> QED BY <1>2, <1>4, <2>1 DEF TypeOK, sockets
<1>7. ASSUME NEW s \in PageSessions, NEW name, SetVolume(s, name) PROVE TypeOK'
  <2>1. UNCHANGED <<hello, devices>> /\ trap' \in {trap, "deleted handler"}
    BY <1>7 DEF SetVolume, Reach
  <2> QED BY <1>2, <1>4, <2>1 DEF TypeOK, sockets
<1> QED BY <1>3, <1>5, <1>6, <1>7

(* The steps of a notification.                                            *)
LEMMA OpenSocketKeepsInv ==
  ASSUME Inv, NEW t \in Threads, OpenSocket(t)
  PROVE  Inv'
<1> DEFINE n == Min(Free)
<1>1. note[t].n = None /\ None \notin Numbers \cup Sessions \cup Threads
  BY SessionsAssumption DEF OpenSocket, Does, Inv, HoldersInv
<1>2. n \in Numbers /\ table[n] = None
  <2>1. \A m \in Numbers : table[m] # t
    BY <1>1 DEF Inv, NumbersAccounted
  <2> QED BY <2>1, NumberFound
<1>3. /\ note' = [note EXCEPT ![t] = [do |-> "connect", n |-> n]]
      /\ table' = [table EXCEPT ![n] = t]
      /\ UNCHANGED <<stage, number, cut, broken, hello, devices, trap>>
  BY DEF OpenSocket
<1> HIDE DEF n
<1>t. t \notin Sessions
  BY SessionsAssumption
<1>4. TypeOK'
  BY <1>2, <1>3 DEF Inv, TypeOK
<1>5. HoldersInv'
  BY <1>1, <1>2, <1>3 DEF Inv, HoldersInv, TypeOK
<1>6. LeftOnce'
  BY <1>2, <1>3, <1>t DEF Inv, LeftOnce, TypeOK
<1>7. NumbersAccounted'
  <2>1. ASSUME NEW r \in Sessions, stage'[r] = "open"
        PROVE  table'[number'[r]] = r \/ r \in cut'
    <3>1. number[r] \in Numbers /\ r # None
      BY <1>1, <1>3, <2>1 DEF Inv, TypeOK, HoldersInv
    <3> QED BY <1>2, <1>3, <2>1, <3>1 DEF Inv, TypeOK, NumbersAccounted
  <2>2. ASSUME NEW m \in Numbers, table'[m] \in Threads
        PROVE  note'[table'[m]].n = m
    <3>1. CASE m = n
      BY <1>2, <1>3, <3>1 DEF Inv, TypeOK
    <3>2. CASE m # n
      <4>1. table'[m] = table[m] /\ note[table[m]].n = m
        BY <1>2, <1>3, <2>2, <3>2 DEF Inv, TypeOK, NumbersAccounted
      <4>2. table[m] # t
        BY <1>1, <4>1
      <4> QED BY <1>3, <2>2, <4>1, <4>2 DEF Inv, TypeOK
    <3> QED BY <3>1, <3>2
  <2>3. ASSUME NEW m \in Numbers, table'[m] \in Sessions
        PROVE  \/ stage'[table'[m]] = "open" /\ number'[table'[m]] = m
               \/ table'[m] \in broken'
    <3>1. table'[m] = table[m]
      BY <1>2, <1>3, <1>t, <2>3 DEF Inv, TypeOK
    <3> QED BY <1>3, <2>3, <3>1 DEF Inv, NumbersAccounted
  <2> QED BY <2>1, <2>2, <2>3 DEF NumbersAccounted
<1> QED BY <1>4, <1>5, <1>6, <1>7 DEF Inv

LEMMA CloseSocketKeepsInv ==
  ASSUME Inv, NEW t \in Threads, CloseSocket(t)
  PROVE  Inv'
<1> DEFINE n == note[t].n
<1>1. /\ note[t].do \in {"close", "close again", "~Socket"}
      /\ Close(n, t)
      /\ UNCHANGED <<stage, number, broken, hello, devices, trap>>
  BY DEF CloseSocket, Does
<1>2. n \in Numbers
  BY <1>1 DEF Inv, TypeOK, HoldersInv
<1>3. \/ \E next \in {"close again", "~Socket"} :
            note' = [note EXCEPT ![t] = [do |-> next, n |-> n]]
      \/ note' = [note EXCEPT ![t] = [do |-> "nothing", n |-> None]]
  <2>1. note[t] = [do |-> note[t].do, n |-> n]
    BY DEF Inv, TypeOK
  <2> QED BY <1>1, <2>1 DEF CloseSocket, NoNote
<1> HIDE DEF n
<1>4. /\ table' \in [Numbers -> Sessions \cup Threads \cup {None}]
      /\ cut' \subseteq Sessions
      /\ \A m \in Numbers : table'[m] = IF m = n THEN None ELSE table[m]
      /\ \A r \in Sessions : r \in cut \/ (table[n] = r /\ r # t) => r \in cut'
  BY <1>1, <1>2, ClosedNumber
<1>n. None \notin Sessions \cup Threads \cup Numbers /\ t \notin Sessions
  BY SessionsAssumption
<1>5. note' \in [Threads -> [do : {"nothing", "socket", "connect", "close",
                                   "close again", "~Socket"},
                             n : Numbers \cup {None}]]
  <2>1. \E do \in {"close again", "~Socket", "nothing"}, m \in Numbers \cup {None} :
          note' = [note EXCEPT ![t] = [do |-> do, n |-> m]]
    BY <1>2, <1>3
  <2>2. PICK do \in {"close again", "~Socket", "nothing"}, m \in Numbers \cup {None} :
          note' = [note EXCEPT ![t] = [do |-> do, n |-> m]]
    BY <2>1
  <2> QED BY <2>2 DEF Inv, TypeOK
<1>6. TypeOK' /\ HoldersInv'
  <2>1. TypeOK'
    BY <1>1, <1>4, <1>5 DEF Inv, TypeOK
  <2>2. ASSUME NEW u \in Threads
        PROVE  note'[u].n # None <=> note'[u].do \notin {"nothing", "socket"}
    <3>1. CASE u = t
      <4>1. \/ note'[t].do \in {"close again", "~Socket"} /\ note'[t].n = n
            \/ note'[t].do = "nothing" /\ note'[t].n = None
        <5>1. note \in [Threads -> [do : {"nothing", "socket", "connect", "close",
                                          "close again", "~Socket"},
                                    n : Numbers \cup {None}]]
          BY DEF Inv, TypeOK
        <5>2. CASE note' = [note EXCEPT ![t] = [do |-> "nothing", n |-> None]]
          BY <5>1, <5>2
        <5>3. ASSUME NEW next \in {"close again", "~Socket"},
                     note' = [note EXCEPT ![t] = [do |-> next, n |-> n]]
              PROVE  note'[t].do \in {"close again", "~Socket"} /\ note'[t].n = n
          BY <5>1, <5>3
        <5> QED BY <1>3, <5>2, <5>3
      <4> QED BY <1>2, <1>n, <3>1, <4>1
    <3>2. CASE u # t
      BY <1>3, <3>2 DEF Inv, TypeOK, HoldersInv
    <3> QED BY <3>1, <3>2
  <2>3. HoldersInv'
    BY <1>1, <2>2 DEF Inv, HoldersInv
  <2> QED BY <2>1, <2>3
<1>7. LeftOnce'
  BY <1>4, <1>n DEF Inv, LeftOnce
<1>8. NumbersAccounted'
  <2>1. ASSUME NEW r \in Sessions, stage'[r] = "open"
        PROVE  table'[number'[r]] = r \/ r \in cut'
    <3>1. stage[r] = "open" /\ number'[r] = number[r] /\ number[r] \in Numbers /\ r # t
      BY <1>1, <1>n, <2>1 DEF Inv, TypeOK, HoldersInv
    <3>2. table[number[r]] = r \/ r \in cut
      BY <3>1 DEF Inv, NumbersAccounted
    <3> QED BY <1>4, <3>1, <3>2
  <2>2. ASSUME NEW m \in Numbers, table'[m] \in Threads
        PROVE  note'[table'[m]].n = m
    <3>1. m # n /\ table'[m] = table[m] /\ note[table[m]].n = m
      BY <1>4, <1>n, <2>2 DEF Inv, NumbersAccounted
    <3>2. table[m] # t
      BY <3>1 DEF n
    <3> QED BY <1>3, <2>2, <3>1, <3>2 DEF Inv, TypeOK
  <2>3. ASSUME NEW m \in Numbers, table'[m] \in Sessions
        PROVE  \/ stage'[table'[m]] = "open" /\ number'[table'[m]] = m
               \/ table'[m] \in broken'
    <3>1. m # n /\ table'[m] = table[m]
      BY <1>4, <1>n, <2>3
    <3> QED BY <1>1, <2>3, <3>1 DEF Inv, NumbersAccounted
  <2> QED BY <2>1, <2>2, <2>3 DEF NumbersAccounted
<1> QED BY <1>6, <1>7, <1>8 DEF Inv

LEMMA WakeKeepsInv ==
  ASSUME Inv, NEW t \in Threads, NoCallback(t) \/ WakeShout(t)
  PROVE  Inv'
<1> USE DEF Inv
<1>1. CASE NoCallback(t)
  <2>1. note[t].do = "socket" /\ note' = [note EXCEPT ![t] = [do |-> "nothing", n |-> None]]
        /\ UNCHANGED <<stage, number, table, cut, broken, hello, devices, trap>>
    BY <1>1 DEF NoCallback, Does, NoNote, sockets
  <2>2. HoldersInv' /\ LeftOnce' /\ NumbersAccounted'
    BY <2>1, NoteKeepsInv
  <2>3. TypeOK'
    BY <2>1 DEF TypeOK
  <2> QED BY <2>2, <2>3
<1>2. CASE WakeShout(t)
  <2>1. /\ note[t].do = "connect" /\ note' = [note EXCEPT ![t].do = "close"]
        /\ UNCHANGED <<number, table, cut, broken, hello, devices, trap>>
    BY <1>2 DEF WakeShout, Does, sockets
  <2>2. /\ stage' \in [Sessions -> {"away", "queued", "open", "gone"}]
        /\ \A s \in Sessions : stage'[s] = stage[s]
                               \/ (stage[s] = "away" /\ stage'[s] = "queued")
    BY <1>2 DEF WakeShout, TypeOK, Sessions
  <2>3. TypeOK'
    BY <2>1, <2>2 DEF TypeOK
  <2>4. HoldersInv'
    BY ZenonT(30), <2>1, <2>2 DEF HoldersInv, TypeOK
  <2>5. LeftOnce' /\ NumbersAccounted'
    BY ZenonT(30), <2>1, <2>2 DEF LeftOnce, NumbersAccounted, TypeOK
  <2> QED BY <2>3, <2>4, <2>5
<1> QED BY <1>1, <1>2

LEMMA StepKeepsInv == Inv /\ [Next]_vars => Inv'
<1> SUFFICES ASSUME Inv, [Next]_vars PROVE Inv'
  OBVIOUS
<1>1. CASE UNCHANGED vars
  BY <1>1 DEF vars, sockets, Inv, TypeOK, HoldersInv, LeftOnce, NumbersAccounted
<1>2. CASE Next
  BY <1>2, ConnectKeepsInv, AcceptKeepsInv, EndKeepsInv, FailKeepsInv, HandlersKeepInv,
     OpenSocketKeepsInv, CloseSocketKeepsInv, WakeKeepsInv DEF Next
<1> QED BY <1>1, <1>2

-----------------------------------------------------------------------------
(* The types of Sessions, for all its constants.                           *)
THEOREM TypeCorrect == Spec => []TypeOK
<1>1. Inv => TypeOK
  BY DEF Inv
<1> QED BY <1>1, InitInv, StepKeepsInv, PTL DEF Spec

(* Whoever loses a descriptor lost it to the second and third close of a   *)
(* notification's socket, and only recv() errors leak one.                 *)
THEOREM AllAccounted == Spec => []NumbersAccounted
<1>1. Inv => NumbersAccounted
  BY DEF Inv
<1> QED BY <1>1, InitInv, StepKeepsInv, PTL DEF Spec
=========================================================================
