------------------------- MODULE TCPServerProofs -------------------------
(***************************************************************************)
(* For any clients, whatever they send and however they leave, any limit   *)
(* on connections, any packet size and any room at the clients: the walk   *)
(* of a round misses no connection, and the server implements ByteStream.  *)
(***************************************************************************)
EXTENDS TCPServer, SequenceTheorems, WellFoundedInduction, TLAPS

Distinct(seq) == \A i, j \in 1 .. Len(seq) : seq[i] = seq[j] => i = j
Among(c, seq) == \E i \in 1 .. Len(seq) : seq[i] = c

(* Who is connected: the vector holds each client with an open handler     *)
(* once, and the backlog each client that waits for accept().              *)
MembersInv ==
  /\ Distinct(conns) /\ Distinct(backlog)
  /\ \A c \in Clients : Among(c, conns) <=> handler[c].end = "open"
  /\ \A c \in Clients : Among(c, backlog) => handler[c].end = "none" /\ peer[c] # "away"
  /\ \A c \in Clients : peer[c] = "away" => handler[c].end = "none"
  /\ \A c \in Clients : handler[c].end # "open" => handler[c].queue = << >>
  /\ \A c \in Clients : handler[c].end = "none" => handler[c].written = 0
  /\ loop.at = "accept" => backlog # << >>

(* The end of a client's input is only there when it has left, and there   *)
(* is something to read from those the round is to read from.              *)
InputInv ==
  /\ \A c \in Clients :
       \A i \in 1 .. Len(inbox[c]) : inbox[c][i] \in Leavings => peer[c] = "left"
  /\ \A c \in loop.reads : inbox[c] # << >>

(* Who is yet to be served is ahead in the vector, and is reported; who is *)
(* to be written to has something queued; and send() is for one of those.  *)
RoundInv ==
  /\ \A c \in loop.reads \cup loop.writes \cup loop.todo : handler[c].end = "open"
  /\ \A i \in 1 .. Len(conns) :
       conns[i] \in loop.todo => i >= loop.i /\ conns[i] \in loop.reads \cup loop.writes
  /\ \A c \in loop.writes : handler[c].queue # << >>
  /\ loop.at = "send" => Ahead # {} /\ Current \in loop.writes \ loop.reads

(* The buffers of a queue are the bytes from `next` on to the last one     *)
(* that was written.                                                       *)
Holds(h, next) ==
  /\ h.queue = << >> => next = h.written + 1
  /\ h.queue # << >> =>
       /\ next = h.queue[1].first + h.queue[1].pos
       /\ h.queue[Len(h.queue)].first + h.queue[Len(h.queue)].size = h.written + 1
  /\ \A i \in 1 .. Len(h.queue) :
       /\ h.queue[i].pos \in 0 .. h.queue[i].size - 1
       /\ h.queue[i].first + h.queue[i].size <= h.written + 1
       /\ i > 1 => /\ h.queue[i].pos = 0
                   /\ h.queue[i].first = h.queue[i - 1].first + h.queue[i - 1].size

Sending(c) == loop.at = "send" /\ Current = c

(* What a client that stays has not been sent is in its queue, and what is *)
(* inside send() is the next of it.                                        *)
Sends(h, next) ==
  LET b == h.queue[1]
  IN  /\ Holds(h, b.first + b.pos)
      /\ h.left \in 0 .. Quantum(b)
      /\ h.from = next
      /\ next + h.left = b.first + b.pos + Quantum(b)

StreamOf(c) ==
  /\ InOrder(c)
  /\ handler[c].end = "none" => delivered[c] = << >>
  /\ handler[c].end = "open" /\ peer[c] = "here" =>
       IF Sending(c) THEN Sends(handler[c], Len(delivered[c]) + 1)
                     ELSE Holds(handler[c], Len(delivered[c]) + 1)

StreamInv == \A c \in Clients : StreamOf(c)

Inv == TypeOK /\ MembersInv /\ InputInv /\ RoundInv /\ StreamInv

-----------------------------------------------------------------------------
(* The least-number principle, for Min.                                    *)
LEMMA LeastNumber ==
  ASSUME NEW S, S \subseteq Nat, S # {}
  PROVE  Min(S) \in S /\ \A n \in S : Min(S) <= n
<1> DEFINE R == OpToRel(<, Nat)
<1>1. IsWellFoundedOn(R, Nat)
  BY NatLessThanWellFounded
<1>2. \A m, n \in Nat : <<n, m>> \in R <=> n < m
  BY DEF OpToRel
<1> HIDE DEF R
<1>3. \E m \in S : \A n \in S : ~ (<<n, m>> \in R)
  BY <1>1, WFMin
<1>4. PICK m \in S : \A n \in S : ~ (<<n, m>> \in R)
  BY <1>3
<1>5. ASSUME NEW n \in S PROVE m <= n
  <2>1. m \in Nat /\ n \in Nat
    OBVIOUS
  <2>2. ~ (n < m)
    BY <1>2, <1>4, <2>1, Zenon
  <2> QED BY <2>1, <2>2
<1> QED BY <1>5 DEF Min

(* vector::erase.                                                          *)
LEMMA RemovedAt ==
  ASSUME NEW S, NEW seq \in Seq(S), NEW i \in 1 .. Len(seq)
  PROVE  /\ RemoveAt(seq, i) \in Seq(S)
         /\ Len(RemoveAt(seq, i)) = Len(seq) - 1
         /\ \A j \in 1 .. Len(seq) - 1 :
              RemoveAt(seq, i)[j] = IF j < i THEN seq[j] ELSE seq[j + 1]
<1> DEFINE before == SubSeq(seq, 1, i - 1)
           after  == SubSeq(seq, i + 1, Len(seq))
<1>1. Len(seq) \in Nat
  OBVIOUS
<1>2. /\ before \in Seq(S) /\ Len(before) = i - 1
      /\ \A j \in 1 .. i - 1 : before[j] = seq[j]
  BY <1>1, SubSeqProperties
<1>3. /\ after \in Seq(S) /\ Len(after) = Len(seq) - i
      /\ \A j \in 1 .. Len(seq) - i : after[j] = seq[j + i]
  BY <1>1, SubSeqProperties
<1> HIDE DEF before, after
<1>4. /\ before \o after \in Seq(S)
      /\ Len(before \o after) = Len(before) + Len(after)
      /\ \A j \in 1 .. Len(before) + Len(after) : (before \o after)[j] =
           IF j <= Len(before) THEN before[j] ELSE after[j - Len(before)]
  BY <1>2, <1>3, ConcatProperties, Zenon
<1>5. ASSUME NEW j \in 1 .. Len(seq) - 1
      PROVE  (before \o after)[j] = IF j < i THEN seq[j] ELSE seq[j + 1]
  <2>1. CASE j < i
    BY <1>1, <1>2, <1>3, <1>4, <2>1
  <2>2. CASE j >= i
    <3>1. (before \o after)[j] = after[j - (i - 1)]
      BY <1>1, <1>2, <1>3, <1>4, <2>2
    <3>2. j - (i - 1) \in 1 .. Len(seq) - i /\ (j - (i - 1)) + i = j + 1 /\ ~ (j < i)
      BY <1>1, <2>2
    <3>3. after[j - (i - 1)] = seq[(j - (i - 1)) + i]
      BY <1>3, <3>2
    <3> QED BY <3>1, <3>2, <3>3
  <2>3. j < i \/ j >= i
    BY <1>1
  <2> QED BY <2>1, <2>2, <2>3, Zenon
<1>6. RemoveAt(seq, i) = before \o after
  BY DEF RemoveAt, before, after
<1> QED BY <1>1, <1>2, <1>3, <1>4, <1>5, <1>6

(* The connection the walk has come to is the first that is reported.      *)
LEMMA CurrentProperties ==
  ASSUME TypeOK, Ahead # {}
  PROVE  /\ Len(conns) \in Nat
         /\ Min(Ahead) \in 1 .. Len(conns) /\ Min(Ahead) >= loop.i
         /\ Current = conns[Min(Ahead)] /\ Current \in Clients
         /\ Current \in loop.reads \cup loop.writes
         /\ \A i \in 1 .. Len(conns) :
              i >= loop.i /\ conns[i] \in loop.reads \cup loop.writes => i >= Min(Ahead)
<1>1. conns \in Seq(Clients) /\ Len(conns) \in Nat /\ loop.i \in Nat \ {0}
  BY DEF TypeOK
<1>2. Ahead \subseteq Nat
  BY <1>1 DEF Ahead
<1>3. Min(Ahead) \in Ahead /\ \A i \in Ahead : Min(Ahead) <= i
  BY <1>2, LeastNumber
<1>4. Min(Ahead) \in loop.i .. Len(conns)
      /\ conns[Min(Ahead)] \in loop.reads \cup loop.writes
  BY <1>3 DEF Ahead
<1>5. Min(Ahead) \in 1 .. Len(conns) /\ Min(Ahead) >= loop.i
  BY <1>1, <1>4
<1>6. conns[Min(Ahead)] \in Clients
  BY <1>1, <1>5, ElementOfSeq
<1>7. ASSUME NEW i \in 1 .. Len(conns), i >= loop.i,
             conns[i] \in loop.reads \cup loop.writes
      PROVE  i >= Min(Ahead)
  <2>1. i \in Ahead
    BY <1>1, <1>7 DEF Ahead
  <2> QED BY <1>1, <1>3, <1>5, <2>1
<1> QED BY <1>1, <1>4, <1>5, <1>6, <1>7 DEF Current

(* Erasing it leaves the others connected, in the same order.              *)
LEMMA ErasedProperties ==
  ASSUME TypeOK, MembersInv, Ahead # {}, NEW how, Erase(Current, how)
  PROVE  /\ conns' \in Seq(Clients) /\ Len(conns') = Len(conns) - 1
         /\ \A j \in 1 .. Len(conns) - 1 :
              conns'[j] = IF j < Min(Ahead) THEN conns[j] ELSE conns[j + 1]
         /\ Distinct(conns')
         /\ \A c \in Clients : Among(c, conns') <=> Among(c, conns) /\ c # Current
<1> DEFINE k == Min(Ahead)
<1>1. /\ Len(conns) \in Nat /\ conns \in Seq(Clients)
      /\ k \in 1 .. Len(conns) /\ Current = conns[k]
  BY CurrentProperties DEF TypeOK
<1>2. conns' = RemoveAt(conns, k)
  BY DEF Erase
<1> HIDE DEF k
<1>3. /\ conns' \in Seq(Clients) /\ Len(conns') = Len(conns) - 1
      /\ \A j \in 1 .. Len(conns) - 1 : conns'[j] = IF j < k THEN conns[j] ELSE conns[j + 1]
  BY <1>1, <1>2, RemovedAt
<1>4. \A i, j \in 1 .. Len(conns) : conns[i] = conns[j] => i = j
  BY DEF MembersInv, Distinct
<1>5. Distinct(conns')
  BY <1>1, <1>3, <1>4 DEF Distinct
<1>6. ASSUME NEW c \in Clients, Among(c, conns')
      PROVE  Among(c, conns) /\ c # Current
  <2>1. PICK j \in 1 .. Len(conns) - 1 : conns'[j] = c
    BY <1>3, <1>6 DEF Among
  <2>2. PICK i \in 1 .. Len(conns) : conns[i] = c /\ i # k
    BY <1>1, <1>3, <2>1
  <2> QED BY <1>1, <1>4, <2>2 DEF Among
<1>7. ASSUME NEW c \in Clients, Among(c, conns), c # Current
      PROVE  Among(c, conns')
  <2>1. PICK i \in 1 .. Len(conns) : conns[i] = c
    BY <1>7 DEF Among
  <2>2. i # k
    BY <1>1, <1>7, <2>1
  <2>3. CASE i < k
    BY <1>1, <1>3, <2>1, <2>3 DEF Among
  <2>4. CASE i > k
    <3>1. i - 1 \in 1 .. Len(conns) - 1 /\ conns'[i - 1] = c
      BY <1>1, <1>3, <2>1, <2>4
    <3> QED BY <1>3, <3>1 DEF Among
  <2> QED BY <1>1, <2>2, <2>3, <2>4
<1> QED BY <1>3, <1>5, <1>6, <1>7 DEF k

-----------------------------------------------------------------------------
(* The write queue.  What is queued comes after what is there.             *)
LEMMA MinOfTwo ==
  ASSUME NEW x \in Int, NEW y \in Int
  PROVE  Min({x, y}) = IF x <= y THEN x ELSE y
BY DEF Min

LEMMA MaxOfTwo ==
  ASSUME NEW x \in Int, NEW y \in Int
  PROVE  Max({x, y}) = IF x >= y THEN x ELSE y
BY DEF Max

LEMMA QuantumRange ==
  ASSUME NEW b \in Buffers
  PROVE  /\ Quantum(b) \in Int /\ Bytes(b) \in Int
         /\ b.pos < b.size => Quantum(b) \in 1 .. Bytes(b)
         /\ Quantum(b) <= Bytes(b)
         /\ b.kind # "file" => Quantum(b) = Bytes(b)
<1>1. Bytes(b) \in Int /\ (b.pos < b.size => Bytes(b) >= 1)
  BY DEF Bytes, Buffers
<1>2. Packet \in Nat \ {0}
  BY ServerAssumption
<1>3. Min({Bytes(b), Packet}) = IF Bytes(b) <= Packet THEN Bytes(b) ELSE Packet
  BY <1>1, <1>2, MinOfTwo
<1> QED BY <1>1, <1>2, <1>3 DEF Quantum

LEMMA QueuedProperties ==
  ASSUME NEW h \in Handlers, NEW kind \in {"mem", "file", "notify"}, NEW size \in Nat \ {0}
  PROVE  /\ Queued(h, kind, size) \in Handlers
         /\ Queued(h, kind, size).queue # << >>
         /\ Queued(h, kind, size).written = h.written + size
         /\ Queued(h, kind, size).end = h.end
         /\ \A next \in Int : Holds(h, next) => Holds(Queued(h, kind, size), next)
<1> DEFINE b == Buffer(kind, h.written + 1, size)
           after == Queued(h, kind, size)
           q == h.queue
<1>1. /\ q \in Seq(Buffers) /\ Len(q) \in Nat /\ h.written \in Nat
      /\ (q = << >> <=> Len(q) = 0)
  BY EmptySeq DEF Handlers
<1>2. /\ b \in Buffers /\ b.first = h.written + 1 /\ b.size = size /\ b.pos = 0
  BY <1>1 DEF Buffer, Buffers
<1>3. after = [h EXCEPT !.queue = Append(q, b), !.written = h.written + size]
  BY DEF Queued, Handlers
<1>4. /\ Append(q, b) \in Seq(Buffers) /\ Len(Append(q, b)) = Len(q) + 1
      /\ \A i \in 1 .. Len(q) : Append(q, b)[i] = q[i]
      /\ Append(q, b)[Len(q) + 1] = b
  BY <1>1, <1>2, AppendProperties
<1> HIDE DEF b, after, q
<1>5. /\ after \in Handlers /\ after.queue = Append(q, b)
      /\ after.written = h.written + size /\ after.end = h.end
  <2>1. /\ h = [queue |-> h.queue, written |-> h.written, closing |-> h.closing,
                deaf |-> h.deaf, end |-> h.end, left |-> h.left, from |-> h.from]
        /\ h.closing \in BOOLEAN /\ h.deaf \in BOOLEAN /\ h.left \in Int /\ h.from \in Int
        /\ h.end \in {"none", "open", "closed", "cut"}
    BY DEF Handlers
  <2>2. after = [queue |-> Append(q, b), written |-> h.written + size, closing |-> h.closing,
                 deaf |-> h.deaf, end |-> h.end, left |-> h.left, from |-> h.from]
    BY <1>3, <2>1
  <2>3. h.written + size \in Nat
    BY <1>1
  <2> QED BY <1>4, <2>1, <2>2, <2>3 DEF Handlers
<1>6. after.queue # << >> /\ Len(after.queue) = Len(q) + 1
  BY <1>1, <1>4, <1>5, EmptySeq
<1>7. ASSUME NEW next \in Int, Holds(h, next)
      PROVE  Holds(after, next)
  <2>1. next = after.queue[1].first + after.queue[1].pos
    <3>1. CASE q = << >>
      BY <1>1, <1>2, <1>4, <1>5, <1>7, <3>1 DEF Holds, q
    <3>2. CASE q # << >>
      BY <1>1, <1>4, <1>5, <1>7, <3>2 DEF Holds, q
    <3> QED BY <3>1, <3>2
  <2>2. after.queue[Len(q) + 1].first + after.queue[Len(q) + 1].size = after.written + 1
    <3>1. after.queue[Len(q) + 1] = b
      BY <1>4, <1>5
    <3>2. h.written + 1 + size = (h.written + size) + 1
      BY <1>1
    <3> QED BY <1>2, <1>5, <3>1, <3>2
  <2>3. ASSUME NEW i \in 1 .. Len(q) + 1
        PROVE  /\ after.queue[i].pos \in 0 .. after.queue[i].size - 1
               /\ after.queue[i].first + after.queue[i].size <= after.written + 1
               /\ i > 1 => /\ after.queue[i].pos = 0
                           /\ after.queue[i].first = after.queue[i - 1].first + after.queue[i - 1].size
    <3>1. CASE i \in 1 .. Len(q)
      <4>1. after.queue[i] = q[i] /\ (i > 1 => after.queue[i - 1] = q[i - 1])
        BY <1>1, <1>4, <1>5, <3>1
      <4>2. q[i] \in Buffers
        BY <1>1, <3>1, ElementOfSeq
      <4>3. /\ q[i].pos \in 0 .. q[i].size - 1
            /\ q[i].first + q[i].size <= h.written + 1
            /\ i > 1 => q[i].pos = 0 /\ q[i].first = q[i - 1].first + q[i - 1].size
        BY <1>7, <3>1 DEF Holds, q
      <4>4. q[i].first + q[i].size <= after.written + 1
        <5>1. q[i].first + q[i].size \in Int
          BY <4>2 DEF Buffers
        <5> QED BY <1>1, <1>5, <4>3, <5>1
      <4> QED BY <4>1, <4>3, <4>4
    <3>2. CASE i = Len(q) + 1
      <4>1. after.queue[i] = b
        BY <1>4, <1>5, <3>2
      <4>2. i > 1 => after.queue[i - 1] = q[Len(q)]
        BY <1>1, <1>4, <1>5, <3>2
      <4>3. i > 1 => q[Len(q)].first + q[Len(q)].size = h.written + 1
        BY <1>1, <1>7, <3>2 DEF Holds, q
      <4> QED BY SMTT(30), <1>1, <1>2, <1>5, <4>1, <4>2, <4>3
    <3> QED BY <1>1, <3>1, <3>2
  <2> QED BY <1>6, <2>1, <2>2, <2>3 DEF Holds
<1> QED BY <1>5, <1>6, <1>7 DEF after

(* The flags of a handler are not about its queue.                         *)
LEMMA FlagsAside ==
  ASSUME NEW h \in Handlers
  PROVE  /\ LastWrite(h) \in Handlers /\ LastWrite(h).queue = h.queue
         /\ LastWrite(h).written = h.written /\ LastWrite(h).end = h.end
         /\ [h EXCEPT !.deaf = TRUE] \in Handlers
         /\ [h EXCEPT !.deaf = TRUE].queue = h.queue
         /\ [h EXCEPT !.deaf = TRUE].written = h.written
         /\ [h EXCEPT !.deaf = TRUE].end = h.end
BY DEF Handlers, LastWrite

LEMMA HoldsByQueue ==
  ASSUME NEW h \in Handlers, NEW g \in Handlers, g.queue = h.queue, g.written = h.written,
         NEW next \in Int, Holds(h, next)
  PROVE  Holds(g, next)
BY DEF Holds

(* What is read makes the handler write more, after what it had.           *)
LEMMA AnswerProperties ==
  ASSUME NEW h \in Handlers, NEW what \in {"part", "page", "file", "wait"}
  PROVE  /\ Answer(h, what) \in Handlers
         /\ Answer(h, what).end = h.end
         /\ \/ Answer(h, what).written = h.written
            \/ \E n \in 1 .. Packet + 2 : Answer(h, what).written = h.written + n
         /\ h.queue # << >> => Answer(h, what).queue # << >>
         /\ \A next \in Int : Holds(h, next) => Holds(Answer(h, what), next)
<1>1. Packet \in Nat \ {0} /\ Packet + 1 \in Nat \ {0} /\ 1 \in Nat \ {0} /\ h.written \in Nat
  BY ServerAssumption DEF Handlers
<1>2. CASE what = "part"
  BY <1>2 DEF Answer
<1>3. CASE what = "page"
  <2> DEFINE g == Queued(h, "mem", 1)
             f == Queued(g, "mem", 1)
  <2>1. /\ g \in Handlers /\ g.written = h.written + 1 /\ g.end = h.end
        /\ \A next \in Int : Holds(h, next) => Holds(g, next)
    BY <1>1, QueuedProperties
  <2> HIDE DEF g
  <2>2. /\ f \in Handlers /\ f.queue # << >> /\ f.written = g.written + 1 /\ f.end = g.end
        /\ \A next \in Int : Holds(g, next) => Holds(f, next)
    BY <1>1, <2>1, QueuedProperties
  <2>3. Answer(h, what) = LastWrite(f)
    BY <1>3 DEF Answer, g
  <2> HIDE DEF f
  <2>4. /\ LastWrite(f) \in Handlers /\ LastWrite(f).queue = f.queue
        /\ LastWrite(f).written = f.written /\ LastWrite(f).end = f.end
    BY <2>2, FlagsAside
  <2>5. \A next \in Int : Holds(h, next) => Holds(LastWrite(f), next)
    BY <2>1, <2>2, <2>4, HoldsByQueue
  <2>6. f.written = h.written + 2 /\ 2 \in 1 .. Packet + 2
    BY <1>1, <2>1, <2>2
  <2> QED BY <2>1, <2>2, <2>3, <2>4, <2>5, <2>6
<1>4. CASE what = "file"
  <2> DEFINE g == Queued(h, "mem", 1)
             f == Queued(g, "file", Packet + 1)
  <2>1. /\ g \in Handlers /\ g.written = h.written + 1 /\ g.end = h.end
        /\ \A next \in Int : Holds(h, next) => Holds(g, next)
    BY <1>1, QueuedProperties
  <2> HIDE DEF g
  <2>2. /\ f \in Handlers /\ f.queue # << >> /\ f.written = g.written + (Packet + 1)
        /\ f.end = g.end /\ \A next \in Int : Holds(g, next) => Holds(f, next)
    BY <1>1, <2>1, QueuedProperties
  <2>3. Answer(h, what) = LastWrite(f)
    BY <1>4 DEF Answer, g
  <2> HIDE DEF f
  <2>4. /\ LastWrite(f) \in Handlers /\ LastWrite(f).queue = f.queue
        /\ LastWrite(f).written = f.written /\ LastWrite(f).end = f.end
    BY <2>2, FlagsAside
  <2>5. \A next \in Int : Holds(h, next) => Holds(LastWrite(f), next)
    BY <2>1, <2>2, <2>4, HoldsByQueue
  <2>6. f.written = h.written + (Packet + 2) /\ Packet + 2 \in 1 .. Packet + 2
    BY <1>1, <2>1, <2>2
  <2> QED BY <2>1, <2>2, <2>3, <2>4, <2>5, <2>6
<1>5. CASE what = "wait"
  <2> DEFINE g == Queued(h, "notify", Packet)
             f == LastWrite(g)
             e == [f EXCEPT !.deaf = TRUE]
  <2>1. /\ g \in Handlers /\ g.written = h.written + Packet /\ g.end = h.end
        /\ g.queue # << >> /\ \A next \in Int : Holds(h, next) => Holds(g, next)
    BY <1>1, QueuedProperties
  <2>2. Answer(h, what) = e
    BY <1>5 DEF Answer
  <2> HIDE DEF g
  <2>3. f \in Handlers /\ f.queue = g.queue /\ f.written = g.written /\ f.end = g.end
    BY <2>1, FlagsAside
  <2> HIDE DEF f
  <2>4. e \in Handlers /\ e.queue = f.queue /\ e.written = f.written /\ e.end = f.end
    BY <2>3, FlagsAside
  <2> HIDE DEF e
  <2>5. \A next \in Int : Holds(h, next) => Holds(e, next)
    BY <2>1, <2>3, <2>4, HoldsByQueue
  <2>6. Packet \in 1 .. Packet + 2
    BY <1>1
  <2> QED BY <2>1, <2>2, <2>3, <2>4, <2>5, <2>6
<1> QED BY <1>2, <1>3, <1>4, <1>5

(* After a send() that took everything it was given, the queue is what     *)
(* comes next; whatever it took, what was written is the same.             *)
LEMMA SentProperties ==
  ASSUME NEW h \in Handlers, h.queue # << >>, NEW k \in Int
  PROVE  LET n == Quantum(h.queue[1])
         IN  /\ Sent(h, n, k) \in Handlers
             /\ Sent(h, n, k).written = h.written /\ Sent(h, n, k).end = h.end
             /\ \A next \in Int : Holds(h, next) /\ k = n => Holds(Sent(h, n, k), next + n)
<1> DEFINE q == h.queue
           b == q[1]
           n == Quantum(b)
           pos == IF b.kind = "file" THEN b.pos + n ELSE b.pos + Max({k, 0})
           moved == [b EXCEPT !.pos = pos]
           rest == IF (n > 0 /\ k <= 0) \/ Eof(moved) THEN Tail(q) ELSE << moved >> \o Tail(q)
           after == Sent(h, n, k)
<1>1. /\ q \in Seq(Buffers) /\ Len(q) \in Nat \ {0} /\ h.written \in Nat
      /\ b \in Buffers /\ Head(q) = b
  BY EmptySeq, ElementOfSeq DEF Handlers
<1>2. n \in Int /\ (b.pos < b.size => n >= 1) /\ b.pos + n <= b.size
      /\ (b.kind # "file" => n = b.size - b.pos)
  <2>1. /\ n \in Int /\ n <= Bytes(b) /\ Bytes(b) = b.size - b.pos
        /\ (b.pos < b.size => n \in 1 .. Bytes(b))
        /\ (b.kind # "file" => n = Bytes(b))
    BY <1>1, QuantumRange DEF Bytes
  <2>2. b.pos \in Int /\ b.size \in Nat
    BY <1>1 DEF Buffers
  <2> HIDE DEF b, n
  <2> QED
    BY <2>1, <2>2
<1>3. Max({k, 0}) = IF k >= 0 THEN k ELSE 0
  BY MaxOfTwo
<1>4. pos \in Int /\ moved \in Buffers /\ moved.pos = pos
      /\ moved.size = b.size /\ moved.first = b.first /\ moved.kind = b.kind
  <2>1. pos \in Int
    BY <1>1, <1>2, <1>3 DEF Buffers
  <2> HIDE DEF pos, b
  <2> QED BY <1>1, <2>1 DEF Buffers
<1>5. /\ Tail(q) \in Seq(Buffers) /\ Len(Tail(q)) = Len(q) - 1
      /\ \A i \in 1 .. Len(q) - 1 : Tail(q)[i] = q[i + 1]
  BY <1>1, HeadTailProperties
<1>6. after = [h EXCEPT !.left = 0, !.from = 0, !.queue = rest]
  BY <1>1 DEF Sent
<1> HIDE DEF moved, pos, n, b
<1> DEFINE one == << moved >>
<1>7. one \in Seq(Buffers) /\ Len(one) = 1 /\ one[1] = moved
  BY <1>4
<1> HIDE DEF one
<1>8. /\ one \o Tail(q) \in Seq(Buffers) /\ Len(one \o Tail(q)) = Len(q)
      /\ (one \o Tail(q))[1] = moved
      /\ \A i \in 2 .. Len(q) : (one \o Tail(q))[i] = q[i]
  <2>1. /\ one \o Tail(q) \in Seq(Buffers)
        /\ Len(one \o Tail(q)) = Len(one) + Len(Tail(q))
        /\ \A i \in 1 .. Len(one) + Len(Tail(q)) : (one \o Tail(q))[i] =
             IF i <= Len(one) THEN one[i] ELSE Tail(q)[i - Len(one)]
    <3>1. one \in Seq(Buffers) /\ Tail(q) \in Seq(Buffers)
      BY <1>5, <1>7
    <3> HIDE DEF q
    <3> QED BY <3>1, ConcatProperties, Zenon
  <2>2. ASSUME NEW i \in 2 .. Len(q)
        PROVE  (one \o Tail(q))[i] = q[i]
    <3>1. i \in 1 .. Len(one) + Len(Tail(q)) /\ ~ (i <= Len(one))
      BY <1>1, <1>5, <1>7
    <3>2. (one \o Tail(q))[i] = Tail(q)[i - 1]
      BY <1>7, <2>1, <3>1
    <3>3. i - 1 \in 1 .. Len(q) - 1 /\ (i - 1) + 1 = i
      BY <1>1
    <3> QED BY <1>5, <3>2, <3>3
  <2>3. (one \o Tail(q))[1] = one[1]
    BY <1>1, <1>5, <1>7, <2>1
  <2> QED BY <1>1, <1>5, <1>7, <2>1, <2>2, <2>3
<1>9. /\ after \in Handlers /\ after.queue = rest
      /\ after.written = h.written /\ after.end = h.end
  <2>1. /\ h = [queue |-> h.queue, written |-> h.written, closing |-> h.closing,
                deaf |-> h.deaf, end |-> h.end, left |-> h.left, from |-> h.from]
        /\ h.closing \in BOOLEAN /\ h.deaf \in BOOLEAN
        /\ h.end \in {"none", "open", "closed", "cut"}
    BY DEF Handlers
  <2>2. after = [queue |-> rest, written |-> h.written, closing |-> h.closing,
                 deaf |-> h.deaf, end |-> h.end, left |-> 0, from |-> 0]
    BY <1>6, <2>1
  <2>3. rest \in Seq(Buffers)
    BY <1>5, <1>8 DEF one
  <2> HIDE DEF rest, after
  <2> QED BY <1>1, <2>1, <2>2, <2>3 DEF Handlers
<1> HIDE DEF after, rest
<1>10. ASSUME NEW next \in Int, Holds(h, next), k = n
       PROVE  Holds(after, next + n)
  <2>1. /\ next = b.first + b.pos /\ b.pos \in 0 .. b.size - 1
        /\ q[Len(q)].first + q[Len(q)].size = h.written + 1
    BY <1>1, <1>10 DEF Holds, b
  <2>2. \A i \in 1 .. Len(q) :
          /\ q[i] \in Buffers
          /\ q[i].pos \in 0 .. q[i].size - 1
          /\ q[i].first + q[i].size <= h.written + 1
          /\ i > 1 => q[i].pos = 0 /\ q[i].first = q[i - 1].first + q[i - 1].size
    BY <1>1, <1>10, ElementOfSeq DEF Holds
  <2>3. /\ b.pos \in Int /\ b.size \in Nat /\ b.first \in Nat
        /\ pos = b.pos + n /\ n >= 1 /\ pos \in 1 .. b.size
    <3>1. b.pos \in Int /\ b.size \in Nat /\ b.first \in Nat
      BY <1>1 DEF Buffers
    <3> HIDE DEF b, q, n
    <3>2. b.pos < b.size
      BY <2>1, <3>1
    <3>3. n \in Int /\ n >= 1 /\ b.pos + n <= b.size /\ 0 <= b.pos
      BY <1>2, <2>1, <3>1, <3>2
    <3>4. pos = b.pos + n
      BY <1>3, <1>10, <3>3 DEF pos
    <3> HIDE DEF pos
    <3> QED
      BY <3>1, <3>3, <3>4
  <2>4. CASE Eof(moved)
    <3>1. rest = Tail(q)
      BY <2>4 DEF rest
    <3>2. pos = b.size /\ next + n = b.first + b.size
      BY SMTT(30), <1>2, <1>4, <2>1, <2>3, <2>4 DEF Eof
    <3> HIDE DEF q
    <3>3. CASE Len(q) = 1
      <4>1. after.queue = << >> /\ Len(after.queue) = 0
        BY <1>5, <1>9, <3>1, <3>3, EmptySeq
      <4>2. next + n = after.written + 1
        BY <1>9, <2>1, <3>2, <3>3 DEF b
      <4> QED BY <4>1, <4>2 DEF Holds
    <3>4. CASE Len(q) > 1
      <4>1. /\ after.queue # << >> /\ Len(after.queue) = Len(q) - 1
            /\ \A i \in 1 .. Len(q) - 1 : after.queue[i] = q[i + 1]
        <5>1. after.queue = Tail(q) /\ Len(Tail(q)) # 0
          BY <1>1, <1>5, <1>9, <3>1, <3>4
        <5> QED BY <1>5, <5>1, EmptySeq
      <4>2. after.queue[1] = q[2] /\ q[2].pos = 0 /\ q[2].first = q[1].first + q[1].size
            /\ q[2] \in Buffers
        BY <1>1, <2>2, <3>4, <4>1
      <4>3. next + n = after.queue[1].first + after.queue[1].pos
        BY <2>3, <3>2, <4>2 DEF b
      <4>4. after.queue[Len(after.queue)] = q[Len(q)]
        BY <1>1, <3>4, <4>1
      <4>5. ASSUME NEW i \in 1 .. Len(after.queue)
            PROVE  /\ after.queue[i] = q[i + 1] /\ i + 1 \in 1 .. Len(q)
                   /\ i > 1 => after.queue[i - 1] = q[(i + 1) - 1]
        BY <1>1, <4>1
      <4>6. ASSUME NEW i \in 1 .. Len(after.queue)
            PROVE  /\ after.queue[i].pos \in 0 .. after.queue[i].size - 1
                   /\ after.queue[i].first + after.queue[i].size <= after.written + 1
                   /\ i > 1 => /\ after.queue[i].pos = 0
                               /\ after.queue[i].first = after.queue[i - 1].first + after.queue[i - 1].size
        <5>1. i > 1 => i + 1 > 1
          BY <1>1
        <5> QED BY <1>9, <2>2, <4>5, <5>1
      <4>7. after.queue[Len(after.queue)].first + after.queue[Len(after.queue)].size
              = after.written + 1
        BY <1>9, <2>1, <4>4
      <4> QED BY <4>1, <4>3, <4>6, <4>7 DEF Holds
    <3>5. \A size \in Nat \ {0} : size = 1 \/ size > 1
      OBVIOUS
    <3> QED BY <1>1, <3>3, <3>4, <3>5, Zenon
  <2>5. CASE ~ Eof(moved)
    <3>1. rest = one \o Tail(q)
      BY <1>10, <2>3, <2>5 DEF rest, one
    <3>2. pos \in 0 .. b.size - 1
      BY <1>4, <2>3, <2>5 DEF Eof
    <3> HIDE DEF q
    <3>3. /\ Len(after.queue) = Len(q) /\ after.queue # << >> /\ after.queue[1] = moved
          /\ \A i \in 2 .. Len(q) : after.queue[i] = q[i]
      BY <1>1, <1>8, <1>9, <3>1, EmptySeq
    <3>4. next + n = after.queue[1].first + after.queue[1].pos
      BY <1>2, <1>4, <2>1, <2>3, <3>3
    <3>5. ASSUME NEW i \in 1 .. Len(q)
          PROVE  /\ after.queue[i].first = q[i].first /\ after.queue[i].size = q[i].size
                 /\ i > 1 => after.queue[i].pos = q[i].pos
                 /\ i = 1 => after.queue[i].pos = pos
      <4>1. CASE i = 1
        BY <1>4, <3>3, <4>1 DEF b
      <4>2. CASE i \in 2 .. Len(q)
        BY <3>3, <4>2
      <4> QED BY <1>1, <4>1, <4>2
    <3>6. ASSUME NEW i \in 1 .. Len(q)
          PROVE  /\ after.queue[i].pos \in 0 .. after.queue[i].size - 1
                 /\ after.queue[i].first + after.queue[i].size <= after.written + 1
                 /\ i > 1 => /\ after.queue[i].pos = 0
                             /\ after.queue[i].first = after.queue[i - 1].first + after.queue[i - 1].size
      <4>1. CASE i = 1
        BY <1>9, <2>2, <3>2, <3>5, <4>1 DEF b
      <4>2. CASE i > 1
        <5>1. i - 1 \in 1 .. Len(q)
          BY <1>1, <4>2
        <5> QED BY <1>9, <2>2, <3>5, <4>2, <5>1
      <4> QED BY <1>1, <4>1, <4>2
    <3>7. after.queue[Len(after.queue)].first + after.queue[Len(after.queue)].size = after.written + 1
      BY <1>1, <1>9, <2>1, <3>3, <3>5
    <3> QED BY <3>3, <3>4, <3>6, <3>7 DEF Holds
  <2> QED BY <2>4, <2>5
<1> QED BY <1>9, <1>10 DEF n, b, after

-----------------------------------------------------------------------------
(* What keeps the invariant.  A step that changes neither the vector nor   *)
(* the loop, and takes nothing out of a queue, keeps the round; a client   *)
(* that the step is not about keeps its stream.                            *)
LEMMA RoundKept ==
  ASSUME TypeOK, RoundInv, UNCHANGED << conns, loop >>,
         \A c \in Clients : handler[c].end = "open" => handler'[c].end = "open",
         \A c \in Clients : handler[c].queue # << >> => handler'[c].queue # << >>
  PROVE  RoundInv' /\ \A c \in Clients : Sending(c)' <=> Sending(c)
<1>1. loop.reads \subseteq Clients /\ loop.writes \subseteq Clients /\ loop.todo \subseteq Clients
  BY DEF TypeOK
<1>2. Ahead' = Ahead
  BY DEF Ahead
<1>3. Current' = Current
  BY <1>2 DEF Current
<1>4. RoundInv'
  BY <1>1, <1>2, <1>3 DEF RoundInv
<1> QED BY <1>3, <1>4 DEF Sending

LEMMA StreamKept ==
  ASSUME NEW c \in Clients, StreamOf(c), UNCHANGED << handler[c], peer[c], delivered[c] >>,
         Sending(c)' <=> Sending(c)
  PROVE  StreamOf(c)'
BY DEF StreamOf, InOrder

LEMMA MembersKept ==
  ASSUME MembersInv, UNCHANGED << conns, backlog, peer >>, loop'.at = "accept" => loop.at = "accept",
         \A c \in Clients : /\ handler'[c].end = handler[c].end
                            /\ handler[c].end # "open" => UNCHANGED handler[c]
  PROVE  MembersInv'
BY DEF MembersInv

-----------------------------------------------------------------------------
(* The clients.                                                            *)
LEMMA ConnectKeepsInv ==
  ASSUME Inv, NEW c \in Clients, Connect(c)
  PROVE  Inv'
<1>1. /\ peer[c] = "away" /\ peer' = [peer EXCEPT ![c] = "here"]
      /\ backlog' = Append(backlog, c)
      /\ UNCHANGED << inbox, count, room, delivered, conns, handler, loop >>
  BY DEF Connect
<1>2. TypeOK /\ MembersInv /\ InputInv /\ RoundInv /\ StreamInv
  BY DEF Inv
<1>3. /\ peer \in [Clients -> {"away", "here", "left"}] /\ backlog \in Seq(Clients)
      /\ Len(backlog) \in Nat
  BY <1>2 DEF TypeOK
<1>4. /\ peer' \in [Clients -> {"away", "here", "left"}]
      /\ peer'[c] = "here" /\ \A d \in Clients : d # c => peer'[d] = peer[d]
  BY <1>1, <1>3
<1>5. /\ backlog' \in Seq(Clients) /\ Len(backlog') = Len(backlog) + 1
      /\ \A i \in 1 .. Len(backlog) : backlog'[i] = backlog[i]
      /\ backlog'[Len(backlog) + 1] = c
  BY <1>1, <1>3, AppendProperties
<1>6. TypeOK'
  BY <1>1, <1>2, <1>4, <1>5 DEF TypeOK
<1>7. handler[c].end = "none" /\ ~ Among(c, backlog)
  BY <1>1, <1>2 DEF MembersInv
<1>8. MembersInv'
  <2>1. Distinct(backlog')
    <3>1. Distinct(backlog) /\ \A i \in 1 .. Len(backlog) : backlog[i] # c
      BY <1>2, <1>7 DEF MembersInv, Among
    <3> QED BY <1>3, <1>5, <3>1 DEF Distinct
  <2>2. ASSUME NEW d \in Clients, Among(d, backlog')
        PROVE  handler[d].end = "none" /\ peer'[d] # "away"
    <3>1. CASE d = c
      BY <1>4, <1>7, <3>1
    <3>2. CASE d # c
      <4>1. Among(d, backlog)
        BY <1>3, <1>5, <2>2, <3>2 DEF Among
      <4> QED BY <1>2, <1>4, <3>2, <4>1 DEF MembersInv
    <3> QED BY <3>1, <3>2
  <2>3. backlog' # << >>
    BY <1>3, <1>5, EmptySeq
  <2>4. \A d \in Clients : peer'[d] = "away" => handler[d].end = "none"
    BY <1>2, <1>4, <1>7 DEF MembersInv
  <2> QED BY <1>1, <1>2, <2>1, <2>2, <2>3, <2>4 DEF MembersInv
<1>9. InputInv'
  BY <1>1, <1>2, <1>4 DEF InputInv
<1>10. RoundInv' /\ \A d \in Clients : Sending(d)' <=> Sending(d)
  BY <1>1, <1>2, RoundKept
<1>11. StreamInv'
  <2>1. ASSUME NEW d \in Clients PROVE StreamOf(d)'
    <3>1. CASE d = c
      BY <1>1, <1>2, <1>7, <3>1 DEF StreamInv, StreamOf, InOrder
    <3>2. CASE d # c
      BY <1>1, <1>2, <1>4, <1>10, <3>2, StreamKept DEF StreamInv
    <3> QED BY <3>1, <3>2
  <2> QED BY <2>1 DEF StreamInv
<1> QED BY <1>6, <1>8, <1>9, <1>10, <1>11 DEF Inv

LEMMA SendKeepsInv ==
  ASSUME Inv, NEW c \in Clients, NEW what \in Asks[c] \cap Chunks, Send(c, what)
  PROVE  Inv'
<1>1. /\ count' = [count EXCEPT ![c] = @ + 1]
      /\ inbox' = [inbox EXCEPT ![c] = Append(@, what)]
      /\ UNCHANGED << peer, room, delivered, backlog, conns, handler, loop >>
  BY DEF Send
<1>2. TypeOK /\ MembersInv /\ InputInv /\ RoundInv /\ StreamInv
  BY DEF Inv
<1>3. /\ inbox[c] \in Seq(Chunks \cup Leavings) /\ Len(inbox[c]) \in Nat
      /\ what \in Chunks \cup Leavings
  BY <1>2 DEF TypeOK
<1>4. /\ Append(inbox[c], what) \in Seq(Chunks \cup Leavings)
      /\ Len(Append(inbox[c], what)) = Len(inbox[c]) + 1
      /\ \A i \in 1 .. Len(inbox[c]) : Append(inbox[c], what)[i] = inbox[c][i]
      /\ Append(inbox[c], what)[Len(inbox[c]) + 1] = what
  BY <1>3, AppendProperties
<1>5. /\ inbox' \in [Clients -> Seq(Chunks \cup Leavings)]
      /\ inbox'[c] = Append(inbox[c], what) /\ \A d \in Clients : d # c => inbox'[d] = inbox[d]
  BY <1>1, <1>2, <1>4 DEF TypeOK
<1>6. TypeOK'
  BY SMTT(30), <1>1, <1>2, <1>5 DEF TypeOK
<1>7. InputInv'
  <2>1. ASSUME NEW d \in Clients, NEW i \in 1 .. Len(inbox'[d]), inbox'[d][i] \in Leavings
        PROVE  peer[d] = "left"
    <3>1. CASE d = c
      <4>1. what \notin Leavings
        BY DEF Chunks, Leavings
      <4>2. i \in 1 .. Len(inbox[c]) /\ inbox'[d][i] = inbox[c][i]
        BY <1>3, <1>4, <1>5, <2>1, <3>1, <4>1
      <4> QED BY <1>2, <2>1, <3>1, <4>2 DEF InputInv
    <3>2. CASE d # c
      BY <1>2, <1>5, <2>1, <3>2 DEF InputInv
    <3> QED BY <3>1, <3>2
  <2>2. \A d \in loop.reads : inbox'[d] # << >>
    <3>1. inbox'[c] # << >>
      BY <1>3, <1>4, <1>5, EmptySeq
    <3> QED BY <1>2, <1>5, <3>1 DEF InputInv, TypeOK
  <2> QED BY <1>1, <2>1, <2>2 DEF InputInv
<1>8. MembersInv'
  BY <1>1, <1>2, MembersKept
<1>9. RoundInv' /\ \A d \in Clients : Sending(d)' <=> Sending(d)
  BY <1>1, <1>2, RoundKept
<1>10. StreamInv'
  BY <1>1, <1>2, <1>9, StreamKept DEF StreamInv
<1> QED BY <1>6, <1>7, <1>8, <1>9, <1>10 DEF Inv

LEMMA LeaveKeepsInv ==
  ASSUME Inv, NEW c \in Clients, NEW how \in Leavings, Leave(c, how)
  PROVE  Inv'
<1>1. /\ peer[c] = "here" /\ peer' = [peer EXCEPT ![c] = "left"]
      /\ inbox' = [inbox EXCEPT ![c] = IF how = "eof" THEN Append(@, how) ELSE << how >>]
      /\ UNCHANGED << count, room, delivered, backlog, conns, handler, loop >>
  BY DEF Leave
<1>2. TypeOK /\ MembersInv /\ InputInv /\ RoundInv /\ StreamInv
  BY DEF Inv
<1>3. /\ peer' \in [Clients -> {"away", "here", "left"}]
      /\ peer'[c] = "left" /\ \A d \in Clients : d # c => peer'[d] = peer[d]
  BY <1>1, <1>2 DEF TypeOK
<1>4. /\ inbox' \in [Clients -> Seq(Chunks \cup Leavings)]
      /\ inbox'[c] # << >> /\ \A d \in Clients : d # c => inbox'[d] = inbox[d]
  <2>1. Append(inbox[c], how) \in Seq(Chunks \cup Leavings) /\ << how >> \in Seq(Chunks \cup Leavings)
    BY <1>2, AppendProperties DEF TypeOK
  <2>2. Append(inbox[c], how) # << >> /\ << how >> # << >>
    <3>1. inbox[c] \in Seq(Chunks \cup Leavings) /\ Len(inbox[c]) + 1 # 0
      BY <1>2 DEF TypeOK
    <3>2. Len(Append(inbox[c], how)) = Len(inbox[c]) + 1
      BY <3>1, AppendProperties
    <3> QED BY <3>1, <3>2, EmptySeq
  <2> QED BY <1>1, <1>2, <2>1, <2>2 DEF TypeOK
<1>5. TypeOK'
  BY <1>1, <1>2, <1>3, <1>4 DEF TypeOK
<1>6. InputInv'
  <2>1. \A d \in loop.reads : inbox'[d] # << >>
    BY <1>2, <1>4 DEF InputInv, TypeOK
  <2> QED BY <1>1, <1>2, <1>3, <1>4, <2>1 DEF InputInv
<1>7. MembersInv'
  <2>1. /\ \A d \in Clients : Among(d, backlog) => peer'[d] # "away"
        /\ \A d \in Clients : peer'[d] = "away" => handler[d].end = "none"
    BY <1>1, <1>2, <1>3 DEF MembersInv
  <2> QED BY <1>1, <1>2, <2>1 DEF MembersInv
<1>8. RoundInv' /\ \A d \in Clients : Sending(d)' <=> Sending(d)
  BY <1>1, <1>2, RoundKept
<1>9. StreamInv'
  <2>1. ASSUME NEW d \in Clients PROVE StreamOf(d)'
    <3>1. CASE d = c
      BY <1>1, <1>2, <1>3, <3>1 DEF StreamInv, StreamOf, InOrder
    <3>2. CASE d # c
      BY <1>1, <1>2, <1>3, <1>8, <3>2, StreamKept DEF StreamInv
    <3> QED BY <3>1, <3>2
  <2> QED BY <2>1 DEF StreamInv
<1> QED BY <1>5, <1>6, <1>7, <1>8, <1>9 DEF Inv

LEMMA ReceiveKeepsInv ==
  ASSUME Inv, NEW c \in Clients, Receive(c)
  PROVE  Inv'
<1>1. /\ room' = [room EXCEPT ![c] = Window]
      /\ UNCHANGED << peer, inbox, count, delivered, backlog, conns, handler, loop >>
  BY DEF Receive
<1>2. TypeOK /\ MembersInv /\ InputInv /\ RoundInv /\ StreamInv
  BY DEF Inv
<1>3. room' \in [Clients -> 0 .. Window]
  BY <1>1, <1>2, ServerAssumption DEF TypeOK
<1>4. TypeOK'
  BY <1>1, <1>2, <1>3 DEF TypeOK
<1>5. InputInv' /\ MembersInv'
  BY <1>1, <1>2, MembersKept DEF InputInv
<1>6. RoundInv' /\ \A d \in Clients : Sending(d)' <=> Sending(d)
  BY <1>1, <1>2, RoundKept
<1>7. StreamInv'
  BY <1>1, <1>2, <1>6, StreamKept DEF StreamInv
<1> QED BY <1>4, <1>5, <1>6, <1>7 DEF Inv

(* An answer that is ready is the same answer.                             *)
LEMMA EventKeepsInv ==
  ASSUME Inv, NEW c \in Clients, Event(c)
  PROVE  Inv'
<1> DEFINE q == handler[c].queue
           ready == [q EXCEPT ![1] = [q[1] EXCEPT !.ready = TRUE]]
           h == [handler[c] EXCEPT !.queue = ready]
<1>1. /\ q # << >> /\ handler' = [handler EXCEPT ![c] = h]
      /\ UNCHANGED << peer, inbox, count, room, delivered, backlog, conns, loop >>
  BY DEF Event, outside
<1>2. TypeOK /\ MembersInv /\ InputInv /\ RoundInv /\ StreamInv
  BY DEF Inv
<1>3. handler \in [Clients -> Handlers] /\ handler[c] \in Handlers
  BY <1>2 DEF TypeOK
<1>4. /\ q \in Seq(Buffers) /\ Len(q) \in Nat /\ 1 \in 1 .. Len(q) /\ Len(q) \in 1 .. Len(q)
      /\ q[1] \in Buffers /\ \A i \in 1 .. Len(q) : q[i] \in Buffers
  <2>1. q \in Seq(Buffers) /\ Len(q) \in Nat /\ Len(q) # 0
    BY <1>1, <1>3, EmptySeq DEF Handlers
  <2>2. 1 \in 1 .. Len(q) /\ Len(q) \in 1 .. Len(q)
    BY <2>1
  <2> HIDE DEF q
  <2> QED BY <2>1, <2>2, ElementOfSeq
<1>5. /\ ready \in Seq(Buffers) /\ Len(ready) = Len(q) /\ ready # << >>
      /\ \A i \in 1 .. Len(q) : /\ ready[i].kind = q[i].kind /\ ready[i].first = q[i].first
                                /\ ready[i].size = q[i].size /\ ready[i].pos = q[i].pos
  <2> HIDE DEF q
  <2>1. [q[1] EXCEPT !.ready = TRUE] \in Buffers
    BY <1>4, Zenon DEF Buffers
  <2>2. ready \in Seq(Buffers) /\ Len(ready) = Len(q)
        /\ \A i \in 1 .. Len(q) : ready[i] = IF i = 1 THEN [q[1] EXCEPT !.ready = TRUE] ELSE q[i]
    BY <1>4, <2>1, ExceptSeq
  <2>3. ASSUME NEW i \in 1 .. Len(q)
        PROVE  /\ ready[i].kind = q[i].kind /\ ready[i].first = q[i].first
               /\ ready[i].size = q[i].size /\ ready[i].pos = q[i].pos
    BY <1>4, <2>2 DEF Buffers
  <2> QED BY <1>4, <2>2, <2>3, EmptySeq
<1> HIDE DEF ready
<1>6. /\ h \in Handlers /\ h.queue = ready /\ h.written = handler[c].written
      /\ h.end = handler[c].end /\ h.left = handler[c].left /\ h.from = handler[c].from
  BY <1>3, <1>5 DEF Handlers
<1> HIDE DEF h
<1>7. /\ handler' \in [Clients -> Handlers] /\ handler'[c] = h
      /\ \A d \in Clients : d # c => handler'[d] = handler[d]
  BY <1>1, <1>3, <1>6
<1>8. TypeOK'
  BY <1>1, <1>2, <1>7 DEF TypeOK
<1>9. handler[c].end = "open"
  BY <1>1, <1>2 DEF MembersInv
<1>10. MembersInv' /\ InputInv'
  BY <1>1, <1>2, <1>6, <1>7, <1>9, MembersKept DEF InputInv
<1>11. RoundInv' /\ \A d \in Clients : Sending(d)' <=> Sending(d)
  BY <1>1, <1>2, <1>5, <1>6, <1>7, RoundKept
<1>12. ASSUME NEW next \in Int, Holds(handler[c], next) PROVE Holds(h, next)
  <2>1. /\ next = q[1].first + q[1].pos
        /\ q[Len(q)].first + q[Len(q)].size = handler[c].written + 1
        /\ \A i \in 1 .. Len(q) :
             /\ q[i].pos \in 0 .. q[i].size - 1
             /\ q[i].first + q[i].size <= handler[c].written + 1
             /\ i > 1 => q[i].pos = 0 /\ q[i].first = q[i - 1].first + q[i - 1].size
    BY <1>1, <1>12 DEF Holds
  <2> HIDE DEF q
  <2>2. \A i \in 1 .. Len(q) : i > 1 => i - 1 \in 1 .. Len(q)
    BY <1>4
  <2>3. \A i \in 1 .. Len(q) : i > 1 =>
          ready[i - 1].first = q[i - 1].first /\ ready[i - 1].size = q[i - 1].size
    BY <1>5, <2>2, Zenon
  <2>4. /\ h.queue # << >> /\ Len(h.queue) = Len(q)
        /\ next = h.queue[1].first + h.queue[1].pos
        /\ h.queue[Len(q)].first + h.queue[Len(q)].size = h.written + 1
    BY <1>4, <1>5, <1>6, <2>1
  <2>5. ASSUME NEW i \in 1 .. Len(q)
        PROVE  /\ h.queue[i].pos \in 0 .. h.queue[i].size - 1
               /\ h.queue[i].first + h.queue[i].size <= h.written + 1
               /\ i > 1 => /\ h.queue[i].pos = 0
                           /\ h.queue[i].first = h.queue[i - 1].first + h.queue[i - 1].size
    BY <1>5, <1>6, <2>1, <2>3
  <2> QED BY <2>4, <2>5 DEF Holds
<1>13. Quantum(h.queue[1]) = Quantum(q[1])
  <2> HIDE DEF q
  <2> QED BY <1>4, <1>5, <1>6 DEF Quantum, Bytes
<1>14. ASSUME NEW next \in Int, Sends(handler[c], next) PROVE Sends(h, next)
  <2>1. q[1].first + q[1].pos \in Int /\ h.queue[1].first + h.queue[1].pos = q[1].first + q[1].pos
    <3> HIDE DEF q
    <3> QED BY <1>4, <1>5, <1>6 DEF Buffers
  <2> QED BY <1>6, <1>12, <1>13, <1>14, <2>1 DEF Sends
<1>15. StreamInv'
  <2>1. StreamOf(c)'
    <3>1. StreamOf(c) /\ Len(delivered[c]) + 1 \in Int
      BY <1>2 DEF StreamInv, TypeOK
    <3> QED BY <1>1, <1>6, <1>7, <1>9, <1>11, <1>12, <1>14, <3>1 DEF StreamOf, InOrder
  <2>2. \A d \in Clients : d # c => StreamOf(d)'
    BY <1>1, <1>2, <1>7, <1>11, StreamKept DEF StreamInv
  <2> QED BY <2>1, <2>2 DEF StreamInv
<1> QED BY <1>8, <1>10, <1>11, <1>15 DEF Inv

-----------------------------------------------------------------------------
(* The loop.                                                               *)
LEMMA SelectKeepsInv ==
  ASSUME Inv, Select
  PROVE  Inv'
<1>1. /\ loop' = [at |-> IF backlog # << >> THEN "accept" ELSE "walk", i |-> 1,
                  reads |-> Reads, writes |-> Writes, todo |-> Reads \cup Writes]
      /\ UNCHANGED << peer, inbox, count, room, delivered, backlog, conns, handler >>
  BY DEF Select, outside
<1>2. TypeOK /\ MembersInv /\ InputInv /\ RoundInv /\ StreamInv /\ loop.at = "select"
  BY DEF Inv, Select
<1>3. conns \in Seq(Clients) /\ Len(conns) \in Nat
  BY <1>2 DEF TypeOK
<1>4. \A c \in Reads \cup Writes : c \in Clients /\ Among(c, conns)
  BY <1>3, ElementOfSeq DEF Reads, Writes, ToSet, Among
<1>5. TypeOK'
  BY <1>1, <1>2, <1>4 DEF TypeOK
<1>6. MembersInv' /\ InputInv'
  <2>1. \A c \in Reads : inbox[c] # << >>
    BY DEF Reads, Readable
  <2> QED BY <1>1, <1>2, <2>1 DEF MembersInv, InputInv
<1>7. RoundInv'
  <2>1. \A c \in Reads \cup Writes : handler[c].end = "open"
    BY <1>2, <1>4 DEF MembersInv
  <2>2. \A c \in Writes : handler[c].queue # << >>
    BY DEF Writes, Writable, NeedsWrite
  <2> QED BY <1>1, <1>3, <2>1, <2>2 DEF RoundInv
<1>8. StreamInv'
  BY <1>1, <1>2, StreamKept DEF StreamInv, Sending
<1> QED BY <1>5, <1>6, <1>7, <1>8 DEF Inv

(* The loop's index, and who it has not served, after a round.             *)
LEMMA RoundEndsKeepsInv ==
  ASSUME Inv, RoundEnds
  PROVE  Inv'
<1>1. /\ loop' = [at |-> "select", i |-> 1, reads |-> {}, writes |-> {}, todo |-> {}]
      /\ UNCHANGED << peer, inbox, count, room, delivered, backlog, conns, handler >>
  BY DEF RoundEnds, outside, Now
<1>2. TypeOK /\ MembersInv /\ InputInv /\ RoundInv /\ StreamInv /\ loop.at = "walk"
  BY DEF Inv, RoundEnds
<1>3. TypeOK' /\ MembersInv' /\ InputInv' /\ RoundInv'
  BY <1>1, <1>2 DEF TypeOK, MembersInv, InputInv, RoundInv
<1>4. StreamInv'
  BY <1>1, <1>2, StreamKept DEF StreamInv, Sending
<1> QED BY <1>3, <1>4 DEF Inv

LEMMA AcceptKeepsInv ==
  ASSUME Inv, Accept
  PROVE  Inv'
<1>1. PICK c : c = Head(backlog)
  OBVIOUS
<1>2. /\ backlog' = Tail(backlog) /\ loop' = [loop EXCEPT !.at = "walk"]
      /\ IF Len(conns) < MaxConnections
         THEN conns' = Append(conns, c) /\ handler' = [handler EXCEPT ![c].end = "open"]
         ELSE handler' = [handler EXCEPT ![c].end = "cut"] /\ UNCHANGED conns
      /\ UNCHANGED << peer, inbox, count, room, delivered >>
  BY <1>1 DEF Accept, outside
<1>3. TypeOK /\ MembersInv /\ InputInv /\ RoundInv /\ StreamInv /\ loop.at = "accept"
  BY DEF Inv, Accept
<1>4. /\ backlog \in Seq(Clients) /\ conns \in Seq(Clients)
      /\ Len(conns) \in Nat /\ Len(backlog) \in Nat /\ backlog # << >>
      /\ MaxConnections \in Nat /\ Len(conns) <= MaxConnections
  BY <1>3, ServerAssumption DEF TypeOK, MembersInv
<1>5. Len(backlog) # 0 /\ c = backlog[1]
  BY <1>1, <1>4, EmptySeq
<1>6. /\ c \in Clients /\ Tail(backlog) \in Seq(Clients)
      /\ Len(Tail(backlog)) = Len(backlog) - 1
      /\ \A i \in 1 .. Len(backlog) - 1 : Tail(backlog)[i] = backlog[i + 1]
  BY <1>1, <1>4, HeadTailProperties
<1>7. Among(c, backlog)
  BY <1>4, <1>5 DEF Among
<1>8. /\ handler[c].end = "none" /\ ~ Among(c, conns) /\ handler[c].queue = << >>
      /\ handler[c].written = 0 /\ peer[c] # "away" /\ delivered[c] = << >>
  BY <1>3, <1>6, <1>7 DEF MembersInv, StreamInv, StreamOf
<1>9. \E end \in {"open", "cut"} :
        /\ handler' = [handler EXCEPT ![c].end = end]
        /\ IF end = "open" THEN Len(conns) < MaxConnections /\ conns' = Append(conns, c)
                           ELSE conns' = conns
  <2>1. CASE Len(conns) < MaxConnections
    BY <1>2, <2>1, Zenon
  <2>2. CASE ~ (Len(conns) < MaxConnections)
    <3>1. "cut" # "open"
      OBVIOUS
    <3> QED BY <1>2, <2>2, <3>1, Zenon
  <2> QED BY <2>1, <2>2
<1>10. PICK end \in {"open", "cut"} :
        /\ handler' = [handler EXCEPT ![c].end = end]
        /\ IF end = "open" THEN Len(conns) < MaxConnections /\ conns' = Append(conns, c)
                           ELSE conns' = conns
  BY <1>9
<1>11. /\ handler' \in [Clients -> Handlers] /\ handler'[c] \in Handlers
       /\ \A d \in Clients : d # c => handler'[d] = handler[d]
       /\ handler'[c].end = end /\ handler'[c].queue = << >> /\ handler'[c].written = 0
  <2>1. handler \in [Clients -> Handlers] /\ handler[c] \in Handlers
    BY <1>3, <1>6 DEF TypeOK
  <2>2. handler' = [handler EXCEPT ![c] = [handler[c] EXCEPT !.end = end]]
    BY <1>10
  <2>3. /\ [handler[c] EXCEPT !.end = end] \in Handlers
        /\ [handler[c] EXCEPT !.end = end].end = end
        /\ [handler[c] EXCEPT !.end = end].queue = << >>
        /\ [handler[c] EXCEPT !.end = end].written = 0
    BY <1>8, <2>1 DEF Handlers
  <2> QED BY <1>6, <2>1, <2>2, <2>3
<1>12. /\ conns' \in Seq(Clients) /\ Len(conns') \in Nat /\ Len(conns') <= MaxConnections
       /\ \A i \in 1 .. Len(conns') :
            \/ i \in 1 .. Len(conns) /\ conns'[i] = conns[i]
            \/ conns'[i] = c /\ i = Len(conns) + 1 /\ end = "open"
       /\ \A i \in 1 .. Len(conns) : i \in 1 .. Len(conns') /\ conns'[i] = conns[i]
       /\ end = "open" => Among(c, conns')
  <2>1. CASE end = "open"
    <3>1. conns' = Append(conns, c) /\ Len(conns) < MaxConnections
      BY <1>10, <2>1
    <3>2. /\ Append(conns, c) \in Seq(Clients) /\ Len(Append(conns, c)) = Len(conns) + 1
          /\ \A i \in 1 .. Len(conns) : Append(conns, c)[i] = conns[i]
          /\ Append(conns, c)[Len(conns) + 1] = c
      BY <1>4, <1>6, AppendProperties
    <3> QED BY <1>4, <2>1, <3>1, <3>2 DEF Among
  <2>2. CASE end = "cut"
    BY <1>4, <1>10, <2>2
  <2> QED BY <2>1, <2>2
<1>13. TypeOK'
  <2>1. loop' \in [at : {"select", "accept", "walk", "send"}, i : Nat \ {0},
                   reads : SUBSET Clients, writes : SUBSET Clients, todo : SUBSET Clients]
    BY <1>2, <1>3 DEF TypeOK
  <2> QED BY <1>2, <1>3, <1>6, <1>11, <1>12, <2>1 DEF TypeOK
<1>14. MembersInv'
  <2>1. Distinct(conns')
    <3>1. \A i \in 1 .. Len(conns) : conns[i] # c
      BY <1>8 DEF Among
    <3> QED BY <1>3, <1>12, <3>1 DEF MembersInv, Distinct
  <2>2. Distinct(backlog')
    <3>1. Distinct(backlog) /\ \A i \in 1 .. Len(backlog) - 1 : i + 1 \in 1 .. Len(backlog)
      BY <1>3, <1>4 DEF MembersInv
    <3> QED BY <1>2, <1>4, <1>6, <3>1 DEF Distinct
  <2>3. ASSUME NEW d \in Clients PROVE Among(d, conns') <=> handler'[d].end = "open"
    <3>1. CASE d = c
      <4>1. Among(c, conns') => end = "open"
        BY <1>8, <1>12 DEF Among
      <4> QED BY <1>11, <1>12, <3>1, <4>1
    <3>2. CASE d # c
      <4>1. Among(d, conns') <=> Among(d, conns)
        BY <1>12, <3>2 DEF Among
      <4> QED BY <1>3, <1>11, <3>2, <4>1 DEF MembersInv
    <3> QED BY <3>1, <3>2
  <2>4. ASSUME NEW d \in Clients, Among(d, backlog')
        PROVE  handler'[d].end = "none" /\ peer[d] # "away"
    <3>1. PICK i \in 1 .. Len(backlog) - 1 : backlog[i + 1] = d
      BY <1>2, <1>6, <2>4 DEF Among
    <3>2. i + 1 \in 1 .. Len(backlog) /\ i + 1 # 1 /\ 1 \in 1 .. Len(backlog)
      BY <1>4
    <3>3. d # c /\ Among(d, backlog)
      BY <1>3, <1>5, <3>1, <3>2 DEF MembersInv, Distinct, Among
    <3> QED BY <1>3, <1>11, <3>3 DEF MembersInv
  <2>5. ASSUME NEW d \in Clients
        PROVE  /\ peer[d] = "away" => handler'[d].end = "none"
               /\ handler'[d].end # "open" => handler'[d].queue = << >>
               /\ handler'[d].end = "none" => handler'[d].written = 0
    BY <1>3, <1>8, <1>11 DEF MembersInv
  <2>6. loop'.at = "walk"
    BY <1>2, <1>3 DEF TypeOK
  <2> QED BY <1>2, <2>1, <2>2, <2>3, <2>4, <2>5, <2>6 DEF MembersInv
<1>15. /\ loop'.at = "walk" /\ loop'.i = loop.i /\ loop'.reads = loop.reads
       /\ loop'.writes = loop.writes /\ loop'.todo = loop.todo
  BY <1>2, <1>3 DEF TypeOK
<1>16. InputInv'
  BY <1>2, <1>3, <1>15 DEF InputInv
<1>17. RoundInv'
  <2>1. c \notin loop.reads /\ c \notin loop.writes /\ c \notin loop.todo
    BY <1>3, <1>8 DEF RoundInv
  <2>2. loop.reads \subseteq Clients /\ loop.writes \subseteq Clients /\ loop.todo \subseteq Clients
    BY <1>3 DEF TypeOK
  <2>3. \A d \in loop.reads \cup loop.writes \cup loop.todo : handler'[d] = handler[d]
    BY <1>11, <2>1, <2>2
  <2>4. \A i \in 1 .. Len(conns') : conns'[i] \in loop.todo =>
          i >= loop.i /\ conns'[i] \in loop.reads \cup loop.writes
    BY <1>3, <1>12, <2>1 DEF RoundInv
  <2> QED BY <1>3, <1>15, <2>3, <2>4 DEF RoundInv
<1>18. StreamInv'
  <2> UNCHANGED << delivered, peer >>
    BY <1>2
  <2>0. \A d \in Clients : ~ Sending(d) /\ ~ Sending(d)'
    BY <1>3, <1>15 DEF Sending
  <2>1. StreamOf(c)'
    <3>2. Len(delivered[c]) + 1 = handler'[c].written + 1 /\ InOrder(c) /\ Len(handler'[c].queue) = 0
      BY <1>3, <1>6, <1>8, <1>11, EmptySeq DEF StreamInv, StreamOf
    <3>3. Holds(handler'[c], Len(delivered[c]) + 1)
      BY <1>11, <3>2 DEF Holds
    <3>4. handler'[c].end # "none"
      BY <1>11
    <3> QED BY <1>6, <2>0, <3>2, <3>3, <3>4 DEF StreamOf, InOrder
  <2>2. ASSUME NEW d \in Clients, d # c PROVE StreamOf(d)'
    BY <1>3, <1>11, <2>0, <2>2, StreamKept DEF StreamInv
  <2> QED BY <2>1, <2>2 DEF StreamInv
<1> QED BY <1>13, <1>14, <1>16, <1>17, <1>18 DEF Inv

(* A recv(), whatever it returns, takes the first of what was sent.        *)
LEMMA RecvKeepsInput ==
  ASSUME TypeOK, InputInv, NEW c \in Clients, inbox[c] # << >>,
         inbox' = [inbox EXCEPT ![c] = Tail(@)], UNCHANGED peer,
         loop'.reads = loop.reads \ {c}
  PROVE  InputInv' /\ inbox' \in [Clients -> Seq(Chunks \cup Leavings)]
<1>1. /\ inbox \in [Clients -> Seq(Chunks \cup Leavings)]
      /\ inbox[c] \in Seq(Chunks \cup Leavings) /\ Len(inbox[c]) \in Nat
  BY DEF TypeOK
<1>2. /\ Tail(inbox[c]) \in Seq(Chunks \cup Leavings)
      /\ Len(Tail(inbox[c])) = Len(inbox[c]) - 1
      /\ \A i \in 1 .. Len(Tail(inbox[c])) : Tail(inbox[c])[i] = inbox[c][i + 1]
  BY <1>1, HeadTailProperties
<1>3. /\ inbox' \in [Clients -> Seq(Chunks \cup Leavings)] /\ inbox'[c] = Tail(inbox[c])
      /\ \A d \in Clients : d # c => inbox'[d] = inbox[d]
  BY <1>1, <1>2
<1>4. ASSUME NEW d \in Clients, NEW i \in 1 .. Len(inbox'[d]), inbox'[d][i] \in Leavings
      PROVE  peer[d] = "left"
  <2>1. CASE d = c
    <3>1. i + 1 \in 1 .. Len(inbox[c]) /\ inbox[c][i + 1] \in Leavings
      BY <1>1, <1>2, <1>3, <1>4, <2>1
    <3> QED BY <2>1, <3>1 DEF InputInv
  <2>2. CASE d # c
    BY <1>3, <1>4, <2>2 DEF InputInv
  <2> QED BY <2>1, <2>2
<1>5. \A d \in loop'.reads : inbox'[d] # << >>
  BY <1>3 DEF InputInv, TypeOK
<1> QED BY <1>3, <1>4, <1>5 DEF InputInv

LEMMA ReadChunkKeepsInv ==
  ASSUME Inv, ReadChunk
  PROVE  Inv'
<1>1. PICK c : c = Current
  OBVIOUS
<1>2. /\ loop.at = "walk" /\ Ahead # {} /\ c \in loop.reads
      /\ Head(inbox[c]) \in {"part", "page", "file", "wait"}
      /\ inbox' = [inbox EXCEPT ![c] = Tail(@)]
      /\ handler' = [handler EXCEPT ![c] = Answer(@, Head(inbox[c]))]
      /\ loop' = [loop EXCEPT !.todo = @ \ {c}, !["reads"] = @ \ {c}]
      /\ UNCHANGED << peer, count, room, delivered, backlog, conns >>
  BY <1>1 DEF ReadChunk, Walking, Recv, Served
<1>3. TypeOK /\ MembersInv /\ InputInv /\ RoundInv /\ StreamInv
  BY DEF Inv
<1>4. c \in Clients /\ handler[c].end = "open"
  BY <1>1, <1>2, <1>3, CurrentProperties DEF RoundInv
<1>5. PICK h \in Handlers :
        /\ h = Answer(handler[c], Head(inbox[c])) /\ h.end = handler[c].end
        /\ handler[c].queue # << >> => h.queue # << >>
        /\ \A next \in Int : Holds(handler[c], next) => Holds(h, next)
  BY <1>2, <1>3, <1>4, AnswerProperties DEF TypeOK
<1>6. /\ handler' \in [Clients -> Handlers] /\ handler'[c] = h
      /\ \A d \in Clients : d # c => handler'[d] = handler[d]
  BY <1>2, <1>3, <1>4, <1>5 DEF TypeOK
<1>7. /\ loop' \in [at : {"select", "accept", "walk", "send"}, i : Nat \ {0},
                    reads : SUBSET Clients, writes : SUBSET Clients, todo : SUBSET Clients]
      /\ loop'.at = "walk" /\ loop'.i = loop.i /\ loop'.reads = loop.reads \ {c}
      /\ loop'.writes = loop.writes /\ loop'.todo = loop.todo \ {c}
  BY <1>2, <1>3 DEF TypeOK
<1>8. InputInv' /\ inbox' \in [Clients -> Seq(Chunks \cup Leavings)]
  BY <1>2, <1>3, <1>4, <1>7, RecvKeepsInput DEF InputInv
<1>9. TypeOK'
  BY <1>2, <1>3, <1>6, <1>7, <1>8 DEF TypeOK
<1>10. MembersInv'
  BY <1>2, <1>3, <1>4, <1>5, <1>6, <1>7, MembersKept
<1>11. RoundInv'
  <2>1. \A d \in loop'.reads \cup loop'.writes \cup loop'.todo : handler'[d].end = "open"
    BY <1>3, <1>4, <1>5, <1>6, <1>7 DEF RoundInv, TypeOK
  <2>2. \A d \in loop'.writes : handler'[d].queue # << >>
    BY <1>3, <1>5, <1>6, <1>7 DEF RoundInv, TypeOK
  <2>3. \A i \in 1 .. Len(conns) : conns[i] \in loop'.todo =>
          i >= loop'.i /\ conns[i] \in loop'.reads \cup loop'.writes
    BY <1>3, <1>7 DEF RoundInv
  <2> QED BY <1>2, <1>7, <2>1, <2>2, <2>3 DEF RoundInv
<1>12. StreamInv'
  <2>1. \A d \in Clients : ~ Sending(d) /\ ~ Sending(d)'
    BY <1>2, <1>7 DEF Sending
  <2>2. StreamOf(c)'
    <3>1. StreamOf(c) /\ Len(delivered[c]) + 1 \in Int
      BY <1>3, <1>4 DEF StreamInv, TypeOK
    <3>2. delivered'[c] = delivered[c] /\ peer'[c] = peer[c]
      BY <1>2
    <3> QED BY <1>4, <1>5, <1>6, <2>1, <3>1, <3>2 DEF StreamOf, InOrder
  <2>3. ASSUME NEW d \in Clients, d # c PROVE StreamOf(d)'
    BY <1>2, <1>3, <1>6, <2>1, <2>3, StreamKept DEF StreamInv
  <2> QED BY <2>2, <2>3 DEF StreamInv
<1> QED BY <1>8, <1>9, <1>10, <1>11, <1>12 DEF Inv

(* Erasing a connection, whoever is left to serve.                         *)
LEMMA EraseKeepsInv ==
  ASSUME Inv, Ahead # {}, NEW how \in {"closed", "cut"}, Erase(Current, how),
         loop.at # "accept", InputInv',
         inbox' \in [Clients -> Seq(Chunks \cup Leavings)], count' = count,
         UNCHANGED << room, delivered, backlog, peer >>
  PROVE  Inv'
<1>1. PICK c : c = Current
  OBVIOUS
<1>2. /\ handler' = [handler EXCEPT ![c] =
                       [NoHandler EXCEPT !.written = handler[c].written, !.end = how]]
      /\ loop' = [at |-> "walk", i |-> Min(Ahead), reads |-> loop.reads \ {c},
                  writes |-> loop.writes \ {c}, todo |-> loop.todo \ {c}]
  BY <1>1 DEF Erase
<1>3. TypeOK /\ MembersInv /\ InputInv /\ RoundInv /\ StreamInv
  BY DEF Inv
<1>4. /\ Len(conns) \in Nat /\ Min(Ahead) \in 1 .. Len(conns) /\ c = conns[Min(Ahead)]
      /\ c \in Clients /\ c \in loop.reads \cup loop.writes
      /\ \A i \in 1 .. Len(conns) :
           i >= loop.i /\ conns[i] \in loop.reads \cup loop.writes => i >= Min(Ahead)
  BY <1>1, <1>3, CurrentProperties
<1>5. /\ conns' \in Seq(Clients) /\ Len(conns') = Len(conns) - 1
      /\ \A j \in 1 .. Len(conns) - 1 :
           conns'[j] = IF j < Min(Ahead) THEN conns[j] ELSE conns[j + 1]
      /\ Distinct(conns')
      /\ \A d \in Clients : Among(d, conns') <=> Among(d, conns) /\ d # c
  BY <1>1, <1>3, ErasedProperties
<1>6. handler[c].end = "open" /\ how # "open" /\ how # "none"
  BY <1>3, <1>4 DEF RoundInv
<1>7. /\ handler' \in [Clients -> Handlers]
      /\ handler'[c].end = how /\ handler'[c].queue = << >>
      /\ \A d \in Clients : d # c => handler'[d] = handler[d]
  <2>1. handler \in [Clients -> Handlers] /\ handler[c].written \in Nat
    BY <1>3, <1>4 DEF TypeOK, Handlers
  <2>2. /\ [NoHandler EXCEPT !.written = handler[c].written, !.end = how] \in Handlers
        /\ [NoHandler EXCEPT !.written = handler[c].written, !.end = how].end = how
        /\ [NoHandler EXCEPT !.written = handler[c].written, !.end = how].queue = << >>
    <3>1. NoHandler \in Handlers /\ NoHandler.queue = << >>
      BY EmptySeq DEF NoHandler, Handlers
    <3> QED BY <2>1, <3>1 DEF Handlers
  <2> QED BY <1>2, <1>4, <2>1, <2>2
<1>8. loop' \in [at : {"select", "accept", "walk", "send"}, i : Nat \ {0},
                 reads : SUBSET Clients, writes : SUBSET Clients, todo : SUBSET Clients]
  <2>1. Min(Ahead) \in Nat \ {0}
    BY <1>4
  <2>2. /\ loop.reads \ {c} \subseteq Clients /\ loop.writes \ {c} \subseteq Clients
        /\ loop.todo \ {c} \subseteq Clients
    BY <1>3 DEF TypeOK
  <2> QED BY <1>2, <2>1, <2>2
<1>9. TypeOK'
  <2>1. Len(conns') <= MaxConnections
    BY <1>3, <1>4, <1>5, ServerAssumption DEF TypeOK
  <2> QED BY <1>3, <1>5, <1>7, <1>8, <2>1 DEF TypeOK
<1>10. MembersInv'
  <2>1. ASSUME NEW d \in Clients
        PROVE  /\ Among(d, conns') <=> handler'[d].end = "open"
               /\ Among(d, backlog) => handler'[d].end = "none" /\ peer[d] # "away"
               /\ peer[d] = "away" => handler'[d].end = "none"
               /\ handler'[d].end # "open" => handler'[d].queue = << >>
               /\ handler'[d].end = "none" => handler'[d].written = 0
    <3>1. CASE d = c
      <4>1. ~ Among(c, conns')
        BY <1>4, <1>5
      <4>2. ~ Among(c, backlog) /\ peer[c] # "away"
        BY <1>3, <1>4, <1>6 DEF MembersInv
      <4> QED BY <1>6, <1>7, <3>1, <4>1, <4>2
    <3>2. CASE d # c
      BY <1>3, <1>5, <1>7, <3>2 DEF MembersInv
    <3> QED BY <3>1, <3>2
  <2> QED BY <1>2, <1>3, <1>5, <2>1 DEF MembersInv
<1>11. RoundInv'
  <2>1. \A d \in loop'.reads \cup loop'.writes \cup loop'.todo : d \in Clients /\ d # c
    BY <1>2, <1>3 DEF TypeOK
  <2>2. \A d \in loop'.reads \cup loop'.writes \cup loop'.todo : handler'[d].end = "open"
    BY <1>2, <1>3, <1>7, <2>1 DEF RoundInv
  <2>3. \A d \in loop'.writes : handler'[d].queue # << >>
    BY <1>2, <1>3, <1>7, <2>1 DEF RoundInv
  <2>4. ASSUME NEW j \in 1 .. Len(conns'), conns'[j] \in loop'.todo
        PROVE  j >= loop'.i /\ conns'[j] \in loop'.reads \cup loop'.writes
    <3>1. PICK i \in 1 .. Len(conns) :
            conns'[j] = conns[i] /\ ((j < Min(Ahead) /\ i = j) \/ j >= Min(Ahead))
      BY <1>4, <1>5, <2>4
    <3>2. conns[i] \in loop.todo /\ conns[i] # c
      BY <1>2, <2>1, <2>4, <3>1
    <3>3. i >= loop.i /\ conns[i] \in loop.reads \cup loop.writes
      BY <1>3, <3>2 DEF RoundInv
    <3>4. j >= Min(Ahead)
      BY <1>4, <3>1, <3>3
    <3> QED BY <1>2, <3>1, <3>2, <3>3, <3>4
  <2>5. loop'.at # "send"
    BY <1>2
  <2> QED BY <2>2, <2>3, <2>4, <2>5 DEF RoundInv
<1>12. StreamInv'
  <2>1. \A d \in Clients : ~ Sending(d)' /\ (d # c => ~ Sending(d))
    BY <1>1, <1>2 DEF Sending
  <2>2. StreamOf(c)'
    BY <1>3, <1>4, <1>6, <1>7 DEF StreamInv, StreamOf, InOrder
  <2>3. ASSUME NEW d \in Clients, d # c PROVE StreamOf(d)'
    BY <1>3, <1>7, <2>1, <2>3, StreamKept DEF StreamInv
  <2> QED BY <2>2, <2>3 DEF StreamInv
<1> QED BY <1>9, <1>10, <1>11, <1>12 DEF Inv

LEMMA ReadEndsKeepsInv ==
  ASSUME Inv, ReadEnds \/ ReadFails
  PROVE  Inv'
<1>1. /\ loop.at = "walk" /\ Ahead # {} /\ Current \in loop.reads
      /\ inbox' = [inbox EXCEPT ![Current] = Tail(@)]
      /\ \E how \in {"closed", "cut"} : Erase(Current, how)
      /\ UNCHANGED << peer, count, room, delivered, backlog >>
  BY DEF ReadEnds, ReadFails, Walking
<1>2. PICK how \in {"closed", "cut"} : Erase(Current, how)
  BY <1>1
<1>3. TypeOK /\ InputInv
  BY DEF Inv
<1>4. Current \in Clients /\ inbox[Current] # << >> /\ loop'.reads = loop.reads \ {Current}
  BY <1>1, <1>2, <1>3, CurrentProperties DEF InputInv, Erase
<1>5. InputInv' /\ inbox' \in [Clients -> Seq(Chunks \cup Leavings)]
  BY <1>1, <1>3, <1>4, RecvKeepsInput
<1> QED BY <1>1, <1>2, <1>5, EraseKeepsInv

(* send() is given the first of the queue.                                 *)
LEMMA WriteStartsKeepsInv ==
  ASSUME Inv, WriteStarts
  PROVE  Inv'
<1>1. PICK c : c = Current
  OBVIOUS
<1> DEFINE b == Head(handler[c].queue)
           h == [handler[c] EXCEPT !.left = Quantum(b), !.from = b.first + b.pos]
<1>2. /\ loop.at = "walk" /\ Ahead # {} /\ c \notin loop.reads /\ c \in loop.writes
      /\ handler' = [handler EXCEPT ![c] = h] /\ loop' = [loop EXCEPT !.at = "send"]
      /\ UNCHANGED << peer, inbox, count, room, delivered, backlog, conns >>
  BY <1>1 DEF WriteStarts, Walking, outside
<1>3. TypeOK /\ MembersInv /\ InputInv /\ RoundInv /\ StreamInv
  BY DEF Inv
<1>4. c \in Clients /\ handler[c].end = "open" /\ handler[c].queue # << >>
  BY <1>1, <1>2, <1>3, CurrentProperties DEF RoundInv
<1>5. handler \in [Clients -> Handlers] /\ handler[c] \in Handlers
  BY <1>3, <1>4 DEF TypeOK
<1>6. b \in Buffers /\ b = handler[c].queue[1] /\ Quantum(b) \in Int /\ b.first + b.pos \in Int
  <2>1. b \in Buffers /\ b = handler[c].queue[1]
    BY <1>4, <1>5, HeadTailProperties DEF Handlers
  <2> HIDE DEF b
  <2>2. Quantum(b) \in Int
    BY <2>1, QuantumRange
  <2>3. b.first + b.pos \in Int
    BY <2>1 DEF Buffers
  <2> QED BY <2>1, <2>2, <2>3
<1> HIDE DEF b
<1>7. /\ h \in Handlers /\ h.queue = handler[c].queue /\ h.written = handler[c].written
      /\ h.end = handler[c].end /\ h.left = Quantum(b) /\ h.from = b.first + b.pos
  BY <1>5, <1>6 DEF Handlers
<1> HIDE DEF h
<1>8. /\ handler' \in [Clients -> Handlers] /\ handler'[c] = h
      /\ \A d \in Clients : d # c => handler'[d] = handler[d]
  BY <1>2, <1>4, <1>5, <1>7
<1>9. /\ loop' \in [at : {"select", "accept", "walk", "send"}, i : Nat \ {0},
                    reads : SUBSET Clients, writes : SUBSET Clients, todo : SUBSET Clients]
      /\ loop'.at = "send" /\ loop'.i = loop.i /\ loop'.reads = loop.reads
      /\ loop'.writes = loop.writes /\ loop'.todo = loop.todo
  BY <1>2, <1>3 DEF TypeOK
<1>10. TypeOK' /\ InputInv'
  BY <1>2, <1>3, <1>8, <1>9 DEF TypeOK, InputInv
<1>11. MembersInv'
  BY <1>2, <1>3, <1>4, <1>7, <1>8, <1>9, MembersKept
<1>12. Ahead' = Ahead /\ Current' = c
  <2>1. Ahead' = Ahead
    BY <1>2, <1>9 DEF Ahead
  <2> QED BY <1>1, <1>2, <2>1 DEF Current
<1>13. RoundInv'
  <2>1. \A d \in Clients : handler'[d].end = handler[d].end /\ handler'[d].queue = handler[d].queue
    BY <1>7, <1>8
  <2>2. /\ loop.reads \subseteq Clients /\ loop.writes \subseteq Clients
        /\ loop.todo \subseteq Clients
    BY <1>3 DEF TypeOK
  <2> QED BY <1>2, <1>3, <1>9, <1>12, <2>1, <2>2 DEF RoundInv
<1>14. StreamInv'
  <2>1. \A d \in Clients : ~ Sending(d) /\ (Sending(d)' <=> d = c)
    BY <1>2, <1>9, <1>12 DEF Sending
  <2>2. StreamOf(c)'
    <3>1. UNCHANGED << delivered[c], peer[c] >> /\ Len(delivered[c]) + 1 \in Int
      BY <1>2, <1>3, <1>4 DEF TypeOK
    <3>2. CASE peer[c] = "here"
      <4>1. InOrder(c) /\ Holds(handler[c], Len(delivered[c]) + 1)
        BY <1>3, <1>4, <2>1, <3>2 DEF StreamInv, StreamOf
      <4>2. /\ Len(delivered[c]) + 1 = b.first + b.pos
            /\ b.pos \in 0 .. b.size - 1
        <5>1. Len(handler[c].queue) \in Nat /\ Len(handler[c].queue) # 0
          BY <1>4, <1>5, EmptySeq DEF Handlers
        <5>2. 1 \in 1 .. Len(handler[c].queue)
          BY <5>1
        <5> QED BY <1>4, <1>6, <4>1, <5>2 DEF Holds
      <4>3. Quantum(b) \in 0 .. Quantum(b)
        <5>1. b.pos < b.size
          BY <1>6, <4>2 DEF Buffers
        <5>2. Quantum(b) \in 1 .. Bytes(b) /\ Bytes(b) \in Int
          BY <1>6, <5>1, QuantumRange
        <5> HIDE DEF b
        <5> QED
          BY <5>2
      <4>4. Holds(h, b.first + b.pos)
        BY <1>5, <1>6, <1>7, <4>1, <4>2, HoldsByQueue
      <4>5. Sends(h, Len(delivered[c]) + 1)
        BY <1>6, <1>7, <4>2, <4>3, <4>4 DEF Sends
      <4> QED BY <1>4, <1>7, <1>8, <2>1, <3>1, <4>1, <4>5 DEF StreamOf, InOrder
    <3>3. CASE peer[c] # "here"
      BY <1>3, <1>4, <1>7, <1>8, <3>1, <3>3 DEF StreamInv, StreamOf, InOrder
    <3> QED BY <3>2, <3>3
  <2>3. ASSUME NEW d \in Clients, d # c PROVE StreamOf(d)'
    BY <1>2, <1>3, <1>8, <2>1, <2>3, StreamKept DEF StreamInv
  <2> QED BY <2>2, <2>3 DEF StreamInv
<1> QED BY <1>10, <1>11, <1>13, <1>14 DEF Inv

(* The connection that is being sent to, while send() waits.               *)
LEMMA SendingProperties ==
  ASSUME Inv, Walking("send"), NEW c, c = Current
  PROVE  /\ c \in Clients /\ c \in loop.writes /\ c \notin loop.reads
         /\ handler[c] \in Handlers /\ handler[c].end = "open"
         /\ handler[c].queue # << >> /\ peer[c] # "away"
         /\ InOrder(c)
         /\ peer[c] = "here" => Sends(handler[c], Len(delivered[c]) + 1)
         /\ handler[c].queue[1] \in Buffers /\ Quantum(handler[c].queue[1]) \in Int
         /\ Head(handler[c].queue) = handler[c].queue[1]
<1>1. TypeOK /\ MembersInv /\ RoundInv /\ StreamInv /\ loop.at = "send" /\ Ahead # {}
  BY DEF Inv, Walking
<1>2. c \in Clients /\ c \in loop.writes /\ c \notin loop.reads
  BY <1>1, CurrentProperties DEF RoundInv
<1>3. handler[c] \in Handlers /\ handler[c].end = "open" /\ handler[c].queue # << >>
  BY <1>1, <1>2 DEF TypeOK, RoundInv
<1>4. handler[c].queue[1] \in Buffers /\ Head(handler[c].queue) = handler[c].queue[1]
  BY <1>3, HeadTailProperties DEF Handlers
<1>5. Quantum(handler[c].queue[1]) \in Int
  BY <1>4, QuantumRange
<1>6. StreamOf(c) /\ Sending(c) /\ peer[c] # "away"
  BY <1>1, <1>2, <1>3 DEF StreamInv, Sending, MembersInv
<1> QED BY <1>2, <1>3, <1>4, <1>5, <1>6 DEF StreamOf

LEMMA SendByteKeepsInv ==
  ASSUME Inv, SendByte
  PROVE  Inv'
<1>1. PICK c : c = Current
  OBVIOUS
<1> DEFINE b == handler[c].queue[1]
           h == [handler[c] EXCEPT !.left = @ - 1, !.from = @ + 1]
<1>2. /\ Walking("send") /\ peer[c] = "here" /\ handler[c].left > 0 /\ room[c] > 0
      /\ room' = [room EXCEPT ![c] = @ - 1]
      /\ delivered' = [delivered EXCEPT ![c] = Append(@, handler[c].from)]
      /\ handler' = [handler EXCEPT ![c] = h]
      /\ UNCHANGED << peer, inbox, count, backlog, conns, loop >>
  BY <1>1 DEF SendByte
<1>3. TypeOK /\ MembersInv /\ InputInv /\ RoundInv /\ StreamInv
  BY DEF Inv
<1>4. /\ c \in Clients /\ handler[c] \in Handlers /\ handler[c].end = "open"
      /\ InOrder(c) /\ Sends(handler[c], Len(delivered[c]) + 1)
      /\ b \in Buffers /\ Quantum(b) \in Int
  BY <1>1, <1>2, SendingProperties
<1>5. /\ handler \in [Clients -> Handlers] /\ room \in [Clients -> 0 .. Window]
      /\ delivered \in [Clients -> Seq(Nat)] /\ delivered[c] \in Seq(Nat)
      /\ Len(delivered[c]) \in Nat
  BY <1>3, <1>4 DEF TypeOK
<1>6. /\ Holds(handler[c], b.first + b.pos) /\ handler[c].left \in 0 .. Quantum(b)
      /\ handler[c].from = Len(delivered[c]) + 1
      /\ Len(delivered[c]) + 1 + handler[c].left = b.first + b.pos + Quantum(b)
      /\ handler[c].left \in Int
  BY <1>4 DEF Sends, Handlers
<1>7. /\ h \in Handlers /\ h.queue = handler[c].queue /\ h.written = handler[c].written
      /\ h.end = handler[c].end /\ h.left = handler[c].left - 1 /\ h.from = handler[c].from + 1
  <2> DEFINE old == handler[c]
  <2>1. old \in Handlers /\ old.left - 1 \in Int /\ old.from + 1 \in Int
    BY <1>4 DEF Handlers
  <2>2. h = [old EXCEPT !.left = old.left - 1, !.from = old.from + 1]
    OBVIOUS
  <2> HIDE DEF h, old
  <2>3. /\ h \in Handlers /\ h.queue = old.queue /\ h.written = old.written
        /\ h.end = old.end /\ h.left = old.left - 1 /\ h.from = old.from + 1
    BY <2>1, <2>2 DEF Handlers
  <2> QED BY <2>3 DEF old
<1> HIDE DEF h, b
<1>8. /\ handler' \in [Clients -> Handlers] /\ handler'[c] = h
      /\ \A d \in Clients : d # c => handler'[d] = handler[d]
  BY <1>2, <1>4, <1>5, <1>7
<1>9. /\ Append(delivered[c], handler[c].from) \in Seq(Nat)
      /\ Len(Append(delivered[c], handler[c].from)) = Len(delivered[c]) + 1
      /\ \A i \in 1 .. Len(delivered[c]) :
           Append(delivered[c], handler[c].from)[i] = delivered[c][i]
      /\ Append(delivered[c], handler[c].from)[Len(delivered[c]) + 1] = handler[c].from
  BY <1>5, <1>6, AppendProperties
<1>10. /\ delivered' \in [Clients -> Seq(Nat)]
       /\ delivered'[c] = Append(delivered[c], handler[c].from)
       /\ \A d \in Clients : d # c => delivered'[d] = delivered[d]
  BY <1>2, <1>4, <1>5, <1>9
<1>11. room' \in [Clients -> 0 .. Window]
  BY <1>2, <1>4, <1>5, ServerAssumption
<1>12. TypeOK' /\ InputInv'
  BY <1>2, <1>3, <1>8, <1>10, <1>11 DEF TypeOK, InputInv
<1>13. MembersInv'
  BY <1>2, <1>3, <1>4, <1>7, <1>8, MembersKept
<1>14. RoundInv' /\ \A d \in Clients : Sending(d)' <=> Sending(d)
  BY <1>2, <1>3, <1>7, <1>8, RoundKept
<1>15. StreamInv'
  <2>1. InOrder(c)'
    <3>1. delivered[c] = [k \in 1 .. Len(delivered[c]) |-> k]
      BY <1>4 DEF InOrder
    <3> DEFINE got == delivered'[c]
               all == [k \in 1 .. Len(delivered[c]) + 1 |-> k]
    <3>2. got \in Seq(Nat) /\ Len(got) = Len(delivered[c]) + 1
      BY <1>9, <1>10
    <3>3. \A k \in 1 .. Len(delivered[c]) : got[k] = k
      BY <1>9, <1>10, <3>1
    <3>4. got[Len(delivered[c]) + 1] = Len(delivered[c]) + 1
      BY <1>6, <1>9, <1>10
    <3> HIDE DEF got
    <3>5. \A k \in 1 .. Len(delivered[c]) + 1 : got[k] = k
      BY <1>5, <3>3, <3>4
    <3>6. got = all
      BY <3>2, <3>5
    <3> QED BY <3>2, <3>6 DEF InOrder, got
  <2>2. StreamOf(c)'
    <3>1. Sending(c) /\ Sending(c)'
      BY <1>1, <1>2, <1>4, <1>14 DEF Walking, Sending
    <3>2. Len(delivered'[c]) = Len(delivered[c]) + 1
      BY <1>9, <1>10
    <3>3. Sends(h, Len(delivered'[c]) + 1)
      <4>1. Holds(h, b.first + b.pos)
        <5>1. b.first + b.pos \in Int
          BY <1>4 DEF Buffers
        <5> QED BY <1>4, <1>6, <1>7, <5>1, HoldsByQueue
      <4>2. /\ h.left \in 0 .. Quantum(b) /\ h.from = Len(delivered'[c]) + 1
            /\ Len(delivered'[c]) + 1 + h.left = b.first + b.pos + Quantum(b)
        <5>1. h.left \in 0 .. Quantum(b) /\ h.from = Len(delivered'[c]) + 1
          BY <1>2, <1>4, <1>5, <1>6, <1>7, <3>2
        <5>2. Len(delivered'[c]) + 1 + h.left = Len(delivered[c]) + 1 + handler[c].left
          <6>1. \A x, y \in Int : ((x + 1) + 1) + (y - 1) = (x + 1) + y
            OBVIOUS
          <6>2. Len(delivered[c]) \in Int
            BY <1>5
          <6>3. ((Len(delivered[c]) + 1) + 1) + (handler[c].left - 1)
                  = (Len(delivered[c]) + 1) + handler[c].left
            BY <1>6, <6>1, <6>2, Zenon
          <6> QED BY <1>7, <3>2, <6>3, Zenon
        <5> QED BY <1>6, <5>1, <5>2
      <4> QED BY <1>7, <4>1, <4>2 DEF Sends, b
    <3>4. handler'[c].end # "none"
      BY <1>4, <1>7, <1>8
    <3> QED BY <1>8, <2>1, <3>1, <3>3, <3>4 DEF StreamOf
  <2>3. ASSUME NEW d \in Clients, d # c PROVE StreamOf(d)'
    BY <1>2, <1>3, <1>8, <1>10, <1>14, <2>3, StreamKept DEF StreamInv
  <2> QED BY <2>2, <2>3 DEF StreamInv
<1> QED BY <1>12, <1>13, <1>14, <1>15 DEF Inv

(* The handler send() returns to; if the client is still there, it took    *)
(* everything it was given.                                                *)
After(c) ==
  LET n == Quantum(Head(handler[c].queue))
      k == n - handler[c].left
  IN Sent(handler[c], n, IF handler[c].left > 0 /\ k = 0 THEN -1 ELSE k)

LEMMA AfterProperties ==
  ASSUME Inv, Walking("send"), NEW c, c = Current
  PROVE  /\ After(c) \in Handlers /\ After(c).written = handler[c].written
         /\ After(c).end = "open"
         /\ peer[c] = "here" /\ handler[c].left = 0 =>
              Holds(After(c), Len(delivered[c]) + 1)
<1> DEFINE b == handler[c].queue[1]
           n == Quantum(b)
           k == n - handler[c].left
           took == IF handler[c].left > 0 /\ k = 0 THEN -1 ELSE k
<1>1. /\ c \in Clients /\ handler[c] \in Handlers /\ handler[c].end = "open"
      /\ handler[c].queue # << >> /\ InOrder(c)
      /\ peer[c] = "here" => Sends(handler[c], Len(delivered[c]) + 1)
      /\ b \in Buffers /\ n \in Int /\ Head(handler[c].queue) = b
  BY SendingProperties
<1>2. k \in Int /\ took \in Int /\ (handler[c].left = 0 => took = n)
  BY <1>1 DEF Handlers
<1>3. After(c) = Sent(handler[c], n, took)
  BY <1>1 DEF After
<1>4. /\ After(c) \in Handlers /\ After(c).written = handler[c].written
      /\ After(c).end = "open"
      /\ \A next \in Int : Holds(handler[c], next) /\ took = n => Holds(After(c), next + n)
  BY <1>1, <1>2, <1>3, SentProperties
<1> HIDE DEF b, n, took
<1>5. ASSUME peer[c] = "here", handler[c].left = 0
      PROVE  Holds(After(c), Len(delivered[c]) + 1)
  <2>1. Len(delivered[c]) \in Nat
    BY <1>1 DEF Inv, TypeOK
  <2>2. /\ Holds(handler[c], b.first + b.pos)
        /\ Len(delivered[c]) + 1 + 0 = b.first + b.pos + n
    BY <1>1, <1>5 DEF Sends, b, n
  <2>3. b.first + b.pos \in Int
    BY <1>1 DEF Buffers
  <2>4. Len(delivered[c]) + 1 = b.first + b.pos + n
    BY <2>1, <2>2, <2>3
  <2>5. Holds(After(c), b.first + b.pos + n)
    BY <1>2, <1>4, <1>5, <2>2, <2>3
  <2> QED BY <2>4, <2>5
<1> QED BY <1>4, <1>5

LEMMA WriteEndsKeepsInv ==
  ASSUME Inv, WriteEnds
  PROVE  Inv'
<1>1. PICK c : c = Current
  OBVIOUS
<1>2. /\ Walking("send") /\ UNCHANGED << peer, inbox, count, room, delivered, backlog >>
      /\ loop.at = "send" /\ Ahead # {}
      /\ handler[c].left = 0 \/ peer[c] = "left"
      /\ IF CanClose(After(c))
         THEN Erase(c, "closed")
         ELSE /\ handler' = [handler EXCEPT ![c] = After(c)]
              /\ loop' = [[loop EXCEPT !.todo = @ \ {c}, !["writes"] = @ \ {c}] EXCEPT !.at = "walk"]
              /\ UNCHANGED conns
  BY <1>1 DEF WriteEnds, Walking, outside, Served, After
<1>3. TypeOK /\ MembersInv /\ InputInv /\ RoundInv /\ StreamInv
  BY DEF Inv
<1>4. /\ c \in Clients /\ handler[c].end = "open" /\ InOrder(c) /\ peer[c] # "away"
      /\ c \in loop.writes /\ c \notin loop.reads
  BY <1>1, <1>2, SendingProperties
<1>5. CASE CanClose(After(c))
  BY <1>1, <1>2, <1>3, <1>5, EraseKeepsInv DEF TypeOK, InputInv, Erase
<1>6. CASE ~ CanClose(After(c))
  <2>1. PICK after \in Handlers :
          /\ after = After(c) /\ after.written = handler[c].written /\ after.end = "open"
          /\ peer[c] = "here" /\ handler[c].left = 0 => Holds(after, Len(delivered[c]) + 1)
    BY <1>1, <1>2, AfterProperties
  <2>2. /\ handler' = [handler EXCEPT ![c] = after]
        /\ loop' = [[loop EXCEPT !.todo = @ \ {c}, !["writes"] = @ \ {c}] EXCEPT !.at = "walk"]
        /\ UNCHANGED conns
    BY <1>2, <1>6, <2>1
  <2>3. /\ handler' \in [Clients -> Handlers] /\ handler'[c] = after
        /\ \A d \in Clients : d # c => handler'[d] = handler[d]
    BY <1>3, <1>4, <2>1, <2>2 DEF TypeOK
  <2>4. /\ loop' \in [at : {"select", "accept", "walk", "send"}, i : Nat \ {0},
                      reads : SUBSET Clients, writes : SUBSET Clients, todo : SUBSET Clients]
        /\ loop'.at = "walk" /\ loop'.i = loop.i /\ loop'.reads = loop.reads
        /\ loop'.writes = loop.writes \ {c} /\ loop'.todo = loop.todo \ {c}
    BY <1>3, <2>2 DEF TypeOK
  <2>5. TypeOK' /\ InputInv'
    BY <1>2, <1>3, <2>2, <2>3, <2>4 DEF TypeOK, InputInv
  <2>6. MembersInv'
    BY <1>2, <1>3, <1>4, <2>1, <2>2, <2>3, <2>4, MembersKept
  <2>7. RoundInv'
    <3>1. \A d \in loop'.reads \cup loop'.writes \cup loop'.todo :
            handler'[d] = handler[d] /\ handler[d].end = "open"
      BY <1>3, <1>4, <2>3, <2>4 DEF RoundInv, TypeOK
    <3>2. \A d \in loop'.writes : handler'[d].queue # << >>
      BY <1>3, <2>4, <3>1 DEF RoundInv
    <3>3. \A i \in 1 .. Len(conns) : conns[i] \in loop'.todo =>
            i >= loop'.i /\ conns[i] \in loop'.reads \cup loop'.writes
      BY <1>3, <2>4 DEF RoundInv
    <3> QED BY <2>2, <2>4, <3>1, <3>2, <3>3 DEF RoundInv
  <2>8. StreamInv'
    <3>1. \A d \in Clients : ~ Sending(d)' /\ (d # c => ~ Sending(d))
      BY <1>1, <2>4 DEF Sending
    <3>2. StreamOf(c)'
      <4>1. UNCHANGED << delivered[c], peer[c] >>
        BY <1>2
      <4>2. peer[c] = "here" => Holds(after, Len(delivered[c]) + 1)
        BY <1>2, <2>1
      <4> QED BY <1>4, <2>1, <2>3, <3>1, <4>1, <4>2 DEF StreamOf, InOrder
    <3>3. ASSUME NEW d \in Clients, d # c PROVE StreamOf(d)'
      BY <1>2, <1>3, <2>3, <3>1, <3>3, StreamKept DEF StreamInv
    <3> QED BY <3>2, <3>3 DEF StreamInv
  <2> QED BY <2>5, <2>6, <2>7, <2>8 DEF Inv
<1> QED BY <1>5, <1>6

-----------------------------------------------------------------------------
LEMMA InitInv == Init => Inv
<1> SUFFICES ASSUME Init PROVE Inv
  OBVIOUS
<1>1. NoHandler \in Handlers /\ NoHandler.end = "none" /\ NoHandler.written = 0
      /\ NoHandler.queue = << >>
  BY EmptySeq DEF NoHandler, Handlers
<1>2. \A c \in Clients : handler[c] = NoHandler /\ peer[c] = "away" /\ inbox[c] = << >>
                          /\ delivered[c] = << >>
  BY DEF Init
<1>3. /\ conns = << >> /\ backlog = << >> /\ Len(conns) = 0 /\ Len(backlog) = 0
      /\ loop = [at |-> "select", i |-> 1, reads |-> {}, writes |-> {}, todo |-> {}]
  BY EmptySeq DEF Init, Now
<1>4. TypeOK
  <2>1. << >> \in Seq(Nat) /\ << >> \in Seq(Clients) /\ << >> \in Seq(Chunks \cup Leavings)
    BY EmptySeq
  <2> QED BY <1>1, <1>3, <2>1, ServerAssumption DEF Init, TypeOK
<1>5. MembersInv
  BY <1>1, <1>2, <1>3 DEF MembersInv, Distinct, Among
<1>6. InputInv
  <2>1. Len(<< >>) = 0
    BY EmptySeq
  <2> QED BY <1>2, <1>3, <2>1 DEF InputInv
<1>7. RoundInv
  BY <1>3 DEF RoundInv
<1>8. StreamInv
  <2>1. \A c \in Clients : delivered[c] = [k \in 1 .. Len(delivered[c]) |-> k]
    BY <1>2, EmptySeq
  <2> QED BY <1>1, <1>2, <2>1 DEF StreamInv, StreamOf, InOrder
<1> QED BY <1>4, <1>5, <1>6, <1>7, <1>8 DEF Inv

LEMMA StepKeepsInv == Inv /\ [Next]_vars => Inv'
<1> SUFFICES ASSUME Inv, [Next]_vars PROVE Inv'
  OBVIOUS
<1>1. CASE Loop
  BY <1>1, SelectKeepsInv, AcceptKeepsInv, ReadChunkKeepsInv, ReadEndsKeepsInv,
     WriteStartsKeepsInv, SendByteKeepsInv, WriteEndsKeepsInv, RoundEndsKeepsInv DEF Loop
<1>2. CASE World
  BY <1>2, ConnectKeepsInv, ReceiveKeepsInv, EventKeepsInv, SendKeepsInv, LeaveKeepsInv DEF World
<1>3. CASE UNCHANGED vars
  <2>1. /\ TypeOK /\ MembersInv /\ InputInv /\ RoundInv /\ StreamInv
        /\ UNCHANGED << peer, inbox, count, room, delivered, backlog, conns, handler, loop >>
    BY <1>3 DEF Inv, vars, outside
  <2>2. TypeOK' /\ MembersInv' /\ InputInv'
    BY <2>1 DEF TypeOK, MembersInv, InputInv
  <2>3. RoundInv' /\ \A c \in Clients : Sending(c)' <=> Sending(c)
    BY <2>1, RoundKept
  <2>4. StreamInv'
    BY <2>1, <2>3, StreamKept DEF StreamInv
  <2> QED BY <2>2, <2>3, <2>4 DEF Inv
<1> QED BY <1>1, <1>2, <1>3 DEF Next

LEMMA Invariant == Spec => []Inv
BY InitInv, StepKeepsInv, PTL DEF Spec

(* Every variable of a server stays in its range, and the vector of        *)
(* connections within maxConnections.                                      *)
THEOREM TypeCorrect == Spec => []TypeOK
<1>1. Inv => TypeOK
  BY DEF Inv
<1> QED BY <1>1, Invariant, PTL

(* The walk misses nobody: when a round is over, whoever select reported   *)
(* has been served or is gone from the vector, whatever was erased from it *)
(* or added to it on the way (TCPserver::runNonBlock).                     *)
THEOREM NobodyMissed == Spec => RoundServesAll
<1>1. Inv => (RoundEnds => loop.todo \cap ToSet(conns) = {})
  <2> SUFFICES ASSUME Inv, RoundEnds, NEW c \in loop.todo \cap ToSet(conns) PROVE FALSE
    OBVIOUS
  <2>1. TypeOK /\ RoundInv /\ Ahead = {}
    BY DEF Inv, RoundEnds
  <2>2. PICK i \in 1 .. Len(conns) : conns[i] = c
    BY DEF ToSet
  <2>3. i >= loop.i /\ conns[i] \in loop.reads \cup loop.writes
    BY <2>1, <2>2 DEF RoundInv
  <2>4. i \in Ahead
    <3>1. loop.i \in Nat /\ Len(conns) \in Nat
      BY <2>1 DEF TypeOK
    <3>2. i \in loop.i .. Len(conns)
      BY <2>3, <3>1
    <3> QED BY <2>3, <3>2 DEF Ahead
  <2> QED BY <2>1, <2>4
<1>2. Inv /\ [Next]_vars => [RoundEnds => loop.todo \cap ToSet(conns) = {}]_vars
  BY <1>1
<1> QED BY <1>2, Invariant, PTL DEF Spec, RoundServesAll

-----------------------------------------------------------------------------
(* The server as ByteStream sees it.                                       *)
LEMMA StreamTypes ==
  ASSUME Inv, NEW c \in Clients
  PROVE  /\ handler[c].end \in {"none", "open", "closed", "cut"}
         /\ peer[c] \in {"away", "here", "left"}
         /\ handler[c].written \in Nat
         /\ Received(c) = Len(delivered[c]) /\ Len(delivered[c]) \in Nat
BY DEF Inv, TypeOK, Handlers, StreamInv, StreamOf, Received

(* A step that changes neither who is connected nor what is written or     *)
(* sent is none of ByteStream's.                                           *)
LEMMA Stutters ==
  ASSUME \A c \in Clients : StateOf(c)' = StateOf(c),
         \A c \in Clients : handler'[c].written = handler[c].written,
         UNCHANGED delivered
  PROVE  UNCHANGED Stream!streams
<1>1. \A c \in Clients : Received(c)' = Received(c)
  BY DEF Received, InOrder
<1> QED BY <1>1 DEF Stream!streams

(* One client's connection begins or ends, and nothing is lost.            *)
LEMMA Becomes ==
  ASSUME NEW c \in Clients, NEW from, NEW to, StateOf(c) \in from, StateOf(c)' = to,
         \A d \in Clients : d # c => StateOf(d)' = StateOf(d),
         \A d \in Clients : handler'[d].written = handler[d].written,
         UNCHANGED delivered
  PROVE  Stream!Become(c, from, to)
<1>1. \A d \in Clients : Received(d)' = Received(d)
  BY DEF Received, InOrder
<1> QED BY <1>1 DEF Stream!Become

LEMMA ErasedOnStream ==
  ASSUME Inv, Ahead # {}, NEW how \in {"closed", "cut"}, Erase(Current, how),
         UNCHANGED << peer, delivered >>,
         how = "closed" /\ peer[Current] = "here" =>
           Len(delivered[Current]) = handler[Current].written
  PROVE  Stream!Next
<1>1. PICK c : c = Current
  OBVIOUS
<1>2. c \in Clients /\ handler[c].end = "open" /\ peer[c] # "away"
  <2>1. TypeOK /\ RoundInv /\ MembersInv
    BY DEF Inv
  <2> QED BY <1>1, <2>1, CurrentProperties DEF RoundInv, MembersInv
<1>3. /\ handler \in [Clients -> Handlers]
      /\ handler' = [handler EXCEPT ![c] =
                      [NoHandler EXCEPT !.written = handler[c].written, !.end = how]]
  BY <1>1 DEF Inv, TypeOK, Erase
<1>4. /\ handler'[c].end = how /\ handler'[c].written = handler[c].written
      /\ \A d \in Clients : d # c => handler'[d] = handler[d]
  BY <1>2, <1>3 DEF NoHandler
<1>5. /\ StateOf(c) = (IF peer[c] = "left" THEN "left" ELSE "open") /\ StateOf(c)' = how
      /\ \A d \in Clients : d # c => StateOf(d)' = StateOf(d)
      /\ \A d \in Clients : handler'[d].written = handler[d].written
  BY <1>2, <1>4 DEF StateOf
<1>6. CASE how = "cut"
  <2>1. Stream!Become(c, {"absent", "open", "left"}, "cut")
    BY <1>2, <1>5, <1>6, Becomes
  <2> QED BY <1>2, <2>1 DEF Stream!Next, Stream!Cut
<1>7. CASE how = "closed"
  <2>1. Stream!Become(c, {"open", "left"}, "closed")
    BY <1>2, <1>5, <1>7, Becomes
  <2>2. StateOf(c) = "open" => Received(c) = handler[c].written
    BY <1>1, <1>2, <1>5, <1>7, StreamTypes
  <2> QED BY <1>2, <2>1, <2>2 DEF Stream!Next, Stream!Finish
<1> QED BY <1>6, <1>7

LEMMA WorldOnStream ==
  ASSUME Inv, World
  PROVE  Stream!Next \/ UNCHANGED Stream!streams
<1>1. ASSUME NEW c \in Clients, Connect(c) \/ Receive(c) \/ Event(c)
                                \/ \E what \in Asks[c] \cap Chunks : Send(c, what)
      PROVE  UNCHANGED Stream!streams
  <2>1. UNCHANGED delivered /\ handler \in [Clients -> Handlers]
    BY <1>1 DEF Connect, Receive, Event, Send, Inv, TypeOK
  <2>2. \A d \in Clients : /\ handler'[d].end = handler[d].end
                           /\ handler'[d].written = handler[d].written
    BY <1>1, <2>1 DEF Connect, Receive, Event, Send, Handlers
  <2>3. \A d \in Clients : peer'[d] = "left" <=> peer[d] = "left"
    BY <1>1 DEF Connect, Receive, Event, Send, outside, Inv, TypeOK
  <2>4. \A d \in Clients : StateOf(d)' = StateOf(d)
    BY <2>2, <2>3 DEF StateOf
  <2> QED BY <2>1, <2>2, <2>4, Stutters
<1>2. ASSUME NEW c \in Clients, NEW how \in Leavings, Leave(c, how)
      PROVE  Stream!Next \/ UNCHANGED Stream!streams
  <2>1. /\ peer[c] = "here" /\ peer'[c] = "left" /\ UNCHANGED << delivered, handler >>
        /\ \A d \in Clients : d # c => peer'[d] = peer[d]
    BY <1>2 DEF Leave, Inv, TypeOK
  <2>2. \A d \in Clients : d # c => StateOf(d)' = StateOf(d)
    BY <2>1 DEF StateOf
  <2>3. CASE handler[c].end \in {"none", "open"}
    <3>1. StateOf(c) \in {"absent", "open"} /\ StateOf(c)' = "left"
      BY <2>1, <2>3 DEF StateOf
    <3>2. Stream!Become(c, {"absent", "open"}, "left")
      BY <2>1, <2>2, <3>1, Becomes
    <3> QED BY <3>2 DEF Stream!Next, Stream!Leave
  <2>4. CASE handler[c].end \notin {"none", "open"}
    <3>1. StateOf(c)' = StateOf(c)
      BY <2>1, <2>4 DEF StateOf
    <3> QED BY <2>1, <2>2, <3>1, Stutters
  <2> QED BY <2>3, <2>4
<1> QED BY <1>1, <1>2 DEF World

LEMMA AcceptOnStream ==
  ASSUME Inv, Accept
  PROVE  Stream!Next \/ UNCHANGED Stream!streams
<1>1. PICK c : c = Head(backlog)
  OBVIOUS
<1>2. PICK end \in {"open", "cut"} :
        handler' = [handler EXCEPT ![c].end = end] /\ UNCHANGED << peer, delivered >>
  BY <1>1 DEF Accept, outside
<1>3. c \in Clients /\ Among(c, backlog)
  <2>1. backlog \in Seq(Clients) /\ backlog # << >> /\ Len(backlog) \in Nat
    BY DEF Inv, TypeOK, MembersInv, Accept
  <2>2. c \in Clients /\ c = backlog[1] /\ Len(backlog) # 0
    BY <1>1, <2>1, HeadTailProperties, EmptySeq
  <2> QED BY <2>1, <2>2 DEF Among
<1>4. handler[c].end = "none" /\ peer[c] # "away" /\ handler \in [Clients -> Handlers]
  BY <1>3 DEF Inv, MembersInv, TypeOK
<1>5. /\ handler'[c].end = end /\ handler'[c].written = handler[c].written
      /\ \A d \in Clients : d # c => handler'[d] = handler[d]
  BY <1>2, <1>3, <1>4 DEF Handlers
<1>6. /\ StateOf(c) = (IF peer[c] = "left" THEN "left" ELSE "absent")
      /\ StateOf(c)' = (IF end = "open" /\ peer[c] = "left" THEN "left" ELSE end)
      /\ \A d \in Clients : d # c => StateOf(d)' = StateOf(d)
      /\ \A d \in Clients : handler'[d].written = handler[d].written
  BY <1>2, <1>4, <1>5 DEF StateOf
<1>7. CASE end = "cut"
  <2>1. Stream!Become(c, {"absent", "open", "left"}, "cut")
    BY <1>2, <1>3, <1>6, <1>7, Becomes
  <2> QED BY <1>3, <2>1 DEF Stream!Next, Stream!Cut
<1>8. CASE end = "open" /\ peer[c] = "left"
  BY <1>2, <1>6, <1>8, Stutters
<1>9. CASE end = "open" /\ peer[c] # "left"
  <2>1. Stream!Become(c, {"absent"}, "open")
    BY <1>2, <1>3, <1>6, <1>9, Becomes
  <2> QED BY <1>3, <2>1 DEF Stream!Next, Stream!Open
<1> QED BY <1>7, <1>8, <1>9

LEMMA ReadOnStream ==
  ASSUME Inv, ReadChunk
  PROVE  Stream!Next \/ UNCHANGED Stream!streams
<1>1. PICK c : c = Current
  OBVIOUS
<1>2. /\ Ahead # {} /\ c \in loop.reads
      /\ Head(inbox[c]) \in {"part", "page", "file", "wait"}
      /\ handler' = [handler EXCEPT ![c] = Answer(@, Head(inbox[c]))]
      /\ UNCHANGED << peer, delivered >>
  BY <1>1 DEF ReadChunk, Walking, Recv
<1>3. c \in Clients /\ handler[c].end = "open" /\ handler \in [Clients -> Handlers]
      /\ handler[c] \in Handlers
  <2>1. TypeOK /\ RoundInv
    BY DEF Inv
  <2> QED BY <1>1, <1>2, <2>1, CurrentProperties DEF RoundInv, TypeOK
<1>4. PICK h \in Handlers :
        /\ h = Answer(handler[c], Head(inbox[c])) /\ h.end = handler[c].end
        /\ \/ h.written = handler[c].written
           \/ \E n \in 1 .. Packet + 2 : h.written = handler[c].written + n
  BY <1>2, <1>3, AnswerProperties
<1>5. handler'[c] = h /\ \A d \in Clients : d # c => handler'[d] = handler[d]
  BY <1>2, <1>3, <1>4
<1>6. \A d \in Clients : StateOf(d)' = StateOf(d) /\ Received(d)' = Received(d)
  BY <1>2, <1>4, <1>5 DEF StateOf, Received, InOrder
<1>7. CASE h.written = handler[c].written
  BY <1>2, <1>5, <1>6, <1>7, Stutters
<1>8. CASE \E n \in 1 .. Packet + 2 : h.written = handler[c].written + n
  <2>1. PICK n \in 1 .. Packet + 2 : h.written = handler[c].written + n
    BY <1>8
  <2>2. StateOf(c) \in {"open", "left"}
    BY <1>3 DEF StateOf
  <2>3. [d \in Clients |-> handler'[d].written] =
          [[d \in Clients |-> handler[d].written] EXCEPT ![c] = handler[c].written + n]
    BY <1>3, <1>5, <2>1
  <2>4. Stream!Write(c, n)
    BY <1>3, <1>6, <2>2, <2>3 DEF Stream!Write
  <2> QED BY <1>3, <2>4 DEF Stream!Next
<1> QED BY <1>4, <1>7, <1>8

LEMMA SendByteOnStream ==
  ASSUME Inv, SendByte
  PROVE  Stream!Next
<1>1. PICK c : c = Current
  OBVIOUS
<1> DEFINE b == handler[c].queue[1]
<1>2. /\ Walking("send") /\ peer[c] = "here" /\ handler[c].left > 0
      /\ delivered' = [delivered EXCEPT ![c] = Append(@, handler[c].from)]
      /\ handler' = [handler EXCEPT ![c] =
                       [handler[c] EXCEPT !.left = @ - 1, !.from = @ + 1]]
      /\ UNCHANGED peer
  BY <1>1 DEF SendByte
<1>3. /\ c \in Clients /\ handler[c] \in Handlers /\ handler[c].end = "open"
      /\ handler[c].queue # << >>
      /\ Sends(handler[c], Len(delivered[c]) + 1) /\ b \in Buffers
  BY <1>1, <1>2, SendingProperties
<1>4. handler \in [Clients -> Handlers] /\ delivered \in [Clients -> Seq(Nat)] /\ Inv'
  BY SendByteKeepsInv DEF Inv, TypeOK
<1>5. \A d \in Clients : /\ handler'[d].end = handler[d].end
                         /\ handler'[d].written = handler[d].written
  BY <1>2, <1>3, <1>4 DEF Handlers
<1>6. \A d \in Clients : StateOf(d)' = StateOf(d)
  BY <1>2, <1>5 DEF StateOf
<1>7. /\ Len(delivered'[c]) = Len(delivered[c]) + 1
      /\ \A d \in Clients : d # c => delivered'[d] = delivered[d]
  BY <1>2, <1>3, <1>4, AppendProperties DEF Handlers
<1>8. [d \in Clients |-> Received(d)'] =
        [[d \in Clients |-> Received(d)] EXCEPT ![c] = Received(c) + 1]
  <2>1. \A d \in Clients : Received(d) = Len(delivered[d]) /\ Received(d)' = Len(delivered'[d])
    BY <1>4, StreamTypes DEF Inv, StreamInv, StreamOf, Received
  <2> QED BY <1>3, <1>7, <2>1
<1>9. Received(c) + 1 <= handler[c].written
  <2>1. /\ handler[c].left \in Int /\ handler[c].left >= 1 /\ handler[c].written \in Nat
        /\ Len(handler[c].queue) \in Nat /\ Len(handler[c].queue) # 0
    BY <1>2, <1>3, EmptySeq DEF Handlers
  <2>2. /\ Holds(handler[c], b.first + b.pos)
        /\ Len(delivered[c]) + 1 + handler[c].left = b.first + b.pos + Quantum(b)
    BY <1>3 DEF Sends
  <2>3. b.first + b.size <= handler[c].written + 1
    BY <2>1, <2>2 DEF Holds
  <2>4. Quantum(b) \in Int /\ Quantum(b) <= b.size - b.pos
    BY <1>3, QuantumRange DEF Bytes
  <2>5. Len(delivered[c]) + 1 + handler[c].left <= handler[c].written + 1
    <3> HIDE DEF b
    <3>1. b.first \in Int /\ b.pos \in Int /\ b.size \in Int
      BY <1>3 DEF Buffers
    <3>2. \A first, pos, size, n, last \in Int :
            n <= size - pos /\ first + size <= last => first + pos + n <= last
      OBVIOUS
    <3>3. handler[c].written + 1 \in Int
      BY <2>1
    <3>4. b.first + b.pos + Quantum(b) <= handler[c].written + 1
      BY <2>3, <2>4, <3>1, <3>2, <3>3, Zenon
    <3> QED BY <2>2, <3>4
  <2> QED BY <1>3, <2>1, <2>5, StreamTypes
<1>10. StateOf(c) = "open"
  BY <1>2, <1>3 DEF StateOf
<1>11. Stream!Deliver(c, 1)
  BY <1>3, <1>5, <1>6, <1>8, <1>9, <1>10 DEF Stream!Deliver
<1>12. 1 \in 1 .. Packet + 2
  BY ServerAssumption
<1> QED BY <1>3, <1>11, <1>12 DEF Stream!Next

LEMMA WriteEndsOnStream ==
  ASSUME Inv, WriteEnds
  PROVE  Stream!Next \/ UNCHANGED Stream!streams
<1>1. PICK c : c = Current
  OBVIOUS
<1>2. /\ Walking("send") /\ UNCHANGED << peer, delivered >> /\ Ahead # {}
      /\ handler[c].left = 0 \/ peer[c] = "left"
      /\ IF CanClose(After(c)) THEN Erase(c, "closed")
                               ELSE handler' = [handler EXCEPT ![c] = After(c)]
  BY <1>1 DEF WriteEnds, Walking, outside, After
<1>3. /\ c \in Clients /\ handler[c].end = "open" /\ handler \in [Clients -> Handlers]
      /\ After(c).written = handler[c].written /\ After(c).end = "open"
      /\ peer[c] = "here" /\ handler[c].left = 0 => Holds(After(c), Len(delivered[c]) + 1)
  BY <1>1, <1>2, SendingProperties, AfterProperties DEF Inv, TypeOK
<1>4. CASE CanClose(After(c))
  <2>1. After(c).queue = << >>
    BY <1>4 DEF CanClose
  <2>2. peer[c] = "here" => Len(delivered[c]) + 1 = handler[c].written + 1
    BY <1>2, <1>3, <2>1 DEF Holds
  <2>3. peer[c] = "here" => Len(delivered[c]) = handler[c].written
    BY <1>3, <2>2, StreamTypes
  <2> QED BY <1>1, <1>2, <1>4, <2>3, ErasedOnStream
<1>5. CASE ~ CanClose(After(c))
  <2>1. handler' = [handler EXCEPT ![c] = After(c)]
    BY <1>2, <1>5
  <2>2. \A d \in Clients : /\ handler'[d].end = handler[d].end
                           /\ handler'[d].written = handler[d].written
    BY <1>3, <2>1
  <2>3. \A d \in Clients : StateOf(d)' = StateOf(d)
    BY <1>2, <2>2 DEF StateOf
  <2> QED BY <1>2, <2>2, <2>3, Stutters
<1> QED BY <1>4, <1>5

LEMMA ReadEndsOnStream ==
  ASSUME Inv, ReadEnds \/ ReadFails
  PROVE  Stream!Next
<1>1. PICK c : c = Current
  OBVIOUS
<1>2. PICK how \in {"closed", "cut"} :
        /\ Ahead # {} /\ c \in loop.reads /\ Erase(c, how) /\ UNCHANGED << peer, delivered >>
        /\ how = "closed" => Head(inbox[c]) \in Leavings
  BY <1>1 DEF ReadEnds, ReadFails, Walking, Recv, Leavings
<1>3. TypeOK /\ InputInv
  BY DEF Inv
<1>4. c \in Clients /\ inbox[c] # << >>
  BY <1>1, <1>2, <1>3, CurrentProperties DEF InputInv
<1>5. inbox[c] \in Seq(Chunks \cup Leavings) /\ Head(inbox[c]) = inbox[c][1]
      /\ 1 \in 1 .. Len(inbox[c])
  <2>1. inbox[c] \in Seq(Chunks \cup Leavings) /\ Len(inbox[c]) \in Nat /\ Len(inbox[c]) # 0
    BY <1>3, <1>4, EmptySeq DEF TypeOK
  <2> QED BY <2>1
<1>6. how = "closed" => peer[c] = "left"
  BY <1>2, <1>3, <1>4, <1>5 DEF InputInv
<1> QED BY <1>1, <1>2, <1>6, ErasedOnStream

LEMMA StepOnStream == Inv /\ [Next]_vars => [Stream!Next]_(Stream!streams)
<1> SUFFICES ASSUME Inv, [Next]_vars PROVE Stream!Next \/ UNCHANGED Stream!streams
  OBVIOUS
<1>1. CASE World
  BY <1>1, WorldOnStream
<1>2. CASE Select \/ WriteStarts \/ RoundEnds \/ UNCHANGED vars
  <2>1. UNCHANGED << peer, delivered >> /\ handler \in [Clients -> Handlers]
    BY <1>2 DEF Select, WriteStarts, RoundEnds, vars, outside, Inv, TypeOK
  <2>2. \A c \in Clients : /\ handler'[c].end = handler[c].end
                           /\ handler'[c].written = handler[c].written
    <3>1. CASE handler' = handler
      BY <3>1
    <3>2. CASE WriteStarts
      <4>1. PICK c, l, f : handler' = [handler EXCEPT ![c].left = l, ![c].from = f]
        BY <3>2 DEF WriteStarts
      <4> QED
        BY <2>1, <4>1 DEF Handlers
    <3> QED
      BY <1>2, <3>1, <3>2 DEF Select, RoundEnds, vars
  <2>3. \A c \in Clients : StateOf(c)' = StateOf(c)
    BY <2>1, <2>2 DEF StateOf
  <2> QED BY <2>1, <2>2, <2>3, Stutters
<1>3. CASE Accept \/ ReadChunk \/ ReadEnds \/ ReadFails \/ SendByte \/ WriteEnds
  BY <1>3, AcceptOnStream, ReadOnStream, ReadEndsOnStream, SendByteOnStream, WriteEndsOnStream
<1> QED BY <1>1, <1>2, <1>3 DEF Next, Loop

LEMMA InitOnStream == Init => Stream!Init
<1> SUFFICES ASSUME Init PROVE Stream!Init
  OBVIOUS
<1>1. \A c \in Clients : handler[c] = NoHandler /\ peer[c] = "away"
  BY DEF Init
<1>2. \A c \in Clients : StateOf(c) = "absent" /\ handler[c].written = 0
  BY <1>1 DEF StateOf, NoHandler
<1>3. \A c \in Clients : Received(c) = 0
  <2>1. Len(<< >>) = 0
    BY EmptySeq
  <2>2. \A c \in Clients : delivered[c] = << >>
    BY DEF Init
  <2> QED BY <2>1, <2>2, InitInv, StreamTypes
<1> QED BY <1>2, <1>3 DEF Stream!Init

(* The server keeps ByteStream's promise: each client is sent the bytes    *)
(* its handler wrote, each once and in order, and a client that stays is   *)
(* not closed on before it has them all.                                   *)
THEOREM Implements == Spec => StreamSpec
BY InitOnStream, StepOnStream, Invariant, PTL DEF Spec, StreamSpec, Stream!Spec
=========================================================================
