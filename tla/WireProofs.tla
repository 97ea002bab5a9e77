---------------------------- MODULE WireProofs ----------------------------
(***************************************************************************)
(* For every size of the buffers, every messages and request, every file   *)
(* and every cut of the two streams: the types of Wire, that the reader of *)
(* the slim protocol stays in step with the player, where a request ends,  *)
(* whom a page is about, that a page tells of one song, and that it is the *)
(* file with its marks filled.                                             *)
(*                                                                         *)
(* Both readers are proved by knowing where they are in a stream that is   *)
(* put together from parts: the bytes of the messages, the lines of the    *)
(* request.  The first lemmas say what such a stream is.                   *)
(***************************************************************************)
EXTENDS Wire, SequenceTheorems, FiniteSetTheorems, WellFoundedInduction, TLAPS

(* The least-number principle, and induction over a set of numbers.        *)
LEMMA LeastNumber ==
  ASSUME NEW S, S \subseteq Nat, S # {}
  PROVE  \E m \in S : \A n \in S : m <= n
<1> DEFINE R == OpToRel(<, Nat)
<1>1. IsWellFoundedOn(R, Nat)
  BY NatLessThanWellFounded
<1>2. \A m, n \in Nat : <<n, m>> \in R <=> n < m
  BY DEF OpToRel
<1> HIDE DEF R
<1>3. PICK m \in S : \A n \in S : ~ (<<n, m>> \in R)
  BY <1>1, WFMin
<1>4. ASSUME NEW n \in S PROVE m <= n
  <2>1. m \in Nat /\ n \in Nat
    OBVIOUS
  <2>2. ~ (n < m)
    BY <1>2, <1>3, <2>1, Zenon
  <2> QED BY <2>1, <2>2
<1> QED BY <1>4

LEMMA NumbersFromZero ==
  ASSUME NEW T, 0 \in T, \A n \in Nat : n \in T => n + 1 \in T
  PROVE  Nat \subseteq T
<1> SUFFICES ASSUME Nat \ T # {} PROVE FALSE
  OBVIOUS
<1>1. PICK m \in Nat \ T : \A n \in Nat \ T : m <= n
  BY LeastNumber
<1>2. m - 1 \in Nat /\ m - 1 \in T
  BY <1>1
<1> QED BY <1>1, <1>2

(* A value for each of 0 .. n, made from the one before.                   *)
Steps(f, n, v, step) ==
  f[0] = v /\ \A k \in 1 .. n : f[k] = step[<<k, f[k - 1]>>]

LEMMA StepByStep ==
  ASSUME NEW n \in Nat, NEW V, NEW v \in V, NEW step \in [(1 .. n) \X V -> V]
  PROVE  \E f \in [0 .. n -> V] : Steps(f, n, v, step)
<1> DEFINE D == 0 .. n
           T == {m \in Nat : \E f \in [D -> V] :
                   \A k \in D : k <= m => f[k] = IF k = 0 THEN v ELSE step[<<k, f[k - 1]>>]}
<1>1. 0 \in T
  <2> DEFINE f == [k \in D |-> v]
  <2>1. f \in [D -> V] /\ f[0] = v
    OBVIOUS
  <2>2. \A k \in D : k <= 0 => k = 0
    OBVIOUS
  <2> HIDE DEF f, D
  <2> QED BY <2>1, <2>2
<1>2. ASSUME NEW m \in Nat, m \in T PROVE m + 1 \in T
  <2>1. PICK f \in [D -> V] :
          \A k \in D : k <= m => f[k] = IF k = 0 THEN v ELSE step[<<k, f[k - 1]>>]
    BY <1>2
  <2> DEFINE g == [k \in D |-> IF k <= m THEN f[k] ELSE step[<<k, f[k - 1]>>]]
  <2>2. ASSUME NEW k \in D, k # 0 PROVE k \in 1 .. n /\ k - 1 \in D
    BY <2>2
  <2>3. ASSUME NEW k \in D PROVE g[k] \in V
    <3>1. CASE k <= m
      BY <3>1
    <3>2. CASE ~ (k <= m)
      <4>1. k \in 1 .. n /\ f[k - 1] \in V
        BY <2>2, <3>2
      <4> QED BY <3>2, <4>1
    <3> QED BY <3>1, <3>2
  <2>4. g \in [D -> V]
    <3> HIDE DEF D
    <3> QED BY <2>3
  <2>5. ASSUME NEW k \in D, k <= m + 1
        PROVE  g[k] = IF k = 0 THEN v ELSE step[<<k, g[k - 1]>>]
    <3>1. CASE k = 0
      <4>1. k <= m /\ g[k] = f[k]
        BY <3>1
      <4> HIDE DEF g
      <4> QED BY <2>1, <3>1, <4>1
    <3>2. CASE k # 0
      <4>1. k - 1 \in D /\ k - 1 <= m
        BY <2>2, <2>5, <3>2
      <4>2. g[k - 1] = f[k - 1]
        BY <4>1
      <4>3. g[k] = step[<<k, f[k - 1]>>]
        BY <2>1, <3>2
      <4> HIDE DEF g
      <4> QED BY <3>2, <4>2, <4>3
    <3> QED BY <3>1, <3>2
  <2> HIDE DEF g, D
  <2> QED BY <2>4, <2>5
<1>3. n \in T
  <2> HIDE DEF T
  <2>1. Nat \subseteq T
    BY <1>1, <1>2, NumbersFromZero
  <2> QED BY <2>1
<1>4. PICK f \in [D -> V] :
        \A k \in D : k <= n => f[k] = IF k = 0 THEN v ELSE step[<<k, f[k - 1]>>]
  BY <1>3
<1>5. 0 \in D /\ 0 <= n /\ \A k \in 1 .. n : k \in D /\ k <= n /\ k # 0
  OBVIOUS
<1> HIDE DEF D
<1>6. Steps(f, n, v, step)
  BY <1>4, <1>5 DEF Steps
<1> QED BY <1>6 DEF D
-----------------------------------------------------------------------------
(* The ends of the parts of a sequence that is put together.               *)
Ends(seqs, off) ==
  /\ off \in [0 .. Len(seqs) -> Nat] /\ off[0] = 0
  /\ \A k \in 1 .. Len(seqs) : off[k] = off[k - 1] + Len(seqs[k])

LEMMA EndsExist ==
  ASSUME NEW n \in Nat, NEW seqs, Len(seqs) = n, \A k \in 1 .. n : Len(seqs[k]) \in Nat
  PROVE  \E off : Ends(seqs, off)
<1> DEFINE step == [p \in (1 .. n) \X Nat |-> p[2] + Len(seqs[p[1]])]
<1>1. step \in [(1 .. n) \X Nat -> Nat]
  OBVIOUS
<1>2. PICK f \in [0 .. n -> Nat] : f[0] = 0 /\ \A k \in 1 .. n : f[k] = step[<<k, f[k - 1]>>]
  <2> HIDE DEF step
  <2>1. \E f \in [0 .. n -> Nat] : Steps(f, n, 0, step)
    BY <1>1, StepByStep
  <2> QED BY <2>1 DEF Steps
<1>3. ASSUME NEW k \in 1 .. n PROVE f[k] = f[k - 1] + Len(seqs[k])
  <2>1. f[k - 1] \in Nat
    OBVIOUS
  <2>2. step[<<k, f[k - 1]>>] = f[k - 1] + Len(seqs[k])
    BY <2>1
  <2> QED BY <1>2, <2>2
<1> QED BY <1>2, <1>3 DEF Ends

LEMMA EndsGrow ==
  ASSUME NEW n \in Nat, NEW seqs, Len(seqs) = n, \A k \in 1 .. n : Len(seqs[k]) \in Nat,
         NEW off, Ends(seqs, off), NEW j \in 0 .. n, NEW k \in j .. n
  PROVE  off[j] <= off[k]
<1> DEFINE T == {m \in Nat : j + m <= n => off[j] <= off[j + m]}
<1>1. /\ \A m \in 0 .. n : off[m] \in Nat
      /\ \A m \in 1 .. n : off[m] = off[m - 1] + Len(seqs[m])
  BY DEF Ends
<1>2. 0 \in T
  BY <1>1
<1>3. ASSUME NEW m \in Nat, m \in T PROVE m + 1 \in T
  <2> SUFFICES ASSUME j + (m + 1) <= n PROVE off[j] <= off[j + (m + 1)]
    OBVIOUS
  <2>1. j + m + 1 \in 1 .. n /\ (j + m + 1) - 1 = j + m /\ j + (m + 1) = j + m + 1
        /\ j + m \in 0 .. n
    OBVIOUS
  <2>2. off[j] <= off[j + m]
    BY <1>3, <2>1
  <2>3. off[j + m + 1] = off[j + m] + Len(seqs[j + m + 1]) /\ Len(seqs[j + m + 1]) \in Nat
    BY <1>1, <2>1
  <2> QED BY <1>1, <2>1, <2>2, <2>3
<1>4. k - j \in T
  <2> HIDE DEF T
  <2>1. Nat \subseteq T
    BY <1>2, <1>3, NumbersFromZero
  <2> QED BY <2>1
<1> QED BY <1>4

(* A place of the whole is in one of the parts.                            *)
LEMMA PartOf ==
  ASSUME NEW n \in Nat, NEW seqs, Len(seqs) = n,
         NEW off, Ends(seqs, off), NEW q \in 1 .. off[n]
  PROVE  \E k \in 1 .. n : q \in off[k - 1] + 1 .. off[k]
<1> DEFINE S == {k \in 0 .. n : q <= off[k]}
<1>1. \A m \in 0 .. n : off[m] \in Nat
  BY DEF Ends
<1>2. PICK k \in S : \A m \in S : k <= m
  <2>1. n \in S /\ S \subseteq Nat
    BY <1>1
  <2> HIDE DEF S
  <2> QED BY <2>1, LeastNumber
<1>3. k # 0
  BY DEF Ends
<1>4. k - 1 \notin S /\ k - 1 \in 0 .. n
  BY <1>2, <1>3
<1> QED BY <1>1, <1>3, <1>4

(* FlattenSeq: the parts one after the other.                              *)
LEMMA Flattened ==
  ASSUME NEW S, NEW seqs \in Seq(Seq(S)), NEW off, Ends(seqs, off)
  PROVE  LET s == FlattenSeq(seqs)  n == Len(seqs)
         IN  /\ s \in Seq(S) /\ Len(s) = off[n]
             /\ \A k \in 1 .. n : \A i \in 1 .. Len(seqs[k]) : s[off[k - 1] + i] = seqs[k][i]
<1> DEFINE n == Len(seqs)
           V == Seq(S)
           Made(f) == f = [k \in 1 .. n |-> IF k = 1 THEN seqs[k] ELSE f[k - 1] \o seqs[k]]
           flat == CHOOSE f : Made(f)
           step == [p \in (1 .. n) \X V |-> p[2] \o seqs[p[1]]]
<1>1. n \in Nat /\ \A k \in 1 .. n : seqs[k] \in V
  BY ElementOfSeq
<1>2. FlattenSeq(seqs) = IF n = 0 THEN seqs ELSE flat[n]
  BY DEF FlattenSeq
<1> HIDE DEF n, flat
<1>3. CASE n = 0
  <2>1. seqs = <<>>
    BY <1>3, EmptySeq DEF n
  <2>2. <<>> \in Seq(S) /\ Len(<<>>) = 0
    OBVIOUS
  <2> QED BY <1>2, <1>3, <2>1, <2>2 DEF Ends, n
<1>4. CASE n # 0
  <2>1. step \in [(1 .. n) \X V -> V]
    BY <1>1, ConcatProperties
  <2>2. PICK f \in [0 .. n -> V] : f[0] = <<>> /\ \A k \in 1 .. n : f[k] = step[<<k, f[k - 1]>>]
    <3>1. <<>> \in V
      OBVIOUS
    <3> HIDE DEF step, V
    <3>2. \E f \in [0 .. n -> V] : Steps(f, n, <<>>, step)
      BY <1>1, <2>1, <3>1, StepByStep
    <3> QED BY <3>2 DEF Steps
  <2>3. ASSUME NEW k \in 1 .. n PROVE f[k] = f[k - 1] \o seqs[k]
    <3>1. f[k - 1] \in V
      BY <1>1
    <3>2. step[<<k, f[k - 1]>>] = f[k - 1] \o seqs[k]
      BY <3>1
    <3> QED BY <2>2, <3>2
  <2> DEFINE g == [k \in 1 .. n |-> f[k]]
  <2>4. Made(g)
    <3>1. ASSUME NEW k \in 1 .. n
          PROVE  f[k] = IF k = 1 THEN seqs[k] ELSE g[k - 1] \o seqs[k]
      <4>1. CASE k = 1
        <5>1. f[k - 1] = <<>>
          BY <2>2, <4>1
        <5>2. f[k] = <<>> \o seqs[k] /\ seqs[k] \in Seq(S)
          BY <1>1, <2>3, <5>1
        <5> QED BY <4>1, <5>2, ConcatEmptySeq
      <4>2. CASE k # 1
        <5>1. k - 1 \in 1 .. n
          BY <1>1, <4>2
        <5> QED BY <2>3, <4>2, <5>1
      <4> QED BY <4>1, <4>2
    <3> QED BY <3>1
  <2>5. Made(flat)
    <3> HIDE DEF Made
    <3> QED BY <2>4 DEF flat
  <2>6. \A k \in 1 .. n : flat[k] = IF k = 1 THEN seqs[k] ELSE flat[k - 1] \o seqs[k]
    BY <2>5
  <2>7. /\ \A k \in 0 .. n : off[k] \in Nat
        /\ off[0] = 0
        /\ \A k \in 1 .. n : off[k] = off[k - 1] + Len(seqs[k])
    BY DEF Ends, n
  <2>8. \A k \in 1 .. n : Len(seqs[k]) \in Nat
    BY <1>1
  <2> DEFINE Right(m) ==
               /\ flat[m] \in Seq(S) /\ Len(flat[m]) = off[m]
               /\ \A k \in 1 .. m : \A i \in 1 .. Len(seqs[k]) :
                    flat[m][off[k - 1] + i] = seqs[k][i]
             T == {m \in Nat : m + 1 <= n => Right(m + 1)}
  <2>9. 0 \in T
    <3>1. 1 \in 1 .. n /\ 1 - 1 = 0
      BY <1>1, <1>4
    <3>2. flat[1] = seqs[1] /\ off[1] = Len(seqs[1]) /\ seqs[1] \in Seq(S)
      BY <1>1, <2>6, <2>7, <2>8, <3>1
    <3>3. \A k \in 1 .. 1 : k = 1
      OBVIOUS
    <3>4. Right(1)
      BY <2>7, <2>8, <3>1, <3>2, <3>3
    <3> QED BY <3>4
  <2>10. ASSUME NEW l \in Nat, l \in T PROVE l + 1 \in T
    <3> SUFFICES ASSUME l + 1 + 1 <= n PROVE Right(l + 1 + 1)
      OBVIOUS
    <3> DEFINE m == l + 1
    <3>1. m \in 1 .. n /\ m + 1 \in 1 .. n /\ m + 1 # 1 /\ (m + 1) - 1 = m
      BY <1>1
    <3>2. Right(m)
      BY <2>10, <3>1
    <3> HIDE DEF m
    <3>3. flat[m + 1] = flat[m] \o seqs[m + 1] /\ off[m + 1] = off[m] + Len(seqs[m + 1])
      BY <2>6, <2>7, <3>1
    <3> HIDE DEF Made
    <3>4. seqs[m + 1] \in Seq(S)
      BY <1>1, <3>1
    <3>5. /\ flat[m + 1] \in Seq(S) /\ Len(flat[m + 1]) = off[m + 1]
          /\ \A i \in 1 .. off[m + 1] :
               flat[m + 1][i] = IF i <= off[m] THEN flat[m][i] ELSE seqs[m + 1][i - off[m]]
      <4> DEFINE a == flat[m]  b == seqs[m + 1]
      <4>1. a \in Seq(S) /\ b \in Seq(S) /\ Len(a) = off[m]
        BY <3>2, <3>4
      <4> HIDE DEF a, b
      <4>2. /\ a \o b \in Seq(S) /\ Len(a \o b) = Len(a) + Len(b)
            /\ \A i \in 1 .. Len(a) + Len(b) :
                 (a \o b)[i] = IF i <= Len(a) THEN a[i] ELSE b[i - Len(a)]
        BY <4>1, ConcatProperties
      <4> QED BY <3>3, <4>1, <4>2 DEF a, b
    <3> HIDE DEF V, step, g
    <3>6. ASSUME NEW k \in 1 .. m + 1, NEW i \in 1 .. Len(seqs[k])
          PROVE  flat[m + 1][off[k - 1] + i] = seqs[k][i]
      <4>1. m \in Nat /\ k \in 1 .. n /\ Len(seqs[k]) \in Nat /\ off[m] \in Nat
        BY <1>1, <2>7, <2>8, <3>1
      <4>2. CASE k = m + 1
        <5>1. off[m] + i \in 1 .. off[m + 1] /\ ~ (off[m] + i <= off[m]) /\ (off[m] + i) - off[m] = i
          BY <3>3, <4>1, <4>2, SMTT(30)
        <5> QED BY <3>1, <3>5, <4>2, <5>1
      <4>3. CASE k # m + 1
        <5>1. k \in 1 .. m /\ k \in 1 .. n /\ k - 1 \in 0 .. n
          BY <1>1, <4>1, <4>3
        <5>2. off[k] <= off[m]
          <6>1. k \in 0 .. n /\ m \in k .. n
            BY <3>1, <5>1
          <6> QED BY <1>1, <2>8, <6>1, EndsGrow DEF n
        <5>3. off[k - 1] + i <= off[k] /\ off[k - 1] \in Nat /\ off[k] \in Nat /\ off[m] \in Nat
          BY <2>7, <4>1, <5>1, SMTT(30)
        <5>4. off[k - 1] + i \in 1 .. off[m + 1] /\ off[k - 1] + i <= off[m]
          <6>1. Len(seqs[m + 1]) \in Nat /\ i \in Nat \ {0}
            BY <2>8, <3>1, <4>1
          <6>2. off[m] <= off[m + 1] /\ off[m + 1] \in Nat
            BY <3>3, <5>3, <6>1, SMTT(30)
          <6>3. off[k - 1] + i <= off[m]
            BY <5>2, <5>3, <6>1, SMTT(30)
          <6>4. off[k - 1] + i >= 1 /\ off[k - 1] + i \in Int
            BY <5>3, <6>1, SMTT(30)
          <6>5. off[k - 1] + i <= off[m + 1]
            BY <5>3, <6>1, <6>2, <6>3, SMTT(30)
          <6> QED BY <6>2, <6>3, <6>4, <6>5
        <5>5. flat[m + 1][off[k - 1] + i] = flat[m][off[k - 1] + i]
          BY <3>5, <5>4
        <5> QED BY <3>2, <5>1, <5>5
      <4> QED BY <4>2, <4>3
    <3>7. Right(m + 1)
      BY <3>5, <3>6
    <3> QED BY <3>7 DEF m
  <2>11. n - 1 \in T
    <3> HIDE DEF T
    <3>1. Nat \subseteq T
      BY <2>9, <2>10, NumbersFromZero
    <3>2. n - 1 \in Nat
      BY <1>1, <1>4
    <3> QED BY <3>1, <3>2
  <2>12. Right(n)
    <3>1. (n - 1) + 1 = n /\ n <= n
      BY <1>1
    <3> QED BY <2>11, <3>1
  <2> QED BY <1>2, <1>4, <2>12 DEF n
<1> QED BY <1>3, <1>4
-----------------------------------------------------------------------------
(* The stream of a player: byte i of message k is behind those of the      *)
(* messages before.                                                        *)
Blocks(ms) == [k \in 1 .. Len(ms) |-> [i \in 1 .. Header + ms[k].len |-> <<k, i>>]]
Spots(ms) == (1 .. Len(ms)) \X Nat
Off(ms) == CHOOSE off : Ends(Blocks(ms), off)

LEMMA StreamEnds ==
  ASSUME NEW ms \in Seq(Message)
  PROVE  /\ Len(ms) \in Nat /\ \A k \in 1 .. Len(ms) : ms[k].len \in Nat
         /\ Blocks(ms) \in Seq(Seq(Spots(ms))) /\ Len(Blocks(ms)) = Len(ms)
         /\ \A k \in 1 .. Len(ms) : Len(Blocks(ms)[k]) = Header + ms[k].len
         /\ Ends(Blocks(ms), Off(ms))
<1> DEFINE n == Len(ms)
           bs == Blocks(ms)
<1>1. n \in Nat /\ \A k \in 1 .. n : ms[k] \in Message
  BY ElementOfSeq
<1>2. \A k \in 1 .. n : ms[k].len \in Nat
  BY <1>1 DEF Message
<1>3. ASSUME NEW k \in 1 .. n
      PROVE  bs[k] \in Seq(Spots(ms)) /\ Len(bs[k]) = Header + ms[k].len
  <2> DEFINE h == Header + ms[k].len
  <2>1. h \in Nat
    BY <1>2, SizeAssumption
  <2>2. bs[k] = [i \in 1 .. h |-> <<k, i>>]
    BY DEF Blocks
  <2> HIDE DEF h, bs
  <2>3. \A i \in 1 .. h : <<k, i>> \in Spots(ms)
    BY <2>1 DEF Spots
  <2>4. bs[k] \in [1 .. h -> Spots(ms)]
    BY <2>2, <2>3
  <2> QED BY <2>1, <2>4, SeqDef, SMTT(30) DEF h
<1>4. bs \in Seq(Seq(Spots(ms))) /\ Len(bs) = n
  <2>1. bs = [k \in 1 .. n |-> bs[k]]
    BY DEF Blocks
  <2> HIDE DEF bs, n
  <2>2. bs \in [1 .. n -> Seq(Spots(ms))]
    BY <1>3, <2>1
  <2> QED BY <1>1, <2>2, SeqDef
<1>5. Ends(bs, Off(ms))
  <2>1. \A k \in 1 .. n : Len(bs[k]) \in Nat
    BY <1>2, <1>3, SizeAssumption
  <2> HIDE DEF bs, n
  <2>2. \E off : Ends(bs, off)
    BY <1>1, <1>4, <2>1, EndsExist
  <2> QED BY <2>2 DEF Off, bs
<1> QED BY <1>1, <1>2, <1>3, <1>4, <1>5

LEMMA StreamIs ==
  ASSUME NEW ms \in Seq(Message)
  PROVE  LET n == Len(ms)  off == Off(ms)  B == Bytes(ms)
         IN  /\ n \in Nat /\ off \in [0 .. n -> Nat] /\ off[0] = 0
             /\ \A k \in 1 .. n : ms[k].len \in Nat /\ off[k] = off[k - 1] + Header + ms[k].len
             /\ B \in Seq(Spots(ms)) /\ Len(B) = off[n]
             /\ \A k \in 1 .. n : \A i \in 1 .. Header + ms[k].len : B[off[k - 1] + i] = <<k, i>>
             /\ \A q \in 1 .. off[n] : \E k \in 1 .. n : q \in off[k - 1] + 1 .. off[k]
             /\ \A j \in 0 .. n : \A k \in j .. n : off[j] <= off[k]
<1> DEFINE n == Len(ms)
           off == Off(ms)
           bs == Blocks(ms)
<1>1. /\ n \in Nat /\ \A k \in 1 .. n : ms[k].len \in Nat
      /\ bs \in Seq(Seq(Spots(ms))) /\ Len(bs) = n
      /\ \A k \in 1 .. n : Len(bs[k]) = Header + ms[k].len
      /\ Ends(bs, off)
  BY StreamEnds
<1>2. \A k \in 1 .. n : \A i \in 1 .. Header + ms[k].len : bs[k][i] = <<k, i>>
  BY DEF Blocks
<1>3. Bytes(ms) = FlattenSeq(bs)
  BY DEF Bytes, Blocks
<1> HIDE DEF n, off, bs
<1>4. /\ off \in [0 .. n -> Nat] /\ off[0] = 0
      /\ \A k \in 1 .. n : off[k] = off[k - 1] + (Header + ms[k].len)
  BY <1>1 DEF Ends
<1>5. \A k \in 1 .. n : off[k] = off[k - 1] + Header + ms[k].len
  <2> SUFFICES ASSUME NEW k \in 1 .. n PROVE off[k] = off[k - 1] + Header + ms[k].len
    OBVIOUS
  <2>1. off[k - 1] \in Nat /\ ms[k].len \in Nat
    BY <1>1, <1>4
  <2> QED BY <1>4, <2>1, SizeAssumption
<1> DEFINE S == Spots(ms)
           B == FlattenSeq(bs)
<1>6. /\ B \in Seq(S) /\ Len(B) = off[n]
      /\ \A k \in 1 .. n : \A i \in 1 .. Len(bs[k]) : B[off[k - 1] + i] = bs[k][i]
  <2>1. bs \in Seq(Seq(S))
    BY <1>1
  <2>2. Ends(bs, off)
    BY <1>1
  <2> HIDE DEF S, B
  <2>3. /\ FlattenSeq(bs) \in Seq(S) /\ Len(FlattenSeq(bs)) = off[Len(bs)]
        /\ \A k \in 1 .. Len(bs) : \A i \in 1 .. Len(bs[k]) :
             FlattenSeq(bs)[off[k - 1] + i] = bs[k][i]
    BY <2>1, <2>2, Flattened
  <2> QED BY <1>1, <2>3 DEF B
<1> HIDE DEF B
<1>7. \A q \in 1 .. off[n] : \E k \in 1 .. n : q \in off[k - 1] + 1 .. off[k]
  BY <1>1, PartOf
<1>8. \A j \in 0 .. n : \A k \in j .. n : off[j] <= off[k]
  <2>1. \A k \in 1 .. n : Len(bs[k]) \in Nat
    BY <1>1, SizeAssumption
  <2> QED BY <1>1, <2>1, EndsGrow
<1>9. ASSUME NEW k \in 1 .. n, NEW i \in 1 .. Header + ms[k].len
      PROVE  B[off[k - 1] + i] = <<k, i>>
  <2>1. i \in 1 .. Len(bs[k]) /\ bs[k][i] = <<k, i>>
    BY <1>1, <1>2
  <2> QED BY <1>6, <2>1
<1> QED BY <1>1, <1>3, <1>4, <1>5, <1>6, <1>7, <1>8, <1>9 DEF n, off, B
-----------------------------------------------------------------------------
(* What lies between two places of a sequence, and its parts.               *)
LEMMA PartIs ==
  ASSUME NEW S, NEW s \in Seq(S), NEW x \in 0 .. Len(s), NEW y \in x .. Len(s)
  PROVE  LET t == SubSeq(s, x + 1, y)
         IN  /\ t \in Seq(S) /\ Len(t) = y - x
             /\ \A i \in 1 .. y - x : t[i] = s[x + i]
             /\ \A q \in x + 1 .. y : s[q] \in ToSet(t)
             /\ \A e \in ToSet(t) : \E q \in x + 1 .. y : e = s[q]
             /\ \A z \in y .. Len(s) : t \o SubSeq(s, y + 1, z) = SubSeq(s, x + 1, z)
             /\ x = y => t = <<>>
<1> DEFINE a == x + 1
           t == SubSeq(s, a, y)
<1>1. a \in Int /\ y \in Int /\ Len(s) \in Nat /\ \A q \in a .. y : s[q] \in S
  BY ElementOfSeq
<1>2. y - a + 1 = y - x /\ \A i \in 1 .. y - x : a + i - 1 = x + i
  BY <1>1
<1>3. Len(t) = IF a <= y THEN y - a + 1 ELSE 0
  <2> HIDE DEF a
  <2> QED BY <1>1, SubSeqProperties
<1>4. t \in Seq(S) /\ \A i \in 1 .. y - a + 1 : t[i] = s[a + i - 1]
  <2> HIDE DEF a
  <2> QED BY <1>1, SubSeqProperties
<1>5. t \in Seq(S) /\ Len(t) = y - x /\ \A i \in 1 .. y - x : t[i] = s[x + i]
  <2>1. Len(t) = y - x
    BY <1>1, <1>3
  <2> HIDE DEF a, t
  <2> QED BY <1>2, <1>4, <2>1
<1>6. ASSUME NEW q \in x + 1 .. y PROVE s[q] \in ToSet(t)
  <2>1. q - x \in 1 .. y - x /\ x + (q - x) = q
    BY <1>1
  <2> HIDE DEF t
  <2>2. q - x \in DOMAIN t /\ t[q - x] = s[q]
    BY <1>5, <2>1
  <2> QED BY <2>2 DEF ToSet
<1>7. ASSUME NEW e \in ToSet(t) PROVE \E q \in x + 1 .. y : e = s[q]
  <2> HIDE DEF t
  <2>1. PICK i \in DOMAIN t : e = t[i]
    BY DEF ToSet
  <2>2. i \in 1 .. y - x
    BY <1>5
  <2>3. x + i \in x + 1 .. y /\ e = s[x + i]
    BY <1>1, <1>5, <2>1, <2>2
  <2> QED BY <2>3
<1>8. ASSUME NEW z \in y .. Len(s) PROVE t \o SubSeq(s, y + 1, z) = SubSeq(s, x + 1, z)
  <2>1. a \in 1 .. Len(s) + 1 /\ y \in a - 1 .. Len(s)
    BY <1>1
  <2> HIDE DEF a
  <2>2. SubSeq(s, a, y) \o SubSeq(s, y + 1, z) = SubSeq(s, a, z)
    BY <2>1, ConcatAdjacentSubSeq
  <2> QED BY <2>2 DEF a
<1>9. x = y => t = <<>>
  <2>1. x = y => y < a
    OBVIOUS
  <2> QED BY <1>1, <2>1, SubSeqEmpty
<1> HIDE DEF t
<1> QED BY <1>5, <1>6, <1>7, <1>8, <1>9 DEF t, a

LEMMA PartIsCut ==
  ASSUME NEW S, NEW s \in Seq(S), NEW x \in 0 .. Len(s), NEW y \in x .. Len(s),
         NEW n \in 0 .. y - x
  PROVE  /\ SubSeq(SubSeq(s, x + 1, y), 1, n) = SubSeq(s, x + 1, x + n)
         /\ SubSeq(SubSeq(s, x + 1, y), n + 1, y - x) = SubSeq(s, x + n + 1, y)
<1> DEFINE a == x + 1
<1>1. /\ x \in Nat /\ y \in Nat /\ n \in Nat /\ Len(s) \in Nat
      /\ x <= y /\ y <= Len(s) /\ n <= y - x
  OBVIOUS
<1>2. SubSeq(SubSeq(s, a, y), 1, n) = SubSeq(s, a, x + n)
  <2>1. CASE n = 0
    <3>1. SubSeq(SubSeq(s, a, y), 1, n) = <<>>
      BY <2>1, SubSeqEmpty
    <3>2. x + n \in Int /\ a \in Int /\ x + n < a
      BY <1>1, <2>1
    <3> HIDE DEF a
    <3> QED BY <3>1, <3>2, SubSeqEmpty
  <2>2. CASE n # 0
    <3>1. /\ a \in 1 .. Len(s) /\ y \in 1 .. Len(s) /\ 1 \in 1 .. y - a + 1 /\ n \in 1 .. y - a + 1
          /\ a + 1 - 1 = a /\ a + n - 1 = x + n
      BY <1>1, <2>2
    <3> HIDE DEF a
    <3>2. SubSeq(SubSeq(s, a, y), 1, n) = SubSeq(s, a + 1 - 1, a + n - 1)
      BY <3>1, SubSeqOfSubSeq
    <3> QED BY <3>1, <3>2
  <2> QED BY <2>1, <2>2
<1>3. SubSeq(SubSeq(s, a, y), n + 1, y - x) = SubSeq(s, x + n + 1, y)
  <2>1. CASE n = y - x
    <3>1. n + 1 \in Int /\ y - x \in Int /\ y - x < n + 1
      BY <1>1, <2>1
    <3>2. SubSeq(SubSeq(s, a, y), n + 1, y - x) = <<>>
      BY <3>1, SubSeqEmpty
    <3>3. x + n + 1 \in Int /\ y \in Int /\ y < x + n + 1
      BY <1>1, <2>1
    <3>4. SubSeq(s, x + n + 1, y) = <<>>
      BY <3>3, SubSeqEmpty
    <3> QED BY <3>2, <3>4
  <2>2. CASE n # y - x
    <3> DEFINE c == n + 1  d == y - x
    <3>1. /\ a \in 1 .. Len(s) /\ y \in 1 .. Len(s) /\ c \in 1 .. y - a + 1 /\ d \in 1 .. y - a + 1
          /\ a + c - 1 = x + n + 1 /\ a + d - 1 = y
      BY <1>1, <2>2
    <3> HIDE DEF a, c, d
    <3>2. SubSeq(SubSeq(s, a, y), c, d) = SubSeq(s, a + c - 1, a + d - 1)
      BY <3>1, SubSeqOfSubSeq
    <3> QED BY <3>1, <3>2 DEF c, d
  <2> QED BY <2>1, <2>2
<1> QED BY <1>2, <1>3

(* Byte i of message k, and no other, is <<k, i>>.                         *)
LEMMA BytesAre ==
  ASSUME NEW ms \in Seq(Message)
  PROVE  LET n == Len(ms)  off == Off(ms)  B == Bytes(ms)
         IN  /\ n \in Nat /\ off \in [0 .. n -> Nat] /\ off[0] = 0
             /\ B \in Seq(Spots(ms)) /\ Len(B) = off[n]
             /\ \A k \in 1 .. n : /\ ms[k].len \in Nat
                                  /\ off[k] = off[k - 1] + Header + ms[k].len
                                  /\ off[k - 1] < off[k]
             /\ \A j \in 0 .. n : \A k \in j .. n : off[j] <= off[k]
             /\ \A q \in 1 .. off[n] : \E k \in 1 .. n : q \in off[k - 1] + 1 .. off[k]
             /\ \A k \in 1 .. n : \A q \in off[k - 1] + 1 .. off[k] : B[q] = <<k, q - off[k - 1]>>
             /\ \A k \in 1 .. n : \A i \in 1 .. Header + ms[k].len : B[off[k - 1] + i] = <<k, i>>
             /\ \A q \in 1 .. off[n] : \A k, i :
                  B[q] = <<k, i>> => k \in 1 .. n /\ q = off[k - 1] + i /\ q <= off[k] /\ i >= 1
<1> DEFINE n == Len(ms)
           off == Off(ms)
           B == Bytes(ms)
<1>1. /\ n \in Nat /\ off \in [0 .. n -> Nat] /\ off[0] = 0
      /\ \A k \in 1 .. n : ms[k].len \in Nat /\ off[k] = off[k - 1] + Header + ms[k].len
      /\ B \in Seq(Spots(ms)) /\ Len(B) = off[n]
      /\ \A k \in 1 .. n : \A i \in 1 .. Header + ms[k].len : B[off[k - 1] + i] = <<k, i>>
      /\ \A q \in 1 .. off[n] : \E k \in 1 .. n : q \in off[k - 1] + 1 .. off[k]
      /\ \A j \in 0 .. n : \A k \in j .. n : off[j] <= off[k]
  BY StreamIs
<1> HIDE DEF n, off, B
<1>2. ASSUME NEW k \in 1 .. n PROVE off[k - 1] \in Nat /\ off[k] \in Nat /\ off[k - 1] < off[k]
  <2>1. off[k - 1] \in Nat /\ off[k] \in Nat /\ ms[k].len \in Nat
    BY <1>1
  <2> QED BY <1>1, <2>1, SizeAssumption
<1>3. ASSUME NEW k \in 1 .. n, NEW q \in off[k - 1] + 1 .. off[k]
      PROVE  B[q] = <<k, q - off[k - 1]>>
  <2>1. q - off[k - 1] \in 1 .. Header + ms[k].len /\ off[k - 1] + (q - off[k - 1]) = q
    <3>1. off[k - 1] \in Nat /\ ms[k].len \in Nat /\ Header \in Nat
          /\ off[k] = off[k - 1] + Header + ms[k].len
      BY <1>1, <1>2, SizeAssumption
    <3> DEFINE l == ms[k].len
    <3>2. off[k - 1] \in Nat /\ l \in Nat /\ Header \in Nat /\ off[k] = off[k - 1] + Header + l
      BY <3>1
    <3>3. q - off[k - 1] \in 1 .. Header + l /\ off[k - 1] + (q - off[k - 1]) = q
      <4> HIDE DEF l
      <4> QED BY <3>2
    <3> QED BY <3>3
  <2> DEFINE i == q - off[k - 1]
  <2>2. B[off[k - 1] + i] = <<k, i>>
    BY <1>1, <2>1
  <2> QED BY <2>1, <2>2
<1>4. ASSUME NEW q \in 1 .. off[n], NEW k, NEW i, B[q] = <<k, i>>
      PROVE  k \in 1 .. n /\ q = off[k - 1] + i /\ q <= off[k] /\ i >= 1
  <2>1. PICK j \in 1 .. n : q \in off[j - 1] + 1 .. off[j]
    BY <1>1
  <2>2. B[q] = <<j, q - off[j - 1]>>
    BY <1>3, <2>1
  <2>3. k = j /\ i = q - off[j - 1]
    BY <1>4, <2>2
  <2> QED BY <1>2, <2>1, <2>3
<1> QED BY <1>1, <1>2, <1>3, <1>4 DEF n, off, B

LEMMA EndsApart ==
  ASSUME NEW ms \in Seq(Message), NEW j \in 1 .. Len(ms), NEW k \in 0 .. Len(ms),
         Off(ms)[j - 1] < Off(ms)[k]
  PROVE  j <= k
<1> DEFINE n == Len(ms)
           off == Off(ms)
<1>1. /\ n \in Nat /\ off \in [0 .. n -> Nat]
      /\ \A a \in 0 .. n : \A b \in a .. n : off[a] <= off[b]
  BY BytesAre
<1> HIDE DEF n, off
<1>2. SUFFICES ASSUME k < j PROVE FALSE
  BY <1>1 DEF n
<1>3. k \in 0 .. n /\ j - 1 \in k .. n
  BY <1>1, <1>2 DEF n
<1>4. off[k] <= off[j - 1] /\ off[k] \in Nat /\ off[j - 1] \in Nat
  BY <1>1, <1>3
<1>5. off[j - 1] < off[k]
  BY DEF off
<1> QED BY <1>4, <1>5
-----------------------------------------------------------------------------
(* The reader of the slim protocol.  The player's next byte is at p + 1 of  *)
(* the stream, and the buffer begins with message k.                       *)
Increasing(s) == \A i, j \in DOMAIN s : i < j => s[i] < s[j]

InMessage(k, p) ==
  LET off == Off(messages)  n == Len(messages)  B == Bytes(messages)
  IN  /\ k \in 1 .. n + 1 /\ p \in off[k - 1] .. off[n]
      /\ feed = SubSeq(B, p + 1, off[n])
      /\ rx = SubSeq(B, off[k - 1] + 1, p)
      /\ lost \subseteq 1 .. k - 1
      /\ ToSet(handled) = (1 .. k - 1) \ lost
      /\ Increasing(handled)
      /\ ~ busy /\ k <= n => p < off[k]

SlimTypes ==
  /\ messages \in Seq(Message)
  /\ feed \in Seq(Spots(messages)) /\ rx \in Seq(Spots(messages)) /\ Len(rx) <= RxSize
  /\ busy \in BOOLEAN /\ up \in BOOLEAN /\ torn \in BOOLEAN
  /\ handled \in Seq(0 .. Len(messages)) /\ lost \subseteq 1 .. Len(messages)
  /\ busy => up /\ Len(rx) >= Header

InFrame == up /\ ~ torn => \E k, p \in Nat : InMessage(k, p)

SlimInv == SlimTypes /\ InFrame
(* The bytes C are those of the messages `gone`.                            *)
IsWhole(C, gone) ==
  /\ gone = {j \in 1 .. Len(messages) : Whole(j) \subseteq C}
  /\ C = UNION {Whole(j) : j \in gone}

(* A chunk that is dropped and holds no part of a message holds whole ones. *)
LEMMA DroppedWhole ==
  ASSUME messages \in Seq(Message), NEW k \in 1 .. Len(messages),
         NEW p \in Off(messages)[k - 1] .. Off(messages)[Len(messages)], p < Off(messages)[k],
         NEW q \in p + 1 .. Off(messages)[Len(messages)],
         NEW C, NEW gone, IsWhole(C, gone),
         \A i \in p + 1 .. q : Bytes(messages)[i] \in C,
         \A e \in C : \E i \in p + 1 .. q : e = Bytes(messages)[i]
  PROVE  /\ p = Off(messages)[k - 1]
         /\ \E m \in k .. Len(messages) : q = Off(messages)[m] /\ gone = k .. m
<1> DEFINE n == Len(messages)
           off == Off(messages)
           B == Bytes(messages)
           size(j) == Header + messages[j].len
<1>1. /\ n \in Nat /\ off \in [0 .. n -> Nat]
      /\ \A j \in 1 .. n : /\ messages[j].len \in Nat
                           /\ off[j] = off[j - 1] + Header + messages[j].len
                           /\ off[j - 1] < off[j]
      /\ \A a \in 0 .. n : \A b \in a .. n : off[a] <= off[b]
      /\ \A i \in 1 .. off[n] : \E j \in 1 .. n : i \in off[j - 1] + 1 .. off[j]
      /\ \A j \in 1 .. n : \A i \in 1 .. Header + messages[j].len : B[off[j - 1] + i] = <<j, i>>
  BY BytesAre
<1>17. \A i \in 1 .. off[n] : \A j, l : B[i] = <<j, l>> => i = off[j - 1] + l
  BY BytesAre, SMTT(30)
<1>2. \A j \in 1 .. n : \A a \in 0 .. n : off[j - 1] < off[a] => j <= a
  BY EndsApart
<1>3. /\ k \in 1 .. n /\ p \in off[k - 1] .. off[n] /\ p < off[k] /\ q \in p + 1 .. off[n]
      /\ \A i \in p + 1 .. q : B[i] \in C
      /\ \A e \in C : \E i \in p + 1 .. q : e = B[i]
  OBVIOUS
<1>15. gone = {j \in 1 .. n : Whole(j) \subseteq C}
  BY DEF IsWhole
<1>16. C = UNION {Whole(j) : j \in gone}
  BY DEF IsWhole
<1>4. \A j : Whole(j) = {<<j, i>> : i \in 1 .. size(j)}
  BY DEF Whole
<1> HIDE DEF n, off, B
<1>18. \A j \in 1 .. n : off[j - 1] < off[j] /\ off[j - 1] \in Nat /\ off[j] \in Nat
  BY <1>1
<1>5. off[k - 1] \in Nat /\ off[k] \in Nat /\ off[n] \in Nat /\ p \in Nat /\ q \in Nat
      /\ k \in Nat
  BY <1>1, <1>3
<1>6. \A i \in p + 1 .. q : i \in 1 .. off[n] /\ i \in Nat
  BY <1>3, <1>5
<1>7. \A j \in 1 .. n : size(j) \in Nat /\ size(j) >= 1 /\ off[j] = off[j - 1] + size(j)
                        /\ off[j - 1] \in Nat /\ off[j] \in Nat
  <2> SUFFICES ASSUME NEW j \in 1 .. n
               PROVE  size(j) \in Nat /\ size(j) >= 1 /\ off[j] = off[j - 1] + size(j)
                      /\ off[j - 1] \in Nat /\ off[j] \in Nat
    OBVIOUS
  <2>1. messages[j].len \in Nat /\ off[j - 1] \in Nat /\ off[j] \in Nat
    BY <1>1
  <2>2. off[j] = off[j - 1] + Header + messages[j].len
    BY <1>1
  <2>3. Header \in Nat /\ Header >= 1
    BY SizeAssumption
  <2>4. size(j) = Header + messages[j].len
    OBVIOUS
  <2> DEFINE l == messages[j].len
  <2> HIDE DEF size, l
  <2>5. l \in Nat /\ off[j] = off[j - 1] + Header + l /\ size(j) = Header + l
    BY <2>1, <2>2, <2>4 DEF l
  <2> QED BY <2>1, <2>3, <2>5, SMTT(60)
\* From here on a size is a number.
\* A message with a byte in the chunk is in it as a whole.
<1>8. ASSUME NEW j \in 1 .. n, NEW i \in p + 1 .. q, i \in off[j - 1] + 1 .. off[j]
      PROVE  j \in gone
  <2>1. B[i] \in C
    BY <1>3
  <2>2. PICK g \in gone : B[i] \in Whole(g)
    BY <1>16, <2>1
  <2>3. PICK l \in 1 .. size(g) : B[i] = <<g, l>>
    BY <1>4, <2>2
  <2> DEFINE x == i - off[j - 1]
  <2>4. B[i] = <<j, x>>
    <3>1. x \in 1 .. size(j) /\ off[j - 1] + x = i
      <4>1. i \in Nat /\ off[j - 1] \in Nat /\ size(j) \in Nat /\ off[j] = off[j - 1] + size(j)
        BY <1>6, <1>7
      <4> HIDE DEF size
      <4> QED BY <1>5, <1>8, <4>1, SMTT(60)
    <3> HIDE DEF x
    <3>2. B[off[j - 1] + x] = <<j, x>>
      BY <1>1, <3>1
    <3> QED BY <3>1, <3>2
  <2> QED BY <2>2, <2>3, <2>4
\* And such a message lies between the ends of the chunk.
<1>9. ASSUME NEW j \in gone
      PROVE  j \in 1 .. n /\ p <= off[j - 1] /\ off[j] <= q
  <2>1. j \in 1 .. n /\ Whole(j) \subseteq C
    BY <1>15
  <2>0. off[j - 1] \in Nat /\ off[j] = off[j - 1] + size(j) /\ size(j) \in Nat
    BY <1>7, <2>1
  <2>2. <<j, 1>> \in C /\ <<j, size(j)>> \in C
    <3>1. 1 \in 1 .. size(j) /\ size(j) \in 1 .. size(j)
      BY <1>7, <2>1
    <3> HIDE DEF size
    <3> QED BY <1>4, <2>1, <3>1
  <2> HIDE DEF size
  <2>3. PICK a \in p + 1 .. q : B[a] = <<j, 1>>
    BY <1>3, <2>2
  <2>4. PICK b \in p + 1 .. q : B[b] = <<j, size(j)>>
    BY <1>3, <2>2
  <2>5. a = off[j - 1] + 1 /\ b = off[j - 1] + size(j)
    <3>1. a \in 1 .. off[n] /\ b \in 1 .. off[n]
      BY <1>6
    <3>2. a = off[j - 1] + 1
      BY <1>17, <2>3, <3>1
    <3>3. b = off[j - 1] + size(j)
      BY <1>17, <2>4, <3>1
    <3> QED BY <3>2, <3>3
  <2> QED BY <1>5, <1>6, <2>0, <2>1, <2>5, SMTT(30)
<1>10. p = off[k - 1]
  <2>1. k \in gone
    <3>1. p + 1 \in p + 1 .. q /\ p + 1 \in off[k - 1] + 1 .. off[k]
      BY <1>3, <1>5
    <3> QED BY <1>3, <1>8, <3>1
  <2> QED BY <1>3, <1>5, <1>9, <2>1
<1>11. PICK m \in 1 .. n : q \in off[m - 1] + 1 .. off[m]
  BY <1>1, <1>3, <1>5, <1>6
<1>12. q = off[m]
  <2>1. q \in p + 1 .. q
    BY <1>3, <1>5
  <2>2. m \in gone
    BY <1>8, <1>11, <2>1
  <2>3. off[m] <= q
    BY <1>9, <2>2
  <2> QED BY <1>5, <1>7, <1>11, <2>3
<1>13. m \in k .. n
  <2>1. off[k - 1] < off[m]
    BY <1>3, <1>5, <1>10, <1>12
  <2> QED BY <1>1, <1>2, <1>3, <2>1
<1>14. gone = k .. m
  <2>1. ASSUME NEW j \in gone PROVE j \in k .. m
    <3>1. j \in 1 .. n /\ p <= off[j - 1] /\ off[j] <= q
      BY <1>9
    <3>2. off[k - 1] < off[j] /\ off[j - 1] < off[m]
      <4>1. off[j - 1] < off[j] /\ off[j - 1] \in Nat /\ off[j] \in Nat /\ off[m] \in Nat
        BY <1>18, <3>1
      <4>2. off[k - 1] \in Nat /\ off[k - 1] <= off[j - 1] /\ off[j] <= off[m]
        BY <1>5, <1>10, <1>12, <3>1
      <4> QED BY <4>1, <4>2
    <3>3. k <= j /\ j <= m
      <4>1. k \in 1 .. n /\ j \in 1 .. n /\ j \in 0 .. n /\ m \in 0 .. n
        BY <1>3, <3>1
      <4> QED BY <1>2, <3>2, <4>1
    <3> QED BY <1>1, <3>1, <3>3
  <2>2. ASSUME NEW j \in k .. m PROVE j \in gone
    <3>1. j \in 1 .. n /\ j - 1 \in 0 .. n /\ j - 1 \in (k - 1) .. n /\ k - 1 \in 0 .. n
          /\ j \in 0 .. n /\ m \in j .. n
      <4>1. n \in Nat /\ k \in 1 .. n /\ m \in k .. n
        BY <1>1, <1>3, <1>13
      <4> QED BY <4>1
    <3>2. off[k - 1] <= off[j - 1] /\ off[j] <= off[m]
      BY <1>1, <3>1
    <3>3. off[j] \in p + 1 .. q /\ off[j] \in off[j - 1] + 1 .. off[j]
      <4>1. off[j - 1] < off[j] /\ off[j - 1] \in Nat /\ off[j] \in Nat /\ off[m] \in Nat
        BY <1>18, <3>1
      <4>2. p <= off[j - 1] /\ off[j] <= q
        BY <1>10, <1>12, <3>2
      <4> QED BY <1>5, <4>1, <4>2, SMTT(30)
    <3> QED BY <1>8, <3>1, <3>3
  <2> QED BY <2>1, <2>2
<1> QED BY <1>10, <1>12, <1>13, <1>14 DEF n, off
(* What InMessage says of the buffers, once messages are known.             *)
LEMMA FrameFacts ==
  ASSUME messages \in Seq(Message), NEW k, NEW p, InMessage(k, p)
  PROVE  LET n == Len(messages)  off == Off(messages)  B == Bytes(messages)
         IN  /\ n \in Nat /\ k \in 1 .. n + 1 /\ k \in Nat /\ p \in Nat
             /\ off[k - 1] \in Nat /\ off[n] \in Nat /\ off[k - 1] <= p /\ p <= off[n]
             /\ off[k - 1] <= off[n]
             /\ k <= n => off[k] \in Nat /\ off[k] <= off[n] /\ off[k - 1] < off[k]
             /\ B \in Seq(Spots(messages)) /\ Len(B) = off[n]
             /\ feed \in Seq(Spots(messages)) /\ Len(feed) = off[n] - p
             /\ rx \in Seq(Spots(messages)) /\ Len(rx) = p - off[k - 1]
             /\ \A i \in 1 .. p - off[k - 1] : rx[i] = B[off[k - 1] + i]
<1> DEFINE n == Len(messages)
           off == Off(messages)
           B == Bytes(messages)
           S == Spots(messages)
<1>1. /\ n \in Nat /\ off \in [0 .. n -> Nat]
      /\ B \in Seq(S) /\ Len(B) = off[n]
      /\ \A j \in 0 .. n : \A i \in j .. n : off[j] <= off[i]
      /\ \A j \in 1 .. n : off[j - 1] < off[j]
  BY BytesAre
<1>2. /\ k \in 1 .. n + 1 /\ p \in off[k - 1] .. off[n]
      /\ feed = SubSeq(B, p + 1, off[n])
      /\ rx = SubSeq(B, off[k - 1] + 1, p)
  BY DEF InMessage
<1> HIDE DEF n, off, B, S
<1>3. k - 1 \in 0 .. n /\ n \in k - 1 .. n /\ n \in 0 .. n
  BY <1>1, <1>2
<1>4. off[k - 1] \in Nat /\ off[n] \in Nat /\ off[k - 1] <= off[n]
  BY <1>1, <1>3
<1>5. p \in Nat /\ off[k - 1] <= p /\ p <= off[n] /\ k \in Nat
  BY <1>1, <1>2, <1>4
<1>6. k <= n => off[k] \in Nat /\ off[k] <= off[n] /\ off[k - 1] < off[k]
  <2> SUFFICES ASSUME k <= n PROVE off[k] \in Nat /\ off[k] <= off[n] /\ off[k - 1] < off[k]
    OBVIOUS
  <2>1. k \in 1 .. n /\ k \in 0 .. n /\ n \in k .. n
    BY <1>1, <1>2, <1>5
  <2> QED BY <1>1, <2>1
<1> DEFINE x == off[k - 1]
           L == off[n]
<1>7. x \in 0 .. Len(B) /\ p \in x .. Len(B) /\ p \in 0 .. Len(B) /\ L \in p .. Len(B)
  BY <1>1, <1>4, <1>5
<1>8. feed = SubSeq(B, p + 1, L) /\ rx = SubSeq(B, x + 1, p)
  BY <1>2
<1> HIDE DEF x, L
<1>9. feed \in Seq(S) /\ Len(feed) = L - p
  BY <1>1, <1>7, <1>8, PartIs, SMTT(30)
<1>10. rx \in Seq(S) /\ Len(rx) = p - x /\ \A i \in 1 .. p - x : rx[i] = B[x + i]
  BY <1>1, <1>7, <1>8, PartIs, SMTT(30)
<1> QED BY <1>1, <1>2, <1>4, <1>5, <1>6, <1>9, <1>10 DEF n, off, B, S, x, L

LEMMA SlimInit ==
  ASSUME Init
  PROVE  SlimInv
<1> DEFINE n == Len(messages)
           off == Off(messages)
           B == Bytes(messages)
<1>1. messages \in Seq(Message)
  BY InputAssumption DEF Init
<1>2. /\ n \in Nat /\ off \in [0 .. n -> Nat] /\ off[0] = 0
      /\ B \in Seq(Spots(messages)) /\ Len(B) = off[n]
      /\ \A k \in 1 .. n : off[k - 1] < off[k]
  BY <1>1, BytesAre
<1>3. /\ feed = B /\ rx = <<>> /\ busy = FALSE /\ handled = <<>> /\ up = TRUE
      /\ lost = {} /\ torn = FALSE
  BY DEF Init
<1>4. SlimTypes
  <2> HIDE DEF n, off, B
  <2>1. rx \in Seq(Spots(messages)) /\ Len(rx) <= RxSize /\ handled \in Seq(0 .. Len(messages))
    BY <1>3, SizeAssumption
  <2> QED BY <1>1, <1>2, <1>3, <2>1 DEF SlimTypes
<1>5. InMessage(1, 0)
  <2> HIDE DEF n, off, B
  <2>1. SubSeq(B, 0 + 1, off[n]) = B
    BY <1>2, SubSeqFull
  <2>2. SubSeq(B, off[0] + 1, 0) = <<>>
    <3>1. off[0] + 1 \in Int /\ 0 \in Int /\ 0 < off[0] + 1
      BY <1>2
    <3> QED BY <3>1, SubSeqEmpty
  <2>3. 1 <= n => 0 < off[1]
    <3> SUFFICES ASSUME 1 <= n PROVE 0 < off[1]
      OBVIOUS
    <3>1. 1 \in 1 .. n /\ 1 - 1 = 0
      BY <1>2
    <3> QED BY <1>2, <3>1
  <2>4. 1 \in 1 .. n + 1 /\ 0 \in off[1 - 1] .. off[n] /\ 1 - 1 = 0 /\ off[n] \in Nat
    BY <1>2
  <2>5. ToSet(handled) = {} /\ Increasing(handled)
    BY <1>3 DEF ToSet, Increasing
  <2>6. 1 .. 1 - 1 = {}
    OBVIOUS
  <2> QED BY <1>3, <2>1, <2>2, <2>3, <2>4, <2>5, <2>6 DEF InMessage, n, off, B
<1>6. InFrame
  BY <1>5 DEF InFrame
<1> QED BY <1>4, <1>6 DEF SlimInv

LEMMA SlimReadInv ==
  ASSUME SlimInv, SlimRead
  PROVE  SlimInv'
<1> DEFINE N == Len(messages)
           off == Off(messages)
           B == Bytes(messages)
           S == Spots(messages)
<1>1. /\ up /\ ~ busy /\ messages' = messages /\ handled' = handled /\ up' = up
  BY DEF SlimRead
<1>2. /\ messages \in Seq(Message) /\ feed \in Seq(S) /\ rx \in Seq(S) /\ Len(rx) <= RxSize
      /\ torn \in BOOLEAN /\ busy \in BOOLEAN /\ handled \in Seq(0 .. N) /\ lost \subseteq 1 .. N
  BY DEF SlimInv, SlimTypes
<1> DEFINE chunk(n) == SubSeq(feed, 1, n)
           gone(n) == {k \in 1 .. N : Whole(k) \subseteq ToSet(chunk(n))}
<1>3. PICK n \in 1 .. Len(feed) :
        /\ feed' = SubSeq(feed, n + 1, Len(feed))
        /\ \/ /\ Len(rx) + n > RxSize
              /\ lost' = lost \union gone(n)
              /\ torn' = (torn \/ ToSet(chunk(n)) # UNION {Whole(k) : k \in gone(n)})
              /\ rx' = rx /\ busy' = busy
           \/ /\ ~ (Len(rx) + n > RxSize)
              /\ rx' = rx \o chunk(n)
              /\ busy' = (Len(rx') >= Header)
              /\ lost' = lost /\ torn' = torn
  BY DEF SlimRead
<1>4. Len(feed) \in Nat /\ Len(rx) \in Nat /\ n \in Nat
  BY <1>2
<1>5. feed' \in Seq(S)
  <2>1. n \in 0 .. Len(feed) /\ Len(feed) \in n .. Len(feed)
    BY <1>4
  <2> HIDE DEF S
  <2> QED BY <1>2, <1>3, <2>1, PartIs
<1>6. chunk(n) \in Seq(S) /\ Len(chunk(n)) = n
  <2>1. 0 \in 0 .. Len(feed) /\ n \in 0 .. Len(feed) /\ 0 + 1 = 1 /\ n - 0 = n
    BY <1>4
  <2> HIDE DEF S
  <2>2. SubSeq(feed, 0 + 1, n) \in Seq(S) /\ Len(SubSeq(feed, 0 + 1, n)) = n - 0
    BY <1>2, <2>1, PartIs
  <2> QED BY <2>1, <2>2
<1>7. SlimTypes'
  <2>1. rx' \in Seq(S) /\ Len(rx') <= RxSize
    <3> HIDE DEF S, chunk
    <3>1. rx \o chunk(n) \in Seq(S) /\ Len(rx \o chunk(n)) = Len(rx) + n
      BY <1>2, <1>6, ConcatProperties
    <3>2. CASE rx' = rx
      BY <1>2, <3>2
    <3>3. CASE rx' = rx \o chunk(n) /\ ~ (Len(rx) + n > RxSize)
      BY <1>4, <3>1, <3>3, SizeAssumption
    <3> QED BY <1>3, <3>2, <3>3
  <2>3. gone(n) \subseteq 1 .. N
    OBVIOUS
  <2> HIDE DEF gone, N, chunk, S
  <2>2. busy' \in BOOLEAN /\ torn' \in BOOLEAN /\ lost' \subseteq 1 .. N
        /\ (busy' => Len(rx') >= Header)
    <3> DEFINE whole == ToSet(chunk(n)) # UNION {Whole(k) : k \in gone(n)}
    <3>1. (torn \/ whole) \in BOOLEAN /\ (Len(rx') >= Header) \in BOOLEAN
      BY <1>2
    <3> HIDE DEF whole
    <3>2. \/ lost' = lost \union gone(n) /\ torn' = (torn \/ whole) /\ busy' = busy
          \/ busy' = (Len(rx') >= Header) /\ lost' = lost /\ torn' = torn
      BY <1>3 DEF whole
    <3> QED BY <1>1, <1>2, <2>3, <3>1, <3>2
  <2> QED BY <1>1, <1>2, <1>5, <2>1, <2>2 DEF SlimTypes, SlimInv, N, S
<1>8. InFrame'
  <2> SUFFICES ASSUME ~ torn' PROVE \E k, p \in Nat : InMessage(k, p)'
    BY DEF InFrame
  <2>1. ~ torn
    BY <1>3
  <2>2. PICK k \in Nat, p \in Nat : InMessage(k, p)
    BY <1>1, <2>1 DEF SlimInv, InFrame
  <2>3. /\ N \in Nat /\ k \in 1 .. N + 1
        /\ off[k - 1] \in Nat /\ off[N] \in Nat /\ off[k - 1] <= p /\ p <= off[N]
        /\ k <= N => off[k] \in Nat /\ off[k] <= off[N] /\ off[k - 1] < off[k]
        /\ B \in Seq(S) /\ Len(B) = off[N]
        /\ Len(feed) = off[N] - p /\ Len(rx) = p - off[k - 1]
    BY <1>2, <2>2, FrameFacts
  <2>4. /\ feed = SubSeq(B, p + 1, off[N])
        /\ rx = SubSeq(B, off[k - 1] + 1, p)
        /\ lost \subseteq 1 .. k - 1
        /\ ToSet(handled) = (1 .. k - 1) \ lost
        /\ Increasing(handled)
        /\ k <= N => p < off[k]
    BY <1>1, <2>2 DEF InMessage
  <2>5. /\ \A j \in 1 .. N : messages[j].len \in Nat /\ off[j] = off[j - 1] + Header + messages[j].len
        /\ off \in [0 .. N -> Nat]
        /\ \A j \in 1 .. N : off[j - 1] < off[j]
    BY <1>2, BytesAre
  <2> DEFINE q == p + n
  <2>6. q \in p + 1 .. off[N] /\ q \in Nat
    BY <1>4, <2>3
  <2>7. k \in 1 .. N
    <3>1. CASE k = N + 1
      <4>1. k - 1 = N
        BY <2>3, <3>1
      <4>2. off[N] <= p
        BY <2>3, <4>1
      <4> QED BY <2>3, <2>6, <4>2
    <3> QED BY <2>3, <3>1
  <2> HIDE DEF N, off, B, S, chunk, gone
  <2> DEFINE x == off[k - 1]
             L == off[N]
  <2>12. /\ x \in 0 .. Len(B) /\ p \in x .. Len(B) /\ p \in 0 .. Len(B) /\ L \in p .. Len(B)
         /\ q \in 0 .. Len(B) /\ q \in p .. Len(B) /\ n \in 0 .. L - p /\ L - p = Len(feed)
    BY <1>4, <2>3, <2>6
  <2>13. B \in Seq(S)
    BY <2>3
  <2>14. feed = SubSeq(B, p + 1, L) /\ rx = SubSeq(B, x + 1, p)
    BY <2>4
  <2> HIDE DEF x, L
  <2>9. chunk(n) = SubSeq(B, p + 1, q)
    BY <2>12, <2>13, <2>14, PartIsCut DEF chunk
  <2>8. feed' = SubSeq(B, q + 1, L)
    <3>1. feed' = SubSeq(feed, n + 1, L - p)
      BY <1>3, <2>12
    <3> QED BY <2>12, <2>13, <2>14, <3>1, PartIsCut
  <2>15. q = p + n
    OBVIOUS
  <2> HIDE DEF q
  <2>10. CASE Len(rx) + n > RxSize
    <3>1. /\ lost' = lost \union gone(n) /\ rx' = rx /\ busy' = busy
          /\ ToSet(chunk(n)) = UNION {Whole(j) : j \in gone(n)}
      BY <1>3, <2>10
    <3> DEFINE C == ToSet(chunk(n))
               G == gone(n)
    <3>2. /\ \A i \in p + 1 .. q : B[i] \in C
          /\ \A e \in C : \E i \in p + 1 .. q : e = B[i]
      BY <2>9, <2>12, <2>13, PartIs
    <3>3. IsWhole(C, G)
      BY <3>1 DEF IsWhole, gone, N
    <3> HIDE DEF C, G
    <3>4. p = off[k - 1] /\ \E m \in k .. N : q = off[m] /\ G = k .. m
      <4>1. p \in off[k - 1] .. off[N] /\ p < off[k] /\ q \in p + 1 .. off[N]
        BY <2>3, <2>4, <2>6, <2>7
      <4>2. k \in 1 .. Len(messages)
        BY <2>7 DEF N
      <4> QED BY <1>2, <3>2, <3>3, <4>1, <4>2, DroppedWhole, SMTT(30) DEF N, off, B
    <3>5. PICK m \in k .. N : q = off[m] /\ G = k .. m
      BY <3>4
    <3>6. m \in 1 .. N /\ m + 1 \in 1 .. N + 1 /\ (m + 1) - 1 = m /\ m + 1 \in Nat
      BY <2>3, <2>7, <3>5
    <3>7. rx' = SubSeq(B, off[m] + 1, q)
      <4>1. rx = <<>>
        BY <2>12, <2>13, <2>14, <3>4, PartIs, SMTT(30) DEF x
      <4>2. q \in 0 .. Len(B) /\ q \in q .. Len(B)
        BY <2>12
      <4> QED BY <2>13, <3>1, <3>5, <4>1, <4>2, PartIs
    <3>8. lost' \subseteq 1 .. m /\ ToSet(handled) = (1 .. m) \ lost'
      <4>1. lost' = lost \union (k .. m) /\ lost \subseteq 1 .. k - 1
            /\ ToSet(handled) = (1 .. k - 1) \ lost /\ k \in 1 .. m /\ m \in Nat
        BY <2>4, <2>7, <3>1, <3>5, <3>6 DEF G
      <4>2. \A j : j \in 1 .. k - 1 <=> j \in 1 .. m /\ j \notin k .. m
        BY <4>1
      <4>3. \A j \in k .. m : j \in 1 .. m
        BY <4>1
      <4> HIDE DEF G
      <4> QED BY <4>1, <4>2, <4>3
    <3>9. m + 1 <= N => q < off[m + 1]
      <4> SUFFICES ASSUME m + 1 <= N PROVE q < off[m + 1]
        OBVIOUS
      <4>1. m + 1 \in 1 .. N
        BY <2>3, <3>6
      <4> QED BY <2>5, <3>5, <3>6, <4>1
    <3>10. q \in off[m] .. off[N]
      BY <2>3, <2>6, <3>5
    <3>11. InMessage(m + 1, q)'
      BY <1>1, <2>4, <2>8, <3>6, <3>7, <3>8, <3>9, <3>10 DEF InMessage, N, off, B, x, L
    <3> QED BY <2>6, <3>6, <3>11
  <2>11. CASE ~ (Len(rx) + n > RxSize)
    <3>1. rx' = rx \o chunk(n) /\ busy' = (Len(rx') >= Header) /\ lost' = lost
      BY <1>3, <2>11
    <3>2. rx' = SubSeq(B, x + 1, q)
      <4>1. SubSeq(B, x + 1, p) \o SubSeq(B, p + 1, q) = SubSeq(B, x + 1, q)
        BY <2>12, <2>13, PartIs
      <4> QED BY <2>9, <2>14, <3>1, <4>1
    <3>3. Len(rx') = q - off[k - 1]
      <4>1. Len(rx \o chunk(n)) = Len(rx) + n
        BY <1>2, <1>6, ConcatProperties DEF S, chunk
      <4> QED BY <1>4, <2>3, <2>15, <3>1, <4>1
    <3>4. ~ busy' => q < off[k]
      <4> SUFFICES ASSUME ~ (q - off[k - 1] >= Header) PROVE q < off[k]
        BY <3>1, <3>3
      <4>1. messages[k].len \in Nat /\ off[k] = off[k - 1] + Header + messages[k].len
        BY <2>5, <2>7
      <4> DEFINE l == messages[k].len
      <4>2. l \in Nat /\ off[k] = off[k - 1] + Header + l
        BY <4>1
      <4> HIDE DEF l
      <4> QED BY <2>3, <2>6, <4>2, SizeAssumption
    <3>5. q \in off[k - 1] .. off[N]
      BY <2>3, <2>6
    <3>6. InMessage(k, q)'
      BY <1>1, <2>3, <2>4, <2>8, <3>1, <3>2, <3>4, <3>5 DEF InMessage, N, off, B, x, L
    <3> QED BY <2>6, <3>6
  <2> QED BY <2>10, <2>11
<1> QED BY <1>7, <1>8 DEF SlimInv
LEMMA SlimMessageInv ==
  ASSUME SlimInv, SlimMessage
  PROVE  SlimInv'
<1> DEFINE N == Len(messages)
           off == Off(messages)
           B == Bytes(messages)
           S == Spots(messages)
           num == IF AtHeader THEN rx[1][1] ELSE 0
<1>1. /\ busy /\ messages' = messages /\ feed' = feed /\ lost' = lost /\ torn' = torn
  BY DEF SlimMessage
<1>2. /\ messages \in Seq(Message) /\ feed \in Seq(S) /\ rx \in Seq(S) /\ Len(rx) <= RxSize
      /\ torn \in BOOLEAN /\ up \in BOOLEAN /\ handled \in Seq(0 .. N) /\ lost \subseteq 1 .. N
      /\ up /\ Len(rx) >= Header
  BY <1>1 DEF SlimInv, SlimTypes
<1>3. PICK len \in Lengths :
        \/ /\ Len(rx) < len + Header
           /\ busy' = FALSE /\ rx' = rx /\ handled' = handled /\ up' = up
        \/ /\ ~ (Len(rx) < len + Header)
           /\ handled' = Append(handled, num)
           /\ up' = (Op # "BYE!")
           /\ \/ up' /\ rx' = SubSeq(rx, len + Header + 1, Len(rx))
              \/ ~ up' /\ rx' = rx
           /\ busy' = (up' /\ Len(rx') >= Header)
  BY DEF SlimMessage
<1>4. Len(rx) \in Nat /\ 1 \in 1 .. Len(rx) /\ N \in Nat /\ Header \in Nat /\ Header >= 1
  BY <1>2, SizeAssumption
<1>5. rx[1] \in S
  BY <1>2, <1>4, ElementOfSeq
<1>6. rx[1][1] \in 1 .. N
  BY <1>5 DEF Spots
<1>7. len \in Nat
  <2>1. messages[rx[1][1]] \in Message
    BY <1>2, <1>6, ElementOfSeq
  <2> QED BY <1>3, <2>1, InputAssumption DEF Lengths, Message
<1>8. num \in 0 .. N
  BY <1>4, <1>6
<1>9. SlimTypes'
  <2> HIDE DEF num, S
  <2>1. CASE Len(rx) < len + Header
    <3>1. busy' = FALSE /\ rx' = rx /\ handled' = handled /\ up' = up
      BY <1>3, <2>1
    <3> QED BY <1>1, <1>2, <3>1 DEF SlimTypes, N, S
  <2>2. CASE ~ (Len(rx) < len + Header)
    <3>1. /\ handled' = Append(handled, num)
          /\ up' = (Op # "BYE!")
          /\ \/ up' /\ rx' = SubSeq(rx, len + Header + 1, Len(rx))
             \/ ~ up' /\ rx' = rx
          /\ busy' = (up' /\ Len(rx') >= Header)
      BY <1>3, <2>2
    <3>2. handled' \in Seq(0 .. N)
      BY <1>2, <1>8, <3>1, AppendProperties
    <3> DEFINE c == len + Header
               left == SubSeq(rx, c + 1, Len(rx))
    <3>3. c \in 0 .. Len(rx) /\ Len(rx) \in c .. Len(rx) /\ Len(rx) - c <= Len(rx)
      BY <1>4, <1>7, <2>2
    <3>4. left \in Seq(S) /\ Len(left) = Len(rx) - c
      <4> HIDE DEF c
      <4> QED BY <1>2, <3>3, PartIs
    <3>5. Len(left) <= RxSize
      <4> HIDE DEF left, c
      <4> QED BY <1>2, <1>4, <3>3, <3>4, SizeAssumption
    <3>6. rx' \in Seq(S) /\ Len(rx') <= RxSize
      BY <1>2, <3>1, <3>4, <3>5
    <3>7. busy' \in BOOLEAN /\ up' \in BOOLEAN /\ (busy' => up' /\ Len(rx') >= Header)
      BY <3>1
    <3> QED BY <1>1, <1>2, <3>2, <3>6, <3>7 DEF SlimTypes, N, S
  <2> QED BY <2>1, <2>2
<1>10. InFrame'
  <2> SUFFICES ASSUME up', ~ torn' PROVE \E k, p \in Nat : InMessage(k, p)'
    BY DEF InFrame
  <2>1. ~ torn
    BY <1>1
  <2>2. PICK k \in Nat, p \in Nat : InMessage(k, p)
    BY <1>2, <2>1 DEF SlimInv, InFrame
  <2>3. /\ k \in 1 .. N + 1
        /\ off[k - 1] \in Nat /\ off[N] \in Nat /\ off[k - 1] <= p /\ p <= off[N]
        /\ k <= N => off[k] \in Nat /\ off[k] <= off[N] /\ off[k - 1] < off[k]
        /\ B \in Seq(S) /\ Len(B) = off[N]
        /\ Len(rx) = p - off[k - 1]
        /\ \A i \in 1 .. p - off[k - 1] : rx[i] = B[off[k - 1] + i]
    BY <1>2, <2>2, FrameFacts
  <2>4. /\ feed = SubSeq(B, p + 1, off[N])
        /\ rx = SubSeq(B, off[k - 1] + 1, p)
        /\ lost \subseteq 1 .. k - 1
        /\ ToSet(handled) = (1 .. k - 1) \ lost
        /\ Increasing(handled)
    BY <2>2 DEF InMessage
  <2>5. /\ \A j \in 1 .. N : messages[j].len \in Nat /\ off[j] = off[j - 1] + Header + messages[j].len
        /\ \A j \in 1 .. N : \A i \in 1 .. Header + messages[j].len : B[off[j - 1] + i] = <<j, i>>
    BY <1>2, BytesAre
  <2> HIDE DEF N, off, B, S
  <2>6. k \in 1 .. N
    <3>1. CASE k = N + 1
      <4>1. k - 1 = N
        BY <1>4, <3>1
      <4>2. Len(rx) <= 0
        BY <2>3, <4>1
      <4> QED BY <1>2, <1>4, <4>2
    <3> QED BY <1>4, <2>3, <3>1
  <2>13. /\ off[k - 1] \in Nat /\ off[k] \in Nat /\ off[N] \in Nat
         /\ off[k - 1] <= p /\ p <= off[N] /\ off[k] <= off[N]
         /\ Len(B) = off[N] /\ Len(rx) = p - off[k - 1]
    BY <2>3, <2>6
  <2> DEFINE l == messages[k].len
  <2>7. l \in Nat /\ off[k] = off[k - 1] + Header + l
        /\ \A i \in 1 .. Header + l : B[off[k - 1] + i] = <<k, i>>
    BY <2>5, <2>6
  <2>8. \A i \in 1 .. Header : rx[i] = <<k, i>>
    <3> SUFFICES ASSUME NEW i \in 1 .. Header PROVE rx[i] = <<k, i>>
      OBVIOUS
    <3> HIDE DEF l
    <3>1. i \in 1 .. Header + l
      BY <1>4, <2>7
    <3>2. i \in 1 .. p - off[k - 1]
      BY <1>2, <1>4, <2>3
    <3> QED BY <2>3, <2>7, <3>1, <3>2
  <2>9. rx[1][1] = k /\ AtHeader
    <3>1. 1 \in 1 .. Header
      BY <1>4
    <3>2. rx[1] = <<k, 1>>
      BY <2>8, <3>1
    <3>3. rx[1][1] = k
      BY <3>2
    <3> QED BY <2>8, <3>3 DEF AtHeader
  <2>10. len = l /\ num = k
    BY <1>3, <2>9 DEF Lengths
  <2> HIDE DEF num
  <2>11. CASE Len(rx) < len + Header
    <3>1. busy' = FALSE /\ rx' = rx /\ handled' = handled /\ up' = up
      BY <1>3, <2>11
    <3>2. p < off[k]
      <4> HIDE DEF l
      <4> QED BY <1>4, <2>3, <2>6, <2>7, <2>10, <2>11, SMTT(30)
    <3>3. p \in off[k - 1] .. off[N]
      BY <2>3
    <3>4. InMessage(k, p)'
      BY <1>1, <2>3, <2>4, <3>1, <3>2, <3>3 DEF InMessage, N, off, B
    <3> QED BY <3>4
  <2>12. CASE ~ (Len(rx) < len + Header)
    <3>1. /\ handled' = Append(handled, k)
          /\ rx' = SubSeq(rx, len + Header + 1, Len(rx))
          /\ busy' = (Len(rx') >= Header)
      <4>1. /\ handled' = Append(handled, num)
            /\ rx' = SubSeq(rx, len + Header + 1, Len(rx))
            /\ busy' = (up' /\ Len(rx') >= Header)
        BY <1>3, <2>12
      <4>2. (up' /\ Len(rx') >= Header) = (Len(rx') >= Header)
        OBVIOUS
      <4> QED BY <2>10, <4>1, <4>2
    <3>2. p >= off[k]
      <4> HIDE DEF l
      <4>1. l \in Nat /\ off[k] = off[k - 1] + Header + l /\ ~ (p - off[k - 1] < l + Header)
        BY <2>7, <2>10, <2>12, <2>13
      <4> QED BY <1>4, <2>13, <4>1, SMTT(30)
    <3>3. rx' = SubSeq(B, off[k] + 1, p)
      <4> DEFINE x == off[k - 1]  c == Header + l
      <4>1. l \in Nat /\ c \in Nat
        BY <1>4, <2>7
      <4>2. off[k] = x + c /\ rx' = SubSeq(rx, c + 1, p - x) /\ rx = SubSeq(B, x + 1, p)
        <5>1. off[k] = x + c
          BY <1>4, <2>7, <2>13, SMTT(30)
        <5>2. len + Header + 1 = c + 1
          BY <1>4, <2>7, <2>10
        <5> QED BY <2>4, <2>13, <3>1, <5>1, <5>2
      <4> HIDE DEF l, c
      <4>3. x \in 0 .. Len(B) /\ p \in x .. Len(B) /\ c \in 0 .. p - x
        <5>1. /\ off[k] \in Nat /\ x \in Nat /\ p \in Nat /\ Len(B) \in Nat
              /\ x <= p /\ p <= Len(B) /\ off[k] <= p
          BY <2>13, <3>2
        <5> HIDE DEF x
        <5> QED BY <4>1, <4>2, <5>1
      <4>4. B \in Seq(S)
        BY <2>3
      <4> HIDE DEF x
      <4>5. SubSeq(SubSeq(B, x + 1, p), c + 1, p - x) = SubSeq(B, x + c + 1, p)
        BY <4>3, <4>4, PartIsCut
      <4> QED BY <4>2, <4>5
    <3>4. lost' \subseteq 1 .. k /\ ToSet(handled') = (1 .. k) \ lost'
      <4>1. ToSet(handled') = ToSet(handled) \union {k}
        <5>1. /\ Len(handled') = Len(handled) + 1 /\ Len(handled) \in Nat
              /\ handled'[Len(handled) + 1] = k
              /\ \A i \in 1 .. Len(handled) : handled'[i] = handled[i]
              /\ DOMAIN handled = 1 .. Len(handled) /\ DOMAIN handled' = 1 .. Len(handled) + 1
          BY <1>2, <1>8, <2>10, <3>1, AppendProperties
        <5>2. ASSUME NEW i \in DOMAIN handled' PROVE handled'[i] \in ToSet(handled) \union {k}
          <6>1. CASE i = Len(handled) + 1
            BY <5>1, <6>1
          <6>2. CASE i # Len(handled) + 1
            <7>1. i \in 1 .. Len(handled)
              BY <5>1, <6>2
            <7> QED BY <5>1, <7>1 DEF ToSet
          <6> QED BY <6>1, <6>2
        <5>3. k \in ToSet(handled')
          <6>1. Len(handled) + 1 \in DOMAIN handled'
            BY <5>1
          <6> QED BY <5>1, <6>1 DEF ToSet
        <5>4. ASSUME NEW i \in DOMAIN handled PROVE handled[i] \in ToSet(handled')
          <6>1. i \in DOMAIN handled' /\ handled'[i] = handled[i]
            BY <5>1
          <6> QED BY <6>1 DEF ToSet
        <5> QED BY <5>2, <5>3, <5>4 DEF ToSet
      <4>2. k \notin 1 .. k - 1 /\ 1 .. k = (1 .. k - 1) \union {k}
        BY <2>6, <1>4
      <4> QED BY <1>1, <2>4, <4>1, <4>2
    <3>5. Increasing(handled')
      <4>1. \A i \in DOMAIN handled : handled[i] \in 1 .. k - 1
        BY <2>4 DEF ToSet
      <4>2. /\ Len(handled') = Len(handled) + 1 /\ Len(handled) \in Nat
            /\ handled'[Len(handled) + 1] = k
            /\ \A i \in 1 .. Len(handled) : handled'[i] = handled[i]
            /\ DOMAIN handled = 1 .. Len(handled) /\ DOMAIN handled' = 1 .. Len(handled) + 1
        BY <1>2, <1>8, <2>10, <3>1, AppendProperties
      <4> SUFFICES ASSUME NEW i \in DOMAIN handled', NEW j \in DOMAIN handled', i < j
                   PROVE  handled'[i] < handled'[j]
        BY DEF Increasing
      <4>3. i \in 1 .. Len(handled)
        BY <4>2
      <4>4. CASE j = Len(handled) + 1
        <5>1. handled'[i] \in 1 .. k - 1
          BY <4>1, <4>2, <4>3
        <5> QED BY <2>6, <4>2, <4>4, <5>1
      <4>5. CASE j # Len(handled) + 1
        <5>1. j \in 1 .. Len(handled)
          BY <4>2, <4>5
        <5> QED BY <2>4, <4>2, <4>3, <5>1 DEF Increasing
      <4> QED BY <4>4, <4>5
    <3>6. ~ busy' /\ k + 1 <= N => p < off[k + 1]
      <4> SUFFICES ASSUME ~ (Len(rx') >= Header), k + 1 <= N PROVE p < off[k + 1]
        BY <3>1
      <4>1. Len(rx') = p - off[k]
        <5> DEFINE x == off[k]
        <5>1. x \in 0 .. Len(B) /\ p \in x .. Len(B)
          BY <2>13, <3>2
        <5>2. B \in Seq(S) /\ rx' = SubSeq(B, x + 1, p)
          BY <2>3, <3>3
        <5> HIDE DEF x
        <5>3. Len(rx') = p - x
          BY <5>1, <5>2, PartIs
        <5> QED BY <5>3 DEF x
      <4> DEFINE h == messages[k + 1].len
      <4>2. h \in Nat /\ off[k + 1] = off[k] + Header + h
        <5>1. k + 1 \in 1 .. N /\ (k + 1) - 1 = k
          BY <1>4, <2>6
        <5> QED BY <2>5, <5>1
      <4> HIDE DEF h, l
      <4> QED BY <1>4, <2>3, <2>6, <4>1, <4>2
    <3>7. k + 1 \in 1 .. N + 1 /\ (k + 1) - 1 = k /\ p \in off[k] .. off[N] /\ k + 1 \in Nat
      BY <1>4, <2>3, <2>6, <3>2
    <3>8. InMessage(k + 1, p)'
      BY <1>1, <2>4, <3>3, <3>4, <3>5, <3>6, <3>7 DEF InMessage, N, off, B
    <3> QED BY <3>7, <3>8
  <2> QED BY <2>11, <2>12
<1> QED BY <1>9, <1>10 DEF SlimInv

LEMMA SlimKept ==
  ASSUME SlimInv, UNCHANGED slim
  PROVE  SlimInv'
BY DEF SlimInv, SlimTypes, InFrame, InMessage, slim, Increasing

LEMMA SlimAlways == Spec => []SlimInv
<1>1. ASSUME SlimInv, [Next]_vars PROVE SlimInv'
  <2>1. CASE SlimRead
    BY <1>1, <2>1, SlimReadInv
  <2>2. CASE SlimMessage
    BY <1>1, <2>2, SlimMessageInv
  <2>3. CASE WebRead \/ WebItem \/ UNCHANGED vars
    <3>1. UNCHANGED slim
      BY <2>3 DEF WebRead, WebItem, vars
    <3> QED BY <1>1, <3>1, SlimKept
  <2> QED BY <1>1, <2>1, <2>2, <2>3 DEF Next
<1> QED BY <1>1, SlimInit, PTL DEF Spec

(* The reader of the slim protocol stays in step with the player, for any  *)
(* messages, lengths and cuts (processRead of slimProto.cpp).              *)
THEOREM StaysInStep == Spec => []InStep
<1>1. ASSUME SlimInv PROVE InStep
  <2> DEFINE N == Len(messages)
             off == Off(messages)
             B == Bytes(messages)
  <2>1. messages \in Seq(Message) /\ Len(rx) <= RxSize
    BY <1>1 DEF SlimInv, SlimTypes
  <2> SUFFICES ASSUME up, ~ busy, ~ torn
               PROVE  /\ ToSet(handled) = (1 .. NextMessage - 1) \ lost
                      /\ \A i, j \in DOMAIN handled : i < j => handled[i] < handled[j]
                      /\ rx = IF feed = <<>> THEN <<>>
                              ELSE [i \in 1 .. feed[1][2] - 1 |-> <<NextMessage, i>>]
    BY <2>1 DEF InStep
  <2>2. PICK k \in Nat, p \in Nat : InMessage(k, p)
    BY <1>1 DEF SlimInv, InFrame
  <2>3. /\ N \in Nat /\ k \in 1 .. N + 1
        /\ off[k - 1] \in Nat /\ off[N] \in Nat /\ off[k - 1] <= p /\ p <= off[N]
        /\ k <= N => off[k] \in Nat /\ off[k] <= off[N] /\ off[k - 1] < off[k]
        /\ B \in Seq(Spots(messages)) /\ Len(B) = off[N]
        /\ feed \in Seq(Spots(messages)) /\ Len(feed) = off[N] - p
        /\ rx \in Seq(Spots(messages)) /\ Len(rx) = p - off[k - 1]
        /\ \A i \in 1 .. p - off[k - 1] : rx[i] = B[off[k - 1] + i]
    BY <2>1, <2>2, FrameFacts
  <2>4. /\ feed = SubSeq(B, p + 1, off[N])
        /\ ToSet(handled) = (1 .. k - 1) \ lost
        /\ Increasing(handled)
        /\ k <= N => p < off[k]
    BY <2>2 DEF InMessage
  <2>5. \A j \in 1 .. N : \A q \in off[j - 1] + 1 .. off[j] : B[q] = <<j, q - off[j - 1]>>
    BY <2>1, BytesAre
  <2> HIDE DEF N, off, B
  <2>6. CASE p = off[N]
    <3>1. feed = <<>>
      <4>1. Len(feed) = 0
        BY <2>3, <2>6
      <4> QED BY <2>3, <4>1, EmptySeq
    <3>2. k = N + 1
      BY <2>3, <2>4, <2>6
    <3>3. rx = <<>>
      <4>1. Len(rx) = 0
        BY <2>3, <2>6, <3>2
      <4> QED BY <2>3, <4>1, EmptySeq
    <3>4. NextMessage = k
      BY <3>1, <3>2 DEF NextMessage, N
    <3> QED BY <2>4, <3>1, <3>3, <3>4 DEF Increasing
  <2>7. CASE p # off[N]
    <3>1. k \in 1 .. N
      <4>1. CASE k = N + 1
        <5>1. k - 1 = N
          BY <2>3, <4>1
        <5> QED BY <2>3, <2>7, <5>1
      <4> QED BY <2>3, <4>1
    <3> DEFINE x == p + 1 - off[k - 1]
    <3>2. feed # <<>> /\ feed[1] = <<k, x>>
      <4>1. off[k - 1] \in Nat /\ off[k] \in Nat /\ off[k - 1] <= p /\ p < off[k]
        BY <2>3, <2>4, <3>1
      <4>2. p + 1 \in off[k - 1] + 1 .. off[k]
        BY <4>1
      <4>3. B[p + 1] = <<k, x>>
        <5> DEFINE i == p + 1
        <5>1. i \in off[k - 1] + 1 .. off[k]
          BY <4>2
        <5>3. i - off[k - 1] = x
          BY <4>1
        <5> HIDE DEF i, x
        <5>2. B[i] = <<k, i - off[k - 1]>>
          BY <2>5, <3>1, <5>1
        <5> QED BY <5>2, <5>3 DEF i
      <4> HIDE DEF x
      <4>4. feed[1] = B[p + 1]
        <5>1. p \in 0 .. Len(B) /\ off[N] \in p .. Len(B) /\ 1 \in 1 .. off[N] - p
          BY <2>3, <2>7
        <5> DEFINE L == off[N]
        <5>2. feed = SubSeq(B, p + 1, L)
          BY <2>4
        <5> HIDE DEF L
        <5>3. B \in Seq(Spots(messages)) /\ L \in p .. Len(B) /\ 1 \in 1 .. L - p
          BY <2>3, <5>1 DEF L
        <5> QED BY <5>1, <5>2, <5>3, PartIs
      <4>5. Len(feed) # 0
        BY <2>3, <2>7
      <4> QED BY <4>3, <4>4, <4>5
    <3> HIDE DEF x
    <3>3. NextMessage = k /\ feed[1][2] = x
      BY <3>2 DEF NextMessage
    <3>4. rx = [i \in 1 .. x - 1 |-> <<k, i>>]
      <4>1. x - 1 = p - off[k - 1] /\ x - 1 \in Nat
        BY <2>3 DEF x
      <4>2. ASSUME NEW i \in 1 .. x - 1 PROVE rx[i] = <<k, i>>
        <5>1. i \in 1 .. p - off[k - 1] /\ off[k - 1] + i \in off[k - 1] + 1 .. off[k]
              /\ (off[k - 1] + i) - off[k - 1] = i
          <6>1. off[k - 1] \in Nat /\ off[k] \in Nat /\ off[k - 1] <= p /\ p < off[k]
            BY <2>3, <2>4, <3>1
          <6> QED BY <4>1, <6>1
        <5> DEFINE q == off[k - 1] + i
        <5>2. rx[i] = B[q]
          BY <2>3, <5>1
        <5>3. q \in off[k - 1] + 1 .. off[k] /\ q - off[k - 1] = i
          BY <5>1
        <5> HIDE DEF q
        <5>4. B[q] = <<k, q - off[k - 1]>>
          BY <2>5, <3>1, <5>3
        <5> QED BY <5>2, <5>3, <5>4
      <4>3. rx = [i \in 1 .. x - 1 |-> rx[i]]
        BY <2>3, <4>1
      <4> QED BY <4>2, <4>3
    <3> QED BY <2>4, <3>2, <3>3, <3>4 DEF Increasing
  <2> QED BY <2>6, <2>7
<1> QED BY <1>1, SlimAlways, PTL
-----------------------------------------------------------------------------
(* The stream of a web client.                                             *)
Words == {"get", "hdr", "cookie"}
Token == Words \union {"cr", "lf"}

LEMMA LinesAre ==
  ASSUME NEW r \in Request
  PROVE  LET m == Len(Lines(r))
         IN  /\ Lines(r) \in Seq(Seq(Token)) /\ m \in Nat /\ m >= 2
             /\ Lines(r)[m] = <<>>
             /\ \A k \in 1 .. m - 1 :
                  \E w \in Words : Lines(r)[k] = <<w>> /\ (w = "cookie" => r.cookie # "")
<1> DEFINE W == {<<w>> : w \in {v \in Words : v = "cookie" => r.cookie # ""}}
           a == <<<<"get">>>>
           b == [i \in 1 .. r.filler |-> <<"hdr">>]
           c == IF r.cookie = "" THEN <<>> ELSE <<<<"cookie">>>>
           d == <<<<>>>>
           E == W \union {<<>>}
<1>1. r.filler \in Nat
  BY DEF Request
<1>2. Lines(r) = ((a \o b) \o c) \o d
  BY DEF Lines
<1>3. <<"get">> \in W /\ <<"hdr">> \in W /\ (r.cookie # "" => <<"cookie">> \in W)
  BY DEF Words
<1>4. W \subseteq Seq(Token)
  <2>1. ASSUME NEW w \in Words PROVE <<w>> \in Seq(Token)
    <3>1. w \in Token
      BY DEF Token
    <3> QED BY <3>1
  <2> QED BY <2>1
<1>5. \A e \in W : \E w \in Words : e = <<w>> /\ (w = "cookie" => r.cookie # "")
  OBVIOUS
<1> HIDE DEF W
<1>6. a \in Seq(W) /\ Len(a) = 1
  <2> DEFINE l == <<"get">>
  <2>1. l \in W
    BY <1>3
  <2> HIDE DEF l
  <2>2. <<l>> \in Seq(W) /\ Len(<<l>>) = 1
    BY <2>1
  <2> QED BY <2>2 DEF l
<1>7. b \in Seq(W) /\ Len(b) \in Nat
  <2>1. b \in [1 .. r.filler -> W]
    BY <1>3
  <2> HIDE DEF b
  <2> QED BY <1>1, <2>1, SeqDef
<1>8. c \in Seq(W) /\ Len(c) \in Nat
  <2>1. CASE r.cookie = ""
    <3>1. c = <<>>
      BY <2>1
    <3> HIDE DEF c
    <3> QED BY <3>1
  <2>2. CASE r.cookie # ""
    <3> DEFINE l == <<"cookie">>
    <3>1. l \in W
      BY <1>3, <2>2
    <3> HIDE DEF l
    <3>2. <<l>> \in Seq(W) /\ Len(<<l>>) = 1
      BY <3>1
    <3> QED BY <2>2, <3>2 DEF l
  <2> QED BY <2>1, <2>2
<1> HIDE DEF a, b, c
<1>9. (a \o b) \o c \in Seq(W) /\ Len((a \o b) \o c) \in Nat /\ Len((a \o b) \o c) >= 1
  <2>1. a \o b \in Seq(W) /\ Len(a \o b) = Len(a) + Len(b)
    BY <1>6, <1>7, ConcatProperties
  <2> DEFINE ab == a \o b
  <2>2. ab \in Seq(W) /\ Len(ab) \in Nat /\ Len(ab) >= 1
    BY <1>6, <1>7, <2>1
  <2> HIDE DEF ab
  <2>3. ab \o c \in Seq(W) /\ Len(ab \o c) = Len(ab) + Len(c)
    BY <1>8, <2>2, ConcatProperties
  <2>4. Len(ab \o c) \in Nat /\ Len(ab \o c) >= 1
    BY <1>8, <2>2, <2>3
  <2> QED BY <2>3, <2>4 DEF ab
<1> DEFINE x == (a \o b) \o c
<1> HIDE DEF x
<1>10. x \in Seq(W) /\ Len(x) \in Nat /\ Len(x) >= 1 /\ Lines(r) = x \o d
  BY <1>2, <1>9 DEF x
<1>11. x \in Seq(E) /\ d \in Seq(E) /\ Len(d) = 1 /\ d[1] = <<>>
  BY <1>10
<1> HIDE DEF d
<1>12. /\ x \o d \in Seq(E) /\ Len(x \o d) = Len(x) + Len(d)
       /\ \A i \in 1 .. Len(x) + Len(d) : (x \o d)[i] = IF i <= Len(x) THEN x[i] ELSE d[i - Len(x)]
  <2> HIDE DEF E
  <2> QED BY <1>11, ConcatProperties
<1> DEFINE m == Len(Lines(r))
<1>13. m = Len(x) + 1 /\ m \in Nat /\ m >= 2
  BY <1>10, <1>11, <1>12
<1>14. Lines(r)[m] = <<>>
  <2>1. m \in 1 .. Len(x) + Len(d) /\ ~ (m <= Len(x)) /\ m - Len(x) = 1
    BY <1>10, <1>11, <1>13
  <2> HIDE DEF m
  <2> QED BY <1>10, <1>11, <1>12, <2>1
<1>15. ASSUME NEW k \in 1 .. m - 1
       PROVE  \E w \in Words : Lines(r)[k] = <<w>> /\ (w = "cookie" => r.cookie # "")
  <2>1. k \in 1 .. Len(x) /\ k \in 1 .. Len(x) + Len(d) /\ k <= Len(x)
    BY <1>10, <1>11, <1>13
  <2> HIDE DEF m, E
  <2>2. Lines(r)[k] = x[k] /\ x[k] \in W
    BY <1>10, <1>12, <2>1
  <2> QED BY <1>5, <2>2
<1>16. E \subseteq Seq(Token)
  <2>1. <<>> \in Seq(Token)
    OBVIOUS
  <2> QED BY <1>4, <2>1
<1>17. Lines(r) \in Seq(Seq(Token))
  <2> HIDE DEF E
  <2> QED BY <1>10, <1>12, <1>16
<1> QED BY <1>13, <1>14, <1>15, <1>17

(* A line of a request with its end.                                       *)
Line(r, k) == Lines(r)[k] \o EndLine(r.eol)

LEMMA LineIs ==
  ASSUME NEW r \in Request, NEW k \in 1 .. Len(Lines(r))
  PROVE  LET l == Line(r, k)  atEnd == k = Len(Lines(r))
         IN  /\ l \in Seq(Token) /\ Len(Lines(r)) \in Nat
             /\ r.eol = "crlf" /\ atEnd => Len(l) = 2 /\ l[1] = "cr" /\ l[2] = "lf"
             /\ r.eol = "crlf" /\ ~ atEnd =>
                  Len(l) = 3 /\ l[1] \in Words /\ l[2] = "cr" /\ l[3] = "lf"
             /\ r.eol # "crlf" /\ atEnd => Len(l) = 1 /\ l[1] = "lf"
             /\ r.eol # "crlf" /\ ~ atEnd => Len(l) = 2 /\ l[1] \in Words /\ l[2] = "lf"
             /\ ~ atEnd /\ l[1] = "cookie" => r.cookie # ""
<1> DEFINE m == Len(Lines(r))
           eol == r.eol
           e == EndLine(eol)
           x == Lines(r)[k]
<1>1. /\ m \in Nat /\ m >= 2 /\ x \in Seq(Token)
      /\ k = m => x = <<>>
      /\ k # m => \E w \in Words : x = <<w>> /\ (w = "cookie" => r.cookie # "")
  <2>1. /\ Lines(r) \in Seq(Seq(Token)) /\ m \in Nat /\ m >= 2
        /\ Lines(r)[m] = <<>>
        /\ \A j \in 1 .. m - 1 :
             \E w \in Words : Lines(r)[j] = <<w>> /\ (w = "cookie" => r.cookie # "")
    BY LinesAre
  <2>2. k \in 1 .. m
    OBVIOUS
  <2>5. m \in Nat
    BY <2>1
  <2> HIDE DEF m
  <2>3. k # m => k \in 1 .. m - 1
    BY <2>2, <2>5
  <2>4. x \in Seq(Token)
    BY <2>1, <2>2, ElementOfSeq DEF m
  <2> QED BY <2>1, <2>3, <2>4
<1>2. /\ e \in Seq(Token)
      /\ eol = "crlf" => Len(e) = 2 /\ e[1] = "cr" /\ e[2] = "lf"
      /\ eol # "crlf" => Len(e) = 1 /\ e[1] = "lf"
  <2>1. "cr" \in Token /\ "lf" \in Token
    BY DEF Token
  <2> HIDE DEF eol
  <2> QED BY <2>1 DEF EndLine
<1>3. Line(r, k) = x \o e
  BY DEF Line
<1> HIDE DEF m, eol, e, x
<1>4. /\ x \o e \in Seq(Token) /\ Len(x \o e) = Len(x) + Len(e)
      /\ \A i \in 1 .. Len(x) + Len(e) : (x \o e)[i] = IF i <= Len(x) THEN x[i] ELSE e[i - Len(x)]
  <2>1. x \in Seq(Token) /\ e \in Seq(Token)
    BY <1>1, <1>2
  <2> QED BY <2>1, ConcatProperties
<1>5. CASE k = m
  <2>1. Len(x) = 0
    BY <1>1, <1>5
  <2>2. eol = "crlf" => /\ Len(x \o e) = 2 /\ (x \o e)[1] = "cr" /\ (x \o e)[2] = "lf"
    BY <1>2, <1>4, <2>1
  <2>3. eol # "crlf" => /\ Len(x \o e) = 1 /\ (x \o e)[1] = "lf"
    BY <1>2, <1>4, <2>1
  <2> QED BY <1>1, <1>3, <1>4, <1>5, <2>2, <2>3 DEF m, eol
<1>6. CASE k # m
  <2>1. PICK w \in Words : x = <<w>> /\ (w = "cookie" => r.cookie # "")
    BY <1>1, <1>6
  <2>2. Len(x) = 1 /\ x[1] = w
    BY <2>1
  <2> DEFINE l == x \o e
  <2>6. /\ Len(l) = 1 + Len(e) /\ Len(e) \in Nat
        /\ \A i \in 1 .. 1 + Len(e) : l[i] = IF i <= 1 THEN w ELSE e[i - 1]
    BY <1>2, <1>4, <2>2
  <2> HIDE DEF l
  <2>7. eol = "crlf" => Len(l) = 3 /\ l[1] = w /\ l[2] = "cr" /\ l[3] = "lf"
    <3> SUFFICES ASSUME eol = "crlf" PROVE Len(l) = 3 /\ l[1] = w /\ l[2] = "cr" /\ l[3] = "lf"
      OBVIOUS
    <3>1. Len(e) = 2 /\ e[1] = "cr" /\ e[2] = "lf"
      BY <1>2
    <3>2. l[1] = w /\ l[2] = e[1] /\ l[3] = e[2] /\ Len(l) = 3
      BY <2>6, <3>1
    <3> QED BY <3>1, <3>2
  <2>8. eol # "crlf" => Len(l) = 2 /\ l[1] = w /\ l[2] = "lf"
    <3> SUFFICES ASSUME eol # "crlf" PROVE Len(l) = 2 /\ l[1] = w /\ l[2] = "lf"
      OBVIOUS
    <3>1. Len(e) = 1 /\ e[1] = "lf"
      BY <1>2
    <3>2. l[1] = w /\ l[2] = e[1] /\ Len(l) = 2
      BY <2>6, <3>1
    <3> QED BY <3>1, <3>2
  <2>3. eol = "crlf" => /\ Len(x \o e) = 3 /\ (x \o e)[1] = w /\ (x \o e)[2] = "cr"
                        /\ (x \o e)[3] = "lf"
    BY <2>7 DEF l
  <2>4. eol # "crlf" => /\ Len(x \o e) = 2 /\ (x \o e)[1] = w /\ (x \o e)[2] = "lf"
    BY <2>8 DEF l
  <2>5. (x \o e)[1] = w
    BY <2>3, <2>4
  <2> QED BY <1>1, <1>3, <1>4, <1>6, <2>1, <2>3, <2>4, <2>5 DEF m, eol
<1> QED BY <1>5, <1>6

(* Where the ends of lines are in a request, and its cookie.               *)
LEMMA TokensAre ==
  ASSUME NEW r \in Request
  PROVE  LET t == Tokens(r)  n == Len(t)
         IN  /\ t \in Seq(Token) /\ n \in Nat /\ n >= 3
             /\ r.eol = "crlf" =>
                  /\ n >= 5
                  /\ t[n - 3] = "cr" /\ t[n - 2] = "lf" /\ t[n - 1] = "cr" /\ t[n] = "lf"
                  /\ \A q \in 1 .. n - 1 : t[q] = "lf" => t[q + 1] # "lf"
                  /\ \A q \in 1 .. n - 1 : t[q] = "cr" => t[q + 1] # "cr"
                  /\ \A q \in 1 .. n - 1 : t[q] = "lf" /\ t[q + 1] = "cr" => q = n - 2
             /\ r.eol # "crlf" =>
                  /\ t[n - 1] = "lf" /\ t[n] = "lf"
                  /\ \A q \in 1 .. n : t[q] # "cr"
                  /\ \A q \in 1 .. n - 1 : t[q] = "lf" /\ t[q + 1] = "lf" => q = n - 1
             /\ \A q \in 1 .. n : t[q] = "cookie" => q <= n - 2 /\ r.cookie # ""
<1> DEFINE m == Len(Lines(r))
           lines == [k \in 1 .. m |-> Lines(r)[k] \o EndLine(r.eol)]
           t == Tokens(r)
<1>1. m \in Nat /\ m >= 2
  BY LinesAre
<1>2. \A k \in 1 .. m : lines[k] = Line(r, k)
  BY DEF Line
<1>3. \A k \in 1 .. m : lines[k] \in Seq(Token)
  BY <1>2, LineIs
<1>4. lines \in Seq(Seq(Token)) /\ Len(lines) = m /\ DOMAIN lines = 1 .. m
  <2>1. lines \in [1 .. m -> Seq(Token)]
    BY <1>3
  <2> HIDE DEF lines, m
  <2> QED BY <1>1, <2>1, SeqDef
<1>5. t = FlattenSeq(lines)
  BY DEF Tokens
<1> DEFINE len(k) == Len(Line(r, k))
<1>6. ASSUME NEW k \in 1 .. m PROVE len(k) \in Nat /\ Len(lines[k]) = len(k)
  <2>1. lines[k] = Line(r, k) /\ lines[k] \in Seq(Token)
    BY <1>2, <1>3
  <2> HIDE DEF lines
  <2> QED BY <2>1
<1>7. /\ r.eol = "crlf" =>
           /\ len(m) = 2 /\ Line(r, m)[1] = "cr" /\ Line(r, m)[2] = "lf"
           /\ \A k \in 1 .. m - 1 : /\ len(k) = 3 /\ Line(r, k)[1] \in Words
                                    /\ Line(r, k)[2] = "cr" /\ Line(r, k)[3] = "lf"
      /\ r.eol # "crlf" =>
           /\ len(m) = 1 /\ Line(r, m)[1] = "lf"
           /\ \A k \in 1 .. m - 1 : /\ len(k) = 2 /\ Line(r, k)[1] \in Words
                                    /\ Line(r, k)[2] = "lf"
      /\ \A k \in 1 .. m - 1 : Line(r, k)[1] = "cookie" => r.cookie # ""
  <2>1. m \in 1 .. m /\ \A k \in 1 .. m - 1 : k \in 1 .. m /\ k # m
    BY <1>1
  <2> QED BY <2>1, LineIs
<1>20. /\ len(m) = IF r.eol = "crlf" THEN 2 ELSE 1
       /\ \A k \in 1 .. m - 1 : len(k) = IF r.eol = "crlf" THEN 3 ELSE 2
  BY <1>7
<1> HIDE DEF lines, m, t, len
<1>8. PICK off : Ends(lines, off)
  <2>1. \A k \in 1 .. m : Len(lines[k]) \in Nat
    BY <1>6
  <2> QED BY <1>1, <1>4, <2>1, EndsExist
<1>9. /\ off \in [0 .. m -> Nat] /\ off[0] = 0
      /\ \A k \in 1 .. m : off[k] = off[k - 1] + len(k)
  BY <1>4, <1>6, <1>8 DEF Ends
<1> DEFINE n == off[m]
<1>10. /\ t \in Seq(Token) /\ Len(t) = n /\ n \in Nat
       /\ \A k \in 1 .. m : \A i \in 1 .. len(k) : t[off[k - 1] + i] = Line(r, k)[i]
  <2>1. /\ FlattenSeq(lines) \in Seq(Token) /\ Len(FlattenSeq(lines)) = off[Len(lines)]
        /\ \A k \in 1 .. Len(lines) : \A i \in 1 .. Len(lines[k]) :
             FlattenSeq(lines)[off[k - 1] + i] = lines[k][i]
    <3>1. lines \in Seq(Seq(Token)) /\ Ends(lines, off)
      BY <1>4, <1>8
    <3> QED BY <3>1, Flattened
  <2>2. off[m] \in Nat
    BY <1>1, <1>9
  <2> QED BY <1>2, <1>4, <1>5, <1>6, <2>1, <2>2
<1>11. ASSUME NEW q \in 1 .. n
       PROVE  \E k \in 1 .. m : \E i \in 1 .. len(k) :
                q = off[k - 1] + i /\ t[q] = Line(r, k)[i] /\ off[k] = q + (len(k) - i)
                /\ off[k - 1] \in Nat /\ off[k] \in Nat /\ len(k) \in Nat
  <2>1. PICK k \in 1 .. m : q \in off[k - 1] + 1 .. off[k]
    BY <1>1, <1>4, <1>8, PartOf
  <2>2. off[k - 1] \in Nat /\ off[k] \in Nat /\ len(k) \in Nat /\ off[k] = off[k - 1] + len(k)
    BY <1>1, <1>6, <1>9
  <2> DEFINE i == q - off[k - 1]
  <2>3. i \in 1 .. len(k) /\ q = off[k - 1] + i /\ off[k] = q + (len(k) - i)
    BY <2>1, <2>2
  <2> HIDE DEF i
  <2>4. t[off[k - 1] + i] = Line(r, k)[i]
    BY <1>10, <2>3
  <2> QED BY <2>2, <2>3, <2>4
<1>12. \A j \in 0 .. m : \A k \in j .. m : off[j] <= off[k]
  <2>1. \A k \in 1 .. m : Len(lines[k]) \in Nat
    BY <1>6
  <2> QED BY <1>1, <1>4, <1>8, <2>1, EndsGrow
\* The token behind the end of a line starts the next one.
<1>13. ASSUME NEW k \in 1 .. m - 1
       PROVE  /\ off[k] \in Nat /\ off[k] <= off[m - 1] /\ off[m - 1] \in Nat /\ off[k] + 1 <= n
              /\ n = off[m - 1] + len(m)
              /\ t[off[k] + 1] = Line(r, k + 1)[1]
  <2>1. /\ k \in 0 .. m /\ m - 1 \in k .. m /\ m \in 1 .. m /\ k + 1 \in 1 .. m /\ m - 1 \in 0 .. m
        /\ (k + 1) - 1 = k
    BY <1>1
  <2>2. off[k] <= off[m - 1] /\ off[k] \in Nat /\ off[m - 1] \in Nat /\ n = off[m - 1] + len(m)
    BY <1>9, <1>12, <2>1
  <2>3. len(m) \in Nat /\ len(m) >= 1
    BY <1>20
  <2>4. len(k + 1) >= 1 /\ len(k + 1) \in Nat
    <3>1. k + 1 = m \/ k + 1 \in 1 .. m - 1
      BY <1>1
    <3> QED BY <1>20, <3>1
  <2>5. t[off[(k + 1) - 1] + 1] = Line(r, k + 1)[1]
    BY <1>10, <2>1, <2>4
  <2> QED BY <2>1, <2>2, <2>3, <2>5
<1>14. m - 1 \in 1 .. m - 1 /\ m \in 1 .. m /\ \A k \in 1 .. m : k = m \/ k \in 1 .. m - 1
  BY <1>1
<1>15. /\ n = off[m - 1] + len(m) /\ off[m - 1] \in Nat /\ len(m) \in Nat
       /\ off[m - 1] = off[m - 2] + len(m - 1) /\ off[m - 2] \in Nat
  <2>1. m - 1 \in 1 .. m /\ (m - 1) - 1 = m - 2 /\ m - 2 \in 0 .. m
    BY <1>1
  <2> QED BY <1>6, <1>9, <1>13, <1>14, <2>1
<1>19. \A q \in 1 .. n - 1 : q \in 1 .. n /\ q + 1 \in 1 .. n
  BY <1>10
<1>16. ASSUME r.eol = "crlf"
       PROVE  /\ n >= 5
              /\ t[n - 3] = "cr" /\ t[n - 2] = "lf" /\ t[n - 1] = "cr" /\ t[n] = "lf"
              /\ \A q \in 1 .. n - 1 : t[q] = "lf" => t[q + 1] # "lf"
              /\ \A q \in 1 .. n - 1 : t[q] = "cr" => t[q + 1] # "cr"
              /\ \A q \in 1 .. n - 1 : t[q] = "lf" /\ t[q + 1] = "cr" => q = n - 2
  <2>1. /\ len(m) = 2 /\ Line(r, m)[1] = "cr" /\ Line(r, m)[2] = "lf"
        /\ \A k \in 1 .. m - 1 : /\ len(k) = 3 /\ Line(r, k)[1] \in Words
                                 /\ Line(r, k)[2] = "cr" /\ Line(r, k)[3] = "lf"
    BY <1>7, <1>16
  <2>2. n = off[m - 1] + 2 /\ off[m - 1] = off[m - 2] + 3 /\ n >= 5
        /\ n - 3 = off[m - 2] + 2 /\ n - 2 = off[m - 2] + 3
        /\ n - 1 = off[m - 1] + 1 /\ n = off[m - 1] + 2
    BY <1>14, <1>15, <2>1
  <2>3. t[n - 3] = "cr" /\ t[n - 2] = "lf"
    <3>1. m - 1 \in 1 .. m /\ (m - 1) - 1 = m - 2
      BY <1>1
    <3>2. 2 \in 1 .. len(m - 1) /\ 3 \in 1 .. len(m - 1)
      BY <1>14, <2>1
    <3> QED BY <1>10, <1>14, <2>1, <2>2, <3>1, <3>2, SMTT(30)
  <2>4. t[n - 1] = "cr" /\ t[n] = "lf"
    <3>2. 1 \in 1 .. len(m) /\ 2 \in 1 .. len(m)
      BY <2>1
    <3> QED BY <1>10, <1>14, <2>1, <2>2, <3>2
  <2>5. ASSUME NEW q \in 1 .. n - 1
        PROVE  /\ t[q] = "lf" => t[q + 1] # "lf"
               /\ t[q] = "cr" => t[q + 1] # "cr"
               /\ t[q] = "lf" /\ t[q + 1] = "cr" => q = n - 2
    <3>1. q \in 1 .. n /\ q + 1 \in 1 .. n
      BY <1>19
    <3>20. PICK k \in 1 .. m : \E i \in 1 .. len(k) :
            q = off[k - 1] + i /\ t[q] = Line(r, k)[i] /\ off[k] = q + (len(k) - i)
            /\ off[k - 1] \in Nat /\ off[k] \in Nat /\ len(k) \in Nat
      BY <1>11, <3>1
    <3>2. PICK i \in 1 .. len(k) :
            q = off[k - 1] + i /\ t[q] = Line(r, k)[i] /\ off[k] = q + (len(k) - i)
            /\ off[k - 1] \in Nat /\ off[k] \in Nat /\ len(k) \in Nat
      BY <3>20
    <3>3. CASE k = m
      <4>1. i = 1
        BY <1>10, <2>1, <3>2, <3>3
      <4>2. q = n - 1
        BY <1>10, <2>1, <3>2, <3>3, <4>1
      <4>3. q + 1 = n /\ t[q] = "cr"
        BY <1>10, <2>4, <4>2
      <4> QED BY <2>4, <4>3
    <3>4. CASE k \in 1 .. m - 1 /\ i # 3
      <4>1. len(k) = 3 /\ Line(r, k)[1] \in Words /\ Line(r, k)[2] = "cr" /\ Line(r, k)[3] = "lf"
        BY <2>1, <3>4
      <4>2. i \in {1, 2} /\ i + 1 \in 1 .. len(k) /\ off[k - 1] + (i + 1) = q + 1
        BY <3>2, <3>4, <4>1
      <4>3. t[q + 1] = Line(r, k)[i + 1]
        BY <1>10, <4>2
      <4>4. CASE i = 1
        <5>1. t[q] # "lf" /\ t[q] # "cr"
          BY <3>2, <4>1, <4>4 DEF Words
        <5> QED BY <5>1
      <4>5. CASE i = 2
        <5>1. t[q] = "cr" /\ t[q + 1] = "lf"
          BY <3>2, <4>1, <4>3, <4>5
        <5> QED BY <5>1
      <4> QED BY <4>2, <4>4, <4>5
    <3>5. CASE k \in 1 .. m - 1 /\ i = 3
      <4>1. len(k) = 3 /\ Line(r, k)[3] = "lf"
        BY <2>1, <3>5
      <4>2. q = off[k] /\ t[q] = "lf"
        BY <1>10, <3>2, <3>5, <4>1
      <4>3. t[q + 1] = Line(r, k + 1)[1]
        BY <1>13, <3>5, <4>2
      <4>4. CASE k + 1 = m
        <5>1. t[q + 1] = "cr" /\ q = off[m - 1]
          <6>1. k = m - 1
            BY <1>1, <4>4
          <6> QED BY <2>1, <4>2, <4>3, <4>4, <6>1
        <5> QED BY <2>2, <4>2, <5>1
      <4>5. CASE k + 1 # m
        <5>1. k + 1 \in 1 .. m - 1
          BY <1>1, <3>5, <4>5
        <5>2. t[q + 1] # "lf" /\ t[q + 1] # "cr"
          BY <2>1, <4>3, <5>1 DEF Words
        <5> QED BY <4>2, <5>2
      <4> QED BY <4>4, <4>5
    <3> QED BY <1>14, <3>3, <3>4, <3>5
  <2> QED BY <2>2, <2>3, <2>4, <2>5
<1>17. ASSUME r.eol # "crlf"
       PROVE  /\ n >= 3 /\ t[n - 1] = "lf" /\ t[n] = "lf"
              /\ \A q \in 1 .. n : t[q] # "cr"
              /\ \A q \in 1 .. n - 1 : t[q] = "lf" /\ t[q + 1] = "lf" => q = n - 1
  <2>1. /\ len(m) = 1 /\ Line(r, m)[1] = "lf"
        /\ \A k \in 1 .. m - 1 : /\ len(k) = 2 /\ Line(r, k)[1] \in Words
                                 /\ Line(r, k)[2] = "lf"
    BY <1>7, <1>17
  <2>2. n = off[m - 1] + 1 /\ off[m - 1] = off[m - 2] + 2 /\ n >= 3
        /\ n - 1 = off[m - 2] + 2 /\ n - 1 = off[m - 1]
    BY <1>14, <1>15, <2>1
  <2>3. t[n - 1] = "lf"
    <3>1. m - 1 \in 1 .. m /\ (m - 1) - 1 = m - 2
      BY <1>1
    <3>2. 2 \in 1 .. len(m - 1)
      BY <1>14, <2>1
    <3> QED BY <1>10, <1>14, <2>1, <2>2, <3>1, <3>2
  <2>4. t[n] = "lf"
    <3>2. 1 \in 1 .. len(m)
      BY <2>1
    <3> QED BY <1>10, <1>14, <2>1, <2>2, <3>2
  <2>5. ASSUME NEW q \in 1 .. n
        PROVE  t[q] # "cr" /\ (q \in 1 .. n - 1 /\ t[q] = "lf" /\ t[q + 1] = "lf" => q = n - 1)
    <3>20. PICK k \in 1 .. m : \E i \in 1 .. len(k) :
            q = off[k - 1] + i /\ t[q] = Line(r, k)[i] /\ off[k] = q + (len(k) - i)
            /\ off[k - 1] \in Nat /\ off[k] \in Nat /\ len(k) \in Nat
      BY <1>11
    <3>2. PICK i \in 1 .. len(k) :
            q = off[k - 1] + i /\ t[q] = Line(r, k)[i] /\ off[k] = q + (len(k) - i)
            /\ off[k - 1] \in Nat /\ off[k] \in Nat /\ len(k) \in Nat
      BY <3>20
    <3>3. CASE k = m
      <4>1. i = 1
        BY <2>1, <3>2, <3>3
      <4>2. q = n /\ t[q] = "lf"
        BY <1>10, <2>1, <3>2, <3>3, <4>1
      <4> QED BY <1>10, <4>2
    <3>4. CASE k \in 1 .. m - 1 /\ i # 2
      <4>1. len(k) = 2 /\ Line(r, k)[1] \in Words
        BY <2>1, <3>4
      <4>2. i = 1
        BY <3>2, <3>4, <4>1
      <4>3. t[q] # "lf" /\ t[q] # "cr"
        BY <3>2, <4>1, <4>2 DEF Words
      <4> QED BY <4>3
    <3>5. CASE k \in 1 .. m - 1 /\ i = 2
      <4>1. len(k) = 2 /\ Line(r, k)[2] = "lf"
        BY <2>1, <3>5
      <4>2. q = off[k] /\ t[q] = "lf"
        BY <1>10, <3>2, <3>5, <4>1
      <4>3. t[q + 1] = Line(r, k + 1)[1]
        BY <1>13, <3>5, <4>2
      <4>4. CASE k + 1 = m
        <5>1. q = off[m - 1]
          <6>1. k = m - 1
            BY <1>1, <4>4
          <6> QED BY <4>2, <6>1
        <5> QED BY <2>2, <4>2, <5>1
      <4>5. CASE k + 1 # m
        <5>1. k + 1 \in 1 .. m - 1
          BY <1>1, <3>5, <4>5
        <5>2. t[q + 1] # "lf"
          BY <2>1, <4>3, <5>1 DEF Words
        <5> QED BY <4>2, <5>2
      <4> QED BY <4>4, <4>5
    <3> QED BY <1>14, <3>3, <3>4, <3>5
  <2>6. \A q \in 1 .. n - 1 : q \in 1 .. n
    BY <1>10
  <2> QED BY <2>2, <2>3, <2>4, <2>5, <2>6
<1>18. ASSUME NEW q \in 1 .. n, t[q] = "cookie"
       PROVE  q <= n - 2 /\ r.cookie # ""
  <2>10. PICK k \in 1 .. m : \E i \in 1 .. len(k) :
          q = off[k - 1] + i /\ t[q] = Line(r, k)[i] /\ off[k] = q + (len(k) - i)
          /\ off[k - 1] \in Nat /\ off[k] \in Nat /\ len(k) \in Nat
    BY <1>11
  <2>1. PICK i \in 1 .. len(k) :
          q = off[k - 1] + i /\ t[q] = Line(r, k)[i] /\ off[k] = q + (len(k) - i)
          /\ off[k - 1] \in Nat /\ off[k] \in Nat /\ len(k) \in Nat
    BY <2>10
  <2>2. k \in 1 .. m - 1 /\ i = 1 /\ len(k) >= 2
    <3>1. CASE r.eol = "crlf"
      <4>1. k = m => i \in {1, 2}
        BY <1>20, <2>1, <3>1
      <4>2. k # m
        BY <1>7, <1>18, <2>1, <3>1, <4>1
      <4>3. k \in 1 .. m - 1
        BY <1>14, <4>2
      <4>4. i \in {1, 2, 3} /\ len(k) = 3
        BY <1>20, <2>1, <3>1, <4>3
      <4>5. i # 2 /\ i # 3
        BY <1>7, <1>18, <2>1, <3>1, <4>3
      <4> QED BY <4>3, <4>4, <4>5
    <3>2. CASE r.eol # "crlf"
      <4>1. k = m => i = 1
        BY <1>20, <2>1, <3>2
      <4>2. k # m
        BY <1>7, <1>18, <2>1, <3>2, <4>1
      <4>3. k \in 1 .. m - 1
        BY <1>14, <4>2
      <4>4. i \in {1, 2} /\ len(k) = 2
        BY <1>20, <2>1, <3>2, <4>3
      <4>5. i # 2
        BY <1>7, <1>18, <2>1, <3>2, <4>3
      <4> QED BY <4>3, <4>4, <4>5
    <3> QED BY <3>1, <3>2
  <2>3. r.cookie # ""
    BY <1>7, <1>18, <2>1, <2>2
  <2>4. off[k] <= off[m - 1] /\ n = off[m - 1] + len(m)
    BY <1>13, <2>2
  <2>5. len(m) >= 1
    BY <1>20
  <2>6. q + 1 <= off[m - 1] /\ off[m - 1] + 1 <= n
    <3>1. q + 1 <= off[k] /\ q \in Int
      BY <2>1, <2>2
    <3> QED BY <1>15, <2>1, <2>4, <2>5, <3>1
  <2>7. n \in Nat /\ off[m - 1] \in Nat /\ q \in Int
    BY <1>10, <1>15
  <2>8. q <= n - 2
    <3> HIDE DEF n
    <3> QED BY <2>6, <2>7
  <2> QED BY <2>3, <2>8
<1>21. n >= 3
  <2>1. CASE r.eol = "crlf"
    <3>1. n >= 5 /\ n \in Nat
      BY <1>10, <1>16, <2>1
    <3> HIDE DEF n
    <3> QED BY <3>1
  <2> QED BY <1>17, <2>1
<1>22. t \in Seq(Token) /\ Len(t) = n /\ n \in Nat
  BY <1>10
<1> HIDE DEF n
<1>23. \A q \in 1 .. n : t[q] = "cookie" => q <= n - 2 /\ r.cookie # ""
  BY <1>18
<1> QED BY <1>16, <1>17, <1>21, <1>22, <1>23 DEF t
LEMMA TwoTokens ==
  ASSUME NEW S, NEW t \in Seq(S), Len(t) = 2, NEW a, NEW b
  PROVE  t = <<a, b>> <=> t[1] = a /\ t[2] = b
<1>1. ASSUME t[1] = a, t[2] = b PROVE t = <<a, b>>
  <2> DEFINE u == <<a, b>>
  <2>1. a \in S /\ b \in S
    BY <1>1, ElementOfSeq
  <2>2. u \in Seq(S) /\ Len(u) = 2 /\ u[1] = a /\ u[2] = b
    BY <2>1
  <2>3. \A i \in 1 .. 2 : i = 1 \/ i = 2
    OBVIOUS
  <2> HIDE DEF u
  <2>4. \A i \in 1 .. Len(t) : t[i] = u[i]
    BY <1>1, <2>2, <2>3
  <2>5. t = u
    BY <2>2, <2>4, SeqEqual
  <2> QED BY <2>5 DEF u
<1>2. ASSUME t = <<a, b>> PROVE t[1] = a /\ t[2] = b
  BY <1>2
<1> QED BY <1>1, <1>2


LEMMA FourAre ==
  ASSUME NEW S, NEW s \in Seq(S), NEW i \in 4 .. Len(s)
  PROVE  \A a, b, c, d \in S :
           SubSeq(s, i - 3, i) = <<a, b, c, d>> <=>
             s[i - 3] = a /\ s[i - 2] = b /\ s[i - 1] = c /\ s[i] = d
<1> SUFFICES ASSUME NEW a \in S, NEW b \in S, NEW c \in S, NEW d \in S
             PROVE  SubSeq(s, i - 3, i) = <<a, b, c, d>> <=>
                      s[i - 3] = a /\ s[i - 2] = b /\ s[i - 1] = c /\ s[i] = d
  OBVIOUS
<1> DEFINE x == i - 4
           t == SubSeq(s, x + 1, i)
<1>1. x \in 0 .. Len(s) /\ i \in x .. Len(s) /\ i - x = 4
      /\ x + 1 = i - 3 /\ x + 2 = i - 2 /\ x + 3 = i - 1 /\ x + 4 = i
  OBVIOUS
<1>2. t = SubSeq(s, i - 3, i)
  BY <1>1
<1> HIDE DEF x
<1>3. t \in Seq(S) /\ Len(t) = i - x /\ \A j \in 1 .. i - x : t[j] = s[x + j]
  BY <1>1, PartIs
<1> HIDE DEF t
<1>4. Len(t) = 4 /\ t[1] = s[i - 3] /\ t[2] = s[i - 2] /\ t[3] = s[i - 1] /\ t[4] = s[i]
  BY <1>1, <1>3, SMTT(30)
<1> DEFINE u == <<a, b, c, d>>
<1>5. t[1] = a /\ t[2] = b /\ t[3] = c /\ t[4] = d => t = u
  <2> SUFFICES ASSUME t[1] = a, t[2] = b, t[3] = c, t[4] = d PROVE t = u
    OBVIOUS
  <2>2. u \in Seq(S) /\ Len(u) = 4 /\ u[1] = a /\ u[2] = b /\ u[3] = c /\ u[4] = d
    OBVIOUS
  <2>3. \A k \in 1 .. 4 : k = 1 \/ k = 2 \/ k = 3 \/ k = 4
    OBVIOUS
  <2> HIDE DEF u
  <2>4. \A k \in 1 .. Len(t) : t[k] = u[k]
    BY <1>4, <2>2, <2>3
  <2>5. t \in Seq(S) /\ Len(t) = Len(u)
    BY <1>3, <1>4, <2>2
  <2> QED BY <2>2, <2>4, <2>5, SeqEqual
<1>6. t = u => t[1] = a /\ t[2] = b /\ t[3] = c /\ t[4] = d
  OBVIOUS
<1> QED BY <1>2, <1>4, <1>5, <1>6

LEMMA TwoAre ==
  ASSUME NEW S, NEW s \in Seq(S), Len(s) > 1, NEW a, NEW b
  PROVE  SubSeq(s, 1, 2) = <<a, b>> <=> s[1] = a /\ s[2] = b
<1> DEFINE t == SubSeq(s, 0 + 1, 2)
<1>1. 0 \in 0 .. Len(s) /\ 2 \in 0 .. Len(s)
  OBVIOUS
<1>2. t = SubSeq(s, 1, 2)
  OBVIOUS
<1>3. t \in Seq(S) /\ Len(t) = 2 - 0 /\ \A j \in 1 .. 2 - 0 : t[j] = s[0 + j]
  BY <1>1, PartIs
<1> HIDE DEF t
<1>4. Len(t) = 2 /\ t[1] = s[1] /\ t[2] = s[2]
  BY <1>3
<1>5. t = <<a, b>> <=> t[1] = a /\ t[2] = b
  BY <1>3, <1>4, TwoTokens
<1> QED BY <1>2, <1>4, <1>5

(* The end is found in the chunk that ends the request, and brings all of   *)
(* the empty line.                                                         *)
LEMMA EndIsFound ==
  ASSUME NEW r \in Request, NEW p \in 0 .. Len(Tokens(r)), NEW n \in 1 .. Len(Tokens(r)) - p
  PROVE  HasEnd(SubSeq(Tokens(r), p + 1, p + n)) <=>
           p + n = Len(Tokens(r)) /\ (IF r.eol = "crlf" THEN n >= 4 ELSE n = 2)
<1> DEFINE t == Tokens(r)
           L == Len(t)
           eol == r.eol
           y == p + n
           c == SubSeq(t, p + 1, y)
<1>1. /\ t \in Seq(Token) /\ L \in Nat /\ L >= 3
      /\ eol = "crlf" =>
           /\ L >= 5
           /\ t[L - 3] = "cr" /\ t[L - 2] = "lf" /\ t[L - 1] = "cr" /\ t[L] = "lf"
           /\ \A q \in 1 .. L - 1 : t[q] = "lf" => t[q + 1] # "lf"
           /\ \A q \in 1 .. L - 1 : t[q] = "cr" => t[q + 1] # "cr"
           /\ \A q \in 1 .. L - 1 : t[q] = "lf" /\ t[q + 1] = "cr" => q = L - 2
      /\ eol # "crlf" =>
           /\ t[L - 1] = "lf" /\ t[L] = "lf"
           /\ \A q \in 1 .. L : t[q] # "cr"
           /\ \A q \in 1 .. L - 1 : t[q] = "lf" /\ t[q + 1] = "lf" => q = L - 1
  BY TokensAre
<1>2. p \in 0 .. L /\ n \in 1 .. L - p /\ y = p + n /\ p \in Nat /\ n \in Nat
  BY <1>1
<1>12. L = Len(t)
  OBVIOUS
<1> HIDE DEF t, L, eol, y
<1>3. y \in p .. Len(t) /\ p \in 0 .. Len(t) /\ y \in Nat /\ y - p = n /\ y <= L
  BY <1>1, <1>2, <1>12
<1>13. t \in Seq(Token) /\ Len(t) \in Nat
  BY <1>1, <1>12
<1>14. c \in Seq(Token) /\ Len(c) = y - p /\ \A i \in 1 .. y - p : c[i] = t[p + i]
  BY <1>3, <1>13, PartIs
<1>4. c \in Seq(Token) /\ Len(c) = n /\ \A i \in 1 .. n : c[i] = t[p + i]
  BY <1>3, <1>14
<1> HIDE DEF c
<1>5. HasEnd(c) <=>
        \/ \E i \in 4 .. n :
             \/ t[p + i - 3] = "cr" /\ t[p + i - 2] = "lf" /\ t[p + i - 1] = "cr" /\ t[p + i] = "lf"
             \/ t[p + i - 3] = "lf" /\ t[p + i - 2] = "cr" /\ t[p + i - 1] = "lf" /\ t[p + i] = "cr"
        \/ n > 1 /\ \/ t[p + 1] = "cr" /\ t[p + 2] = "cr"
                    \/ t[p + 1] = "lf" /\ t[p + 2] = "lf"
  <2>1. ASSUME NEW i \in 4 .. n
        PROVE  SubSeq(c, i - 3, i) \in {<<"cr", "lf", "cr", "lf">>, <<"lf", "cr", "lf", "cr">>} <=>
                 \/ t[p + i - 3] = "cr" /\ t[p + i - 2] = "lf" /\ t[p + i - 1] = "cr" /\ t[p + i] = "lf"
                 \/ t[p + i - 3] = "lf" /\ t[p + i - 2] = "cr" /\ t[p + i - 1] = "lf" /\ t[p + i] = "cr"
    <3>1. /\ i - 3 \in 1 .. n /\ i - 2 \in 1 .. n /\ i - 1 \in 1 .. n /\ i \in 1 .. n
          /\ p + (i - 3) = p + i - 3 /\ p + (i - 2) = p + i - 2 /\ p + (i - 1) = p + i - 1
      BY <1>2
    <3>2. c[i - 3] = t[p + i - 3] /\ c[i - 2] = t[p + i - 2] /\ c[i - 1] = t[p + i - 1] /\ c[i] = t[p + i]
      BY <1>4, <3>1
    <3>3. i \in 4 .. Len(c)
      BY <1>4
    <3>6. c \in Seq(Token)
      BY <1>4
    <3>7. \A e1, e2, e3, e4 \in Token :
            SubSeq(c, i - 3, i) = <<e1, e2, e3, e4>> <=>
              c[i - 3] = e1 /\ c[i - 2] = e2 /\ c[i - 1] = e3 /\ c[i] = e4
      BY <3>3, <3>6, FourAre
    <3>8. "cr" \in Token /\ "lf" \in Token
      BY DEF Token
    <3>4. SubSeq(c, i - 3, i) = <<"cr", "lf", "cr", "lf">> <=>
            c[i - 3] = "cr" /\ c[i - 2] = "lf" /\ c[i - 1] = "cr" /\ c[i] = "lf"
      BY <3>7, <3>8, Zenon
    <3>5. SubSeq(c, i - 3, i) = <<"lf", "cr", "lf", "cr">> <=>
            c[i - 3] = "lf" /\ c[i - 2] = "cr" /\ c[i - 1] = "lf" /\ c[i] = "cr"
      BY <3>7, <3>8, Zenon
    <3> QED BY <3>2, <3>4, <3>5
  <2>2. ASSUME n > 1
        PROVE  SubSeq(c, 1, 2) \in {<<"cr", "cr">>, <<"lf", "lf">>} <=>
                 \/ t[p + 1] = "cr" /\ t[p + 2] = "cr"
                 \/ t[p + 1] = "lf" /\ t[p + 2] = "lf"
    <3>1. c[1] = t[p + 1] /\ c[2] = t[p + 2]
      BY <1>2, <1>4, <2>2
    <3>2. Len(c) > 1
      BY <1>4, <2>2
    <3>4. c \in Seq(Token)
      BY <1>4
    <3>3. SubSeq(c, 1, 2) = <<"cr", "cr">> <=> c[1] = "cr" /\ c[2] = "cr"
      BY <3>2, <3>4, TwoAre, Zenon
    <3>5. SubSeq(c, 1, 2) = <<"lf", "lf">> <=> c[1] = "lf" /\ c[2] = "lf"
      BY <3>2, <3>4, TwoAre, Zenon
    <3> QED BY <3>1, <3>3, <3>5
  <2>3. HasEnd(c) <=>
          \/ \E i \in 4 .. n :
               SubSeq(c, i - 3, i) \in {<<"cr", "lf", "cr", "lf">>, <<"lf", "cr", "lf", "cr">>}
          \/ n > 1 /\ SubSeq(c, 1, 2) \in {<<"cr", "cr">>, <<"lf", "lf">>}
    BY <1>4 DEF HasEnd
  <2> QED BY <2>1, <2>2, <2>3
<1>6. CASE eol = "crlf"
  <2>1. /\ L >= 5
        /\ t[L - 3] = "cr" /\ t[L - 2] = "lf" /\ t[L - 1] = "cr" /\ t[L] = "lf"
        /\ \A q \in 1 .. L - 1 : t[q] = "lf" => t[q + 1] # "lf"
        /\ \A q \in 1 .. L - 1 : t[q] = "cr" => t[q + 1] # "cr"
        /\ \A q \in 1 .. L - 1 : t[q] = "lf" /\ t[q + 1] = "cr" => q = L - 2
    BY <1>1, <1>6
  <2>2. ASSUME NEW i \in 4 .. n,
               t[p + i - 3] = "cr", t[p + i - 2] = "lf", t[p + i - 1] = "cr", t[p + i] = "lf"
        PROVE  y = L /\ n >= 4
    <3> DEFINE q == p + i - 2
    <3>1. q \in 1 .. L - 1 /\ q + 1 = p + i - 1
      BY <1>1, <1>2, <1>3
    <3>2. q = L - 2
      <4> HIDE DEF q
      <4>1. t[q] = "lf" /\ t[q + 1] = "cr"
        BY <2>2, <3>1 DEF q
      <4> QED BY <2>1, <3>1, <4>1
    <3> QED BY <1>1, <1>2, <1>3, <3>2
  <2>3. ASSUME NEW i \in 4 .. n,
               t[p + i - 3] = "lf", t[p + i - 2] = "cr", t[p + i - 1] = "lf", t[p + i] = "cr"
        PROVE  FALSE
    <3> DEFINE q == p + i - 3
    <3>1. q \in 1 .. L - 1 /\ q + 1 = p + i - 2
      BY <1>1, <1>2, <1>3
    <3>2. q = L - 2
      <4> HIDE DEF q
      <4>1. t[q] = "lf" /\ t[q + 1] = "cr"
        BY <2>3, <3>1 DEF q
      <4> QED BY <2>1, <3>1, <4>1
    <3> QED BY <1>1, <1>2, <1>3, <3>2
  <2>4. n > 1 => ~ (t[p + 1] = "cr" /\ t[p + 2] = "cr") /\ ~ (t[p + 1] = "lf" /\ t[p + 2] = "lf")
    <3> SUFFICES ASSUME n > 1
                 PROVE  ~ (t[p + 1] = "cr" /\ t[p + 2] = "cr") /\ ~ (t[p + 1] = "lf" /\ t[p + 2] = "lf")
      OBVIOUS
    <3>1. p + 1 \in 1 .. L - 1 /\ (p + 1) + 1 = p + 2
      BY <1>1, <1>2, <1>3
    <3> QED BY <2>1, <3>1
  <2>5. y = L /\ n >= 4 =>
          \E i \in 4 .. n : t[p + i - 3] = "cr" /\ t[p + i - 2] = "lf" /\ t[p + i - 1] = "cr" /\ t[p + i] = "lf"
    <3> SUFFICES ASSUME y = L, n >= 4
                 PROVE  n \in 4 .. n /\ t[p + n - 3] = "cr" /\ t[p + n - 2] = "lf"
                        /\ t[p + n - 1] = "cr" /\ t[p + n] = "lf"
      OBVIOUS
    <3>1. n \in 4 .. n /\ p + n - 3 = L - 3 /\ p + n - 2 = L - 2 /\ p + n - 1 = L - 1 /\ p + n = L
      BY <1>2
    <3> QED BY <2>1, <3>1
  <2>6. HasEnd(c) <=> y = L /\ n >= 4
    BY <1>5, <2>2, <2>3, <2>4, <2>5
  <2> QED BY <1>6, <2>6 DEF c, y, L, t, eol
<1>7. CASE eol # "crlf"
  <2>1. /\ t[L - 1] = "lf" /\ t[L] = "lf"
        /\ \A q \in 1 .. L : t[q] # "cr"
        /\ \A q \in 1 .. L - 1 : t[q] = "lf" /\ t[q + 1] = "lf" => q = L - 1
    BY <1>1, <1>7
  <2>2. ASSUME NEW i \in 4 .. n PROVE t[p + i - 3] # "cr" /\ t[p + i - 2] # "cr"
    <3>1. p + i - 3 \in 1 .. L /\ p + i - 2 \in 1 .. L
      BY <1>1, <1>2, <1>3
    <3> QED BY <2>1, <3>1
  <2>3. n > 1 => t[p + 1] # "cr" /\ (t[p + 1] = "lf" /\ t[p + 2] = "lf" => y = L /\ n = 2)
    <3> SUFFICES ASSUME n > 1
                 PROVE  t[p + 1] # "cr" /\ (t[p + 1] = "lf" /\ t[p + 2] = "lf" => y = L /\ n = 2)
      OBVIOUS
    <3>1. p + 1 \in 1 .. L - 1 /\ p + 1 \in 1 .. L /\ (p + 1) + 1 = p + 2
      BY <1>1, <1>2, <1>3
    <3>2. t[p + 1] = "lf" /\ t[p + 2] = "lf" => p + 1 = L - 1
      BY <2>1, <3>1
    <3>3. p + 1 = L - 1 => y = L /\ n = 2
      BY <1>1, <1>2, <1>3
    <3> QED BY <2>1, <3>1, <3>2, <3>3
  <2>4. y = L /\ n = 2 => n > 1 /\ t[p + 1] = "lf" /\ t[p + 2] = "lf"
    <3> SUFFICES ASSUME y = L, n = 2 PROVE n > 1 /\ t[p + 1] = "lf" /\ t[p + 2] = "lf"
      OBVIOUS
    <3>1. p + 1 = L - 1 /\ p + 2 = L
      BY <1>2
    <3> QED BY <2>1, <3>1
  <2>5. HasEnd(c) <=> y = L /\ n = 2
    BY <1>5, <2>2, <2>3, <2>4
  <2> QED BY <1>7, <2>5 DEF c, y, L, t, eol
<1> QED BY <1>6, <1>7

-----------------------------------------------------------------------------
(* The reader of the web server. The first p tokens of the request were     *)
(* received, and the buffer holds those of them that fit.                   *)
Fit(p) == IF p <= BufSize THEN p ELSE BufSize

Received(p) ==
  LET t == Tokens(req)
  IN  /\ p \in 0 .. Len(t)
      /\ wire = SubSeq(t, p + 1, Len(t)) /\ bufIn = SubSeq(t, 1, Fit(p))

WebTypes ==
  /\ req \in Request /\ wire \in Seq(Token)
  /\ web \in {"reading", "page", "sent", "waiting", "closed"}
  /\ cur \in 0 .. Len(List) - 1 /\ devices \in Seq({Player})

WebInv == WebTypes /\ (\E p \in Nat : Received(p)) /\ RequestEnds /\ ClientFromCookie

LEMMA FirstDevice ==
  ASSUME devices \in Seq({Player})
  PROVE  (IF devices # <<>> THEN devices[1] ELSE "") \in {Player, ""}
<1>1. ASSUME devices # <<>> PROVE devices[1] = Player
  <2>1. Len(devices) # 0 /\ Len(devices) \in Nat
    BY <1>1, EmptySeq
  <2>2. 1 \in 1 .. Len(devices)
    BY <2>1
  <2> QED BY <2>2, ElementOfSeq
<1> QED BY <1>1

LEMMA FitIs == \A p \in Nat : Fit(p) \in Nat /\ Fit(p) <= p /\ Fit(p) <= BufSize
                              /\ (Fit(p) = p \/ Fit(p) = BufSize)
BY SizeAssumption DEF Fit

LEMMA BufferIs ==
  ASSUME NEW r \in Request, NEW p \in 0 .. Len(Tokens(r))
  PROVE  LET t == Tokens(r)  b == SubSeq(t, 1, Fit(p))
         IN  b \in Seq(Token) /\ Len(b) = Fit(p) /\ \A i \in 1 .. Fit(p) : b[i] = t[i]
<1> DEFINE t == Tokens(r)
           m == Fit(p)
           z == 0
           b == SubSeq(t, z + 1, m)
<1>1. t \in Seq(Token) /\ Len(t) \in Nat
  BY TokensAre
<1>2. b = SubSeq(t, 1, m)
  OBVIOUS
<1>5. p \in 0 .. Len(t)
  OBVIOUS
<1> HIDE DEF t
<1>6. p \in Nat /\ p <= Len(t)
  BY <1>1, <1>5
<1> HIDE DEF m
<1>3. z \in 0 .. Len(t) /\ m \in z .. Len(t) /\ m - z = m /\ \A i \in 1 .. m : z + i = i
  BY <1>1, <1>6, FitIs, SMTT(30) DEF m
<1> HIDE DEF z
<1>4. b \in Seq(Token) /\ Len(b) = m - z /\ \A i \in 1 .. m - z : b[i] = t[z + i]
  BY <1>1, <1>3, PartIs
<1> HIDE DEF b
<1>7. b \in Seq(Token) /\ Len(b) = m /\ \A i \in 1 .. m : b[i] = t[i]
  BY <1>3, <1>4
<1> QED BY <1>2, <1>7 DEF m, t

LEMMA ReceivedIs ==
  ASSUME req \in Request, NEW p \in Nat, Received(p)
  PROVE  LET t == Tokens(req)  L == Len(t)
         IN  /\ L \in Nat /\ p <= L /\ wire \in Seq(Token) /\ Len(wire) = L - p
             /\ bufIn \in Seq(Token) /\ Len(bufIn) = Fit(p)
             /\ \A i \in 1 .. Fit(p) : bufIn[i] = t[i]
<1> DEFINE t == Tokens(req)
           L == Len(t)
<1>1. t \in Seq(Token) /\ L \in Nat
  BY TokensAre
<1>2. p \in 0 .. L /\ wire = SubSeq(t, p + 1, L) /\ bufIn = SubSeq(t, 1, Fit(p))
  BY DEF Received
<1>3. bufIn \in Seq(Token) /\ Len(bufIn) = Fit(p) /\ \A i \in 1 .. Fit(p) : bufIn[i] = t[i]
  BY <1>2, BufferIs
<1> HIDE DEF t
<1>4. p \in 0 .. Len(t) /\ Len(t) \in p .. Len(t)
  BY <1>1, <1>2
<1>5. wire \in Seq(Token) /\ Len(wire) = L - p
  <2>1. t \in Seq(Token) /\ wire = SubSeq(t, p + 1, L)
    BY <1>1, <1>2
  <2> QED BY <1>4, <2>1, PartIs
<1> QED BY <1>1, <1>2, <1>3, <1>5 DEF t

(* A chunk is the next part of the request, and the buffer is filled up.    *)
LEMMA ChunkReceived ==
  ASSUME req \in Request, NEW p \in Nat, Received(p), NEW n \in 1 .. Len(wire)
  PROVE  LET t == Tokens(req)  c == SubSeq(wire, 1, n)
         IN  /\ n \in 1 .. Len(t) - p /\ c = SubSeq(t, p + 1, p + n)
             /\ SubSeq(wire, n + 1, Len(wire)) = SubSeq(t, (p + n) + 1, Len(t))
             /\ Added(c) = SubSeq(t, 1, Fit(p + n))
<1> DEFINE t == Tokens(req)
           L == Len(t)
           c == SubSeq(t, p + 1, p + n)
           y == p + n
<1>1. t \in Seq(Token) /\ L \in Nat /\ L = Len(t)
  BY TokensAre
<1>2. /\ p <= L /\ wire \in Seq(Token) /\ Len(wire) = L - p
      /\ bufIn \in Seq(Token) /\ Len(bufIn) = Fit(p)
      /\ Fit(p) \in Nat /\ Fit(p) <= p /\ Fit(p) <= BufSize
      /\ \A i \in 1 .. Fit(p) : bufIn[i] = t[i]
  BY ReceivedIs, FitIs
<1>3. wire = SubSeq(t, p + 1, L)
  BY DEF Received
<1> HIDE DEF t, L
<1>4. n \in 1 .. L - p /\ p \in 0 .. Len(t) /\ L \in p .. Len(t) /\ n \in 0 .. L - p
  BY <1>1, <1>2
<1>5. SubSeq(wire, 1, n) = SubSeq(t, p + 1, p + n)
      /\ SubSeq(wire, n + 1, L - p) = SubSeq(t, p + n + 1, L)
  BY <1>1, <1>3, <1>4, PartIsCut
<1>6. y \in p .. Len(t) /\ y \in Nat /\ y <= L /\ y - p = n
  BY <1>1, <1>2, <1>4
<1>7. c \in Seq(Token) /\ Len(c) = n /\ \A i \in 1 .. n : c[i] = t[p + i]
  <2> HIDE DEF y
  <2>1. SubSeq(t, p + 1, y) \in Seq(Token) /\ Len(SubSeq(t, p + 1, y)) = y - p
        /\ \A i \in 1 .. y - p : SubSeq(t, p + 1, y)[i] = t[p + i]
    BY <1>1, <1>4, <1>6, PartIs
  <2> QED BY <1>6, <2>1 DEF y
<1>8. Added(c) = SubSeq(t, 1, Fit(y))
  <2> HIDE DEF c, y
  <2> DEFINE x == bufIn \o c
             k == Fit(y)
  <2>20. bufIn \in Seq(Token) /\ c \in Seq(Token) /\ Len(bufIn) = Fit(p) /\ Len(c) = n
    BY <1>2, <1>7
  <2>1. /\ x \in Seq(Token) /\ Len(x) = Fit(p) + n
        /\ \A i \in 1 .. Fit(p) + n : x[i] = IF i <= Fit(p) THEN bufIn[i] ELSE c[i - Fit(p)]
    <3>1. /\ x \in Seq(Token) /\ Len(x) = Len(bufIn) + Len(c)
          /\ \A i \in 1 .. Len(bufIn) + Len(c) :
               x[i] = IF i <= Len(bufIn) THEN bufIn[i] ELSE c[i - Len(bufIn)]
      BY <2>20, ConcatProperties
    <3> HIDE DEF x
    <3> QED BY <2>20, <3>1
  <2>2. k \in Nat /\ k <= y /\ k <= BufSize /\ k <= Fit(p) + n
        /\ (k = BufSize \/ k = Fit(p) + n)
    BY <1>2, <1>4, <1>6, SizeAssumption DEF Fit
  <2>3. \A i \in 1 .. k : i <= Fit(p) \/ Fit(p) = p
    BY <1>2, <2>2, SizeAssumption DEF Fit
  <2> HIDE DEF x, k
  <2>4. Min({BufSize, Len(x)}) = k
    <3>1. k \in {BufSize, Len(x)} /\ BufSize \in Nat /\ Len(x) \in Nat /\ k <= BufSize /\ k <= Len(x)
      BY <1>2, <1>4, <2>1, <2>2, SizeAssumption
    <3>2. \A m \in {BufSize, Len(x)} :
            (\A e \in {BufSize, Len(x)} : m <= e) => m = k
      BY <3>1
    <3> QED BY <3>1, <3>2 DEF Min
  <2>5. Added(c) = SubSeq(x, 1, k)
    BY <2>4 DEF Added, x
  <2> DEFINE z == 0  a == SubSeq(x, z + 1, k)  b == SubSeq(t, z + 1, k)
  <2>6. z \in 0 .. Len(x) /\ k \in z .. Len(x) /\ z \in 0 .. Len(t) /\ k \in z .. Len(t)
    BY <1>1, <1>2, <1>6, <2>1, <2>2
  <2> HIDE DEF z
  <2>7. a \in Seq(Token) /\ Len(a) = k - z /\ \A i \in 1 .. k - z : a[i] = x[z + i]
    BY <2>1, <2>6, PartIs
  <2>8. b \in Seq(Token) /\ Len(b) = k - z /\ \A i \in 1 .. k - z : b[i] = t[z + i]
    BY <1>1, <2>6, PartIs
  <2>9. k - z = k /\ z + 1 = 1 /\ \A i \in 1 .. k : z + i = i
    BY <2>2 DEF z
  <2> HIDE DEF a, b
  <2>10. ASSUME NEW i \in 1 .. k PROVE x[i] = t[i]
    <3>1. i \in 1 .. Fit(p) + n
      BY <1>2, <1>4, <2>2
    <3>2. CASE i <= Fit(p)
      <4>1. i \in 1 .. Fit(p)
        BY <1>2, <3>2
      <4> QED BY <1>2, <2>1, <3>1, <3>2, <4>1
    <3>3. CASE ~ (i <= Fit(p))
      <4>1. Fit(p) = p /\ i - p \in 1 .. n /\ p + (i - p) = i
        BY <1>2, <1>4, <2>3, <3>1, <3>3
      <4>2. x[i] = c[i - p]
        BY <2>1, <3>1, <3>3, <4>1
      <4> QED BY <1>7, <4>1, <4>2
    <3> QED BY <3>2, <3>3
  <2>11. a = b
    <3>1. \A i \in 1 .. Len(a) : a[i] = b[i]
      BY <2>7, <2>8, <2>9, <2>10
    <3> QED BY <2>7, <2>8, <2>9, <3>1, SeqEqual
  <2> QED BY <2>5, <2>9, <2>11 DEF a, b, k
<1> QED BY <1>2, <1>4, <1>5, <1>8 DEF t, L, c, y

(* The cookie is seen when it lies in the buffer.                          *)
LEMMA CookieSeen ==
  ASSUME req \in Request, devices \in Seq({Player}), NEW L, L = Len(Tokens(req)),
         NEW buf, buf = SubSeq(Tokens(req), 1, Fit(L))
  PROVE  IF CookieAt + 1 < BufSize THEN ClientOf(buf) = req.cookie
         ELSE ClientOf(buf) \in {Player, ""}
<1> DEFINE t == Tokens(req)
           m == Fit(L)
           is == {i \in 1 .. Len(t) : t[i] = "cookie"}
<1>1. /\ t \in Seq(Token) /\ L \in Nat /\ L >= 3
      /\ \A q \in 1 .. L : t[q] = "cookie" => q <= L - 2 /\ req.cookie # ""
  BY TokensAre
<1>2. CookieAt = IF is = {} THEN BufSize ELSE Min(is)
  BY DEF CookieAt
<1>3. Len(t) = L
  OBVIOUS
<1>4. BufSize \in Nat /\ BufSize >= 3
  BY SizeAssumption
<1>5. buf \in Seq(Token) /\ Len(buf) = m /\ \A i \in 1 .. m : buf[i] = t[i]
  <2>1. L \in 0 .. Len(t)
    <3>1. L \in Nat /\ L = Len(t)
      BY <1>1
    <3> HIDE DEF t
    <3> QED BY <3>1
  <2> QED BY <2>1, BufferIs
<1> HIDE DEF t, is, m
<1>6. is \subseteq 1 .. L /\ is \subseteq Nat /\ \A i \in 1 .. L : i \in is <=> t[i] = "cookie"
  BY <1>3 DEF is
<1>20. m \in Nat /\ m >= 3 /\ m <= L /\ m <= BufSize /\ (m = L \/ m = BufSize) /\ BufSize \in Nat
      /\ L \in Nat /\ L >= 3
  <2>1. L \in Nat /\ L >= 3
    BY <1>1
  <2>2. m \in Nat /\ m <= L /\ m <= BufSize /\ (m = L \/ m = BufSize)
    BY <2>1, FitIs DEF m
  <2> QED BY <1>4, <2>1, <2>2
<1>7. CookieIn(buf) <=> req.cookie # "" /\ \E i \in 1 .. m - 2 : t[i] = "cookie"
  <2> DEFINE s == SubSeq(buf, 1, Len(buf) - 1)
             z == 0
             b == SubSeq(buf, z + 1, m - 1)
  <2>1. /\ z \in 0 .. Len(buf) /\ m - 1 \in z .. Len(buf) /\ s = b /\ (m - 1) - z = m - 1
        /\ \A i \in 1 .. m - 1 : z + i = i
    BY <1>5, <1>20
  <2> HIDE DEF z
  <2>2. Len(b) = (m - 1) - z /\ \A i \in 1 .. (m - 1) - z : b[i] = buf[z + i]
    <3> DEFINE w == m - 1
    <3>1. w \in z .. Len(buf)
      BY <2>1
    <3> HIDE DEF w
    <3>2. LET u == SubSeq(buf, z + 1, w) IN
          Len(u) = w - z /\ \A i \in 1 .. w - z : u[i] = buf[z + i]
      BY <1>5, <2>1, <3>1, PartIs, SMTT(30)
    <3> QED BY <3>2 DEF w
  <2>3. Len(s) = m - 1 /\ \A i \in 1 .. m - 1 : s[i] = buf[i]
    <3> HIDE DEF b
    <3> QED BY <2>1, <2>2
  <2>9. \A i \in 1 .. m - 2 : i \in 1 .. m - 1 /\ i \in 1 .. m
    BY <1>20
  <2> DEFINE k == Len(s)
  <2>10. k = m - 1
    BY <2>3
  <2> HIDE DEF k
  <2>8. k - 1 = m - 2
    BY <1>20, <2>10
  <2>4. Len(s) - 1 = m - 2 /\ \A i \in 1 .. m - 2 : i \in 1 .. m - 1 /\ i \in 1 .. m
    BY <2>8, <2>9 DEF k
  <2>5. CookieIn(buf) <=> req.cookie # "" /\ \E i \in 1 .. Len(s) - 1 : s[i] = "cookie"
    BY DEF CookieIn
  <2> HIDE DEF s
  <2>6. \A i \in 1 .. m - 2 : s[i] = t[i]
    BY <1>5, <2>3, <2>4
  <2> QED BY <2>4, <2>5, <2>6
<1>8. CASE is = {}
  <2>1. ~ (CookieAt + 1 < BufSize)
    BY <1>2, <1>8, <1>20
  <2>2. ~ CookieIn(buf)
    <3>1. \A i \in 1 .. m - 2 : i \in 1 .. L
      BY <1>20, SMTT(30)
    <3> QED BY <1>6, <1>7, <1>8, <3>1
  <2>3. ClientOf(buf) \in {Player, ""}
    BY <2>2, FirstDevice DEF ClientOf
  <2> QED BY <2>1, <2>3
<1>9. CASE is # {}
  <2>1. PICK q \in is : \A i \in is : q <= i
    BY <1>6, <1>9, LeastNumber
  <2>2. Min(is) = q
    <3>1. \A e \in is : (\A i \in is : e <= i) => e = q
      BY <1>6, <2>1
    <3> QED BY <2>1, <3>1 DEF Min
  <2>3. CookieAt = q /\ q \in 1 .. L /\ t[q] = "cookie" /\ q <= L - 2 /\ req.cookie # ""
    BY <1>1, <1>2, <1>6, <1>9, <2>1, <2>2
  <2>6. q \in Nat /\ q >= 1 /\ q <= L - 2
    <3>1. q \in 1 .. L /\ q <= L - 2
      BY <2>3
    <3>2. L \in Nat
      BY <1>20
    <3> QED BY <3>1, <3>2
  <2>4. CASE q + 1 < BufSize
    <3>1. q \in 1 .. m - 2
      BY <1>20, <2>4, <2>6
    <3>2. ClientOf(buf) = req.cookie
      BY <1>7, <2>3, <3>1 DEF ClientOf
    <3> QED BY <2>3, <2>4, <3>2
  <2>5. CASE ~ (q + 1 < BufSize)
    <3>1. \A i \in 1 .. m - 2 : i \in 1 .. L /\ ~ (q <= i)
      BY <1>20, <2>5, <2>6
    <3>2. ~ CookieIn(buf)
      BY <1>6, <1>7, <2>1, <3>1
    <3>3. ClientOf(buf) \in {Player, ""}
      BY <3>2, FirstDevice DEF ClientOf
    <3> QED BY <2>3, <2>5, <3>3
  <2> QED BY <2>4, <2>5
<1> QED BY <1>8, <1>9

LEMMA WebInit == Init => WebInv
<1> SUFFICES ASSUME Init PROVE WebInv
  OBVIOUS
<1>1. /\ req \in Request /\ wire = Tokens(req) /\ bufIn = <<>> /\ web = "reading"
      /\ cur = 0 /\ devices = <<>>
  BY InputAssumption DEF Init
<1> DEFINE t == Tokens(req)
           L == Len(t)
<1>2. t \in Seq(Token) /\ L \in Nat /\ L >= 3
  BY <1>1, TokensAre
<1>3. Len(List) \in Nat /\ Len(List) # 0
  BY ListAssumption, EmptySeq
<1>4. wire # <<>>
  <2> HIDE DEF t
  <2>1. t # <<>>
    BY <1>2
  <2> QED BY <1>1, <2>1 DEF t
<1>5. Received(0)
  <2> HIDE DEF t, L
  <2>1. SubSeq(t, 1, L) = t
    BY <1>2 DEF L
  <2>2. Fit(0) = 0
    BY FitIs
  <2>3. SubSeq(t, 1, 0) = <<>>
    BY <1>2
  <2>4. 0 \in 0 .. L
    BY <1>2
  <2> QED BY <1>1, <2>1, <2>2, <2>3, <2>4 DEF Received, t, L
<1>6. WebTypes
  <2>1. wire \in Seq(Token)
    BY <1>1, <1>2
  <2>2. cur \in 0 .. Len(List) - 1
    BY <1>1, <1>3
  <2> QED BY <1>1, <2>1, <2>2 DEF WebTypes
<1>7. RequestEnds /\ ClientFromCookie
  BY <1>1, <1>4 DEF RequestEnds, ClientFromCookie
<1> QED BY <1>5, <1>6, <1>7 DEF WebInv

(* A chunk arrives: the request is handled when it was the last and brought *)
(* the whole empty line.                                                   *)
LEMMA WebReadInv ==
  ASSUME WebInv, WebRead
  PROVE  WebInv'
<1> DEFINE t == Tokens(req)
           L == Len(t)
<1>1. /\ req \in Request /\ cur \in 0 .. Len(List) - 1 /\ devices \in Seq({Player})
      /\ web = "reading"
      /\ req' = req /\ cur' = cur /\ devices' = devices
  BY DEF WebInv, WebTypes, WebRead
<1>2. PICK p \in Nat : Received(p)
  BY DEF WebInv
<1>3. PICK n \in 1 .. Len(wire) :
        /\ wire' = SubSeq(wire, n + 1, Len(wire))
        /\ bufIn' = Added(SubSeq(wire, 1, n))
        /\ last' = n
        /\ IF HasEnd(SubSeq(wire, 1, n)) THEN HandleGet
           ELSE UNCHANGED <<web, client, song, todo, page>>
  BY DEF WebRead
<1> DEFINE c == SubSeq(wire, 1, n)
           y == p + n
<1>4. /\ n \in 1 .. L - p /\ c = SubSeq(t, p + 1, y)
      /\ wire' = SubSeq(t, y + 1, L) /\ bufIn' = SubSeq(t, 1, Fit(y))
  BY <1>1, <1>2, <1>3, ChunkReceived
<1>5. t \in Seq(Token) /\ L \in Nat /\ p \in 0 .. L /\ L >= 3
  <2>1. p \in 0 .. L
    BY <1>2 DEF Received
  <2> QED BY <1>1, <2>1, TokensAre
<1>6. HasEnd(c) <=> y = L /\ (IF req.eol = "crlf" THEN n >= 4 ELSE n = 2)
  <2>1. p \in 0 .. Len(Tokens(req)) /\ n \in 1 .. Len(Tokens(req)) - p
    BY <1>4, <1>5
  <2> QED BY <1>1, <1>4, <2>1, EndIsFound
<1>7. n \in Nat /\ y \in Nat /\ y \in 0 .. L /\ y <= L
  <2> HIDE DEF L, t, c
  <2> QED BY <1>4, <1>5
<1>8. wire' \in Seq(Token) /\ (wire' = <<>> <=> y = L)
  <2> DEFINE x == SubSeq(t, y + 1, L)
  <2>2. y \in 0 .. Len(t) /\ L \in y .. Len(t)
    BY <1>5, <1>7
  <2> HIDE DEF t, L, y, c
  <2>1. x \in Seq(Token) /\ Len(x) = L - y
    BY <1>5, <2>2, PartIs
  <2> HIDE DEF x
  <2>3. x = <<>> <=> Len(x) = 0
    BY <2>1, EmptySeq
  <2>4. wire' = x
    BY <1>4 DEF x
  <2> QED BY <1>5, <1>7, <2>1, <2>3, <2>4
<1> HIDE DEF c
<1>9. Received(y)'
  <2> HIDE DEF y
  <2> QED BY <1>1, <1>4, <1>7 DEF Received
<1>10. HandleGet => web' \in {"page", "sent", "waiting", "closed"} /\ client' = ClientOf(bufIn')
  BY DEF HandleGet, OpenPage
<1>11. IF HasEnd(c) THEN HandleGet ELSE web' = web
  BY <1>3 DEF c
<1>12. WebTypes'
  <2>1. web' \in {"reading", "page", "sent", "waiting", "closed"}
    BY <1>1, <1>10, <1>11
  <2> QED BY <1>1, <1>8, <2>1 DEF WebTypes
<1>13. web' # "reading" => HasEnd(c) /\ HandleGet
  BY <1>1, <1>11
<1>14. web' = "reading" => ~ HasEnd(c)
  BY <1>10, <1>11
<1> HIDE DEF y
<1>15. RequestEnds'
  <2>1. web' # "reading" => wire' = <<>>
    BY <1>6, <1>8, <1>13
  <2>2. ASSUME web' = "reading", wire' = <<>>
        PROVE  IF req.eol = "crlf" THEN n < 4 ELSE n # 2
    <3>1. ~ (IF req.eol = "crlf" THEN n >= 4 ELSE n = 2)
      BY <1>6, <1>8, <1>14, <2>2
    <3> QED BY <1>7, <3>1
  <2> QED BY <1>1, <1>3, <2>1, <2>2 DEF RequestEnds
<1>16. ClientFromCookie'
  <2> SUFFICES ASSUME web' # "reading"
               PROVE  IF CookieAt' + 1 < BufSize THEN client' = req'.cookie
                      ELSE client' \in {Player, ""}
    BY DEF ClientFromCookie
  <2>1. y = L /\ client' = ClientOf(bufIn')
    BY <1>6, <1>10, <1>13
  <2>2. bufIn' = SubSeq(Tokens(req), 1, Fit(L))
    BY <1>4, <2>1
  <2> DEFINE b == bufIn'
  <2>3. IF CookieAt + 1 < BufSize THEN ClientOf(b) = req.cookie
        ELSE ClientOf(b) \in {Player, ""}
    BY <1>1, <2>2, CookieSeen
  <2>4. CookieAt' = CookieAt /\ req'.cookie = req.cookie
    BY <1>1 DEF CookieAt
  <2> QED BY <2>1, <2>3, <2>4
<1> QED BY <1>7, <1>9, <1>12, <1>15, <1>16 DEF WebInv

LEMMA WebItemInv ==
  ASSUME WebInv, WebItem
  PROVE  WebInv'
<1>1. /\ req' = req /\ wire' = wire /\ bufIn' = bufIn /\ last' = last /\ client' = client
      /\ cur' = cur /\ devices' = devices
      /\ web = "page" /\ (web' = "sent" \/ web' = web)
  BY DEF WebItem
<1>2. PICK p \in Nat : Received(p)
  BY DEF WebInv
<1>3. Received(p)'
  BY <1>1, <1>2 DEF Received
<1>4. WebTypes'
  BY <1>1 DEF WebInv, WebTypes
<1>5. RequestEnds'
  BY <1>1 DEF WebInv, RequestEnds
<1>6. CookieAt' = CookieAt
  BY <1>1 DEF CookieAt
<1>7. ClientFromCookie'
  BY <1>1, <1>6 DEF WebInv, ClientFromCookie
<1> QED BY <1>3, <1>4, <1>5, <1>7 DEF WebInv

LEMMA WebKept ==
  ASSUME WebInv, UNCHANGED http,
         cur' \in 0 .. Len(List) - 1, devices' \in Seq({Player})
  PROVE  WebInv'
<1>1. /\ req' = req /\ wire' = wire /\ bufIn' = bufIn /\ last' = last /\ client' = client
      /\ web' = web
  BY DEF http
<1>2. PICK p \in Nat : Received(p)
  BY DEF WebInv
<1>3. Received(p)'
  BY <1>1, <1>2 DEF Received
<1>4. WebTypes'
  BY <1>1 DEF WebInv, WebTypes
<1>5. RequestEnds'
  BY <1>1 DEF WebInv, RequestEnds
<1>6. CookieAt' = CookieAt
  BY <1>1 DEF CookieAt
<1>7. ClientFromCookie'
  BY <1>1, <1>6 DEF WebInv, ClientFromCookie
<1> QED BY <1>3, <1>4, <1>5, <1>7 DEF WebInv

(* A message may move the play list on and register the player.            *)
LEMMA EffectTypes ==
  ASSUME cur \in 0 .. Len(List) - 1, devices \in Seq({Player}), Effect
  PROVE  cur' \in 0 .. Len(List) - 1 /\ devices' \in Seq({Player})
<1>1. Len(List) \in Nat /\ Len(List) # 0
  BY ListAssumption, EmptySeq
<1>2. cur' = cur \/ cur' = (cur + 1) % Len(List)
  BY DEF Effect
<1>3. cur' \in 0 .. Len(List) - 1
  <2> DEFINE n == Len(List)
  <2>1. n \in Nat /\ n # 0 /\ cur \in 0 .. n - 1 /\ (cur' = cur \/ cur' = (cur + 1) % n)
    BY <1>1, <1>2
  <2> HIDE DEF n
  <2>2. cur' \in 0 .. n - 1
    BY <2>1
  <2> QED BY <2>2 DEF n
<1>4. devices' = Append(devices, Player) \/ devices' = devices
  BY DEF Effect
<1>5. devices' \in Seq({Player})
  BY <1>4, AppendProperties
<1> QED BY <1>3, <1>5

LEMMA WebAlways == Spec => []WebInv
<1>1. ASSUME WebInv, [Next]_vars PROVE WebInv'
  <2>1. CASE WebRead
    BY <1>1, <2>1, WebReadInv
  <2>2. CASE WebItem
    BY <1>1, <2>2, WebItemInv
  <2>3. CASE SlimRead
    <3>1. UNCHANGED http /\ cur' = cur /\ devices' = devices
      BY <2>3 DEF SlimRead
    <3> QED BY <1>1, <3>1, WebKept DEF WebInv, WebTypes
  <2>4. CASE SlimMessage
    <3>1. UNCHANGED http /\ (Effect \/ (cur' = cur /\ devices' = devices))
      BY <2>4 DEF SlimMessage
    <3>2. cur \in 0 .. Len(List) - 1 /\ devices \in Seq({Player})
      BY <1>1 DEF WebInv, WebTypes
    <3>3. cur' \in 0 .. Len(List) - 1 /\ devices' \in Seq({Player})
      BY <3>1, <3>2, EffectTypes
    <3> QED BY <1>1, <3>1, <3>3, WebKept
  <2>5. CASE UNCHANGED vars
    <3>1. UNCHANGED http /\ cur' = cur /\ devices' = devices
      BY <2>5 DEF vars
    <3> QED BY <1>1, <3>1, WebKept DEF WebInv, WebTypes
  <2> QED BY <1>1, <2>1, <2>2, <2>3, <2>4, <2>5 DEF Next
<1> QED BY <1>1, WebInit, PTL DEF Spec

(* A request is answered exactly when its last chunk brought the whole      *)
(* empty line (processRead of serverShoutCast.hpp).                        *)
THEOREM RequestsEnd == Spec => []RequestEnds
BY WebAlways, PTL DEF WebInv

(* The player of a page is the one of the cookie when its line lies in the  *)
(* buffer, however the request was cut (getCookie, handleGet).             *)
THEOREM CookieNamesClient == Spec => []ClientFromCookie
BY WebAlways, PTL DEF WebInv

-----------------------------------------------------------------------------
(* The items of a page.                                                    *)
IsItem(e) == e = [key |-> e.key, val |-> e.val]
Items(s) == \E A : s \in Seq(A) /\ \A e \in A : IsItem(e)

LEMMA ItemIs ==
  ASSUME NEW k, NEW v
  PROVE  LET e == [key |-> k, val |-> v] IN IsItem(e) /\ e.key = k
<1> DEFINE e == [key |-> k, val |-> v]
<1>1. e.key = k /\ e.val = v
  OBVIOUS
<1>2. e = [key |-> e.key, val |-> e.val]
  BY <1>1
<1> QED BY <1>1, <1>2 DEF IsItem

LEMMA TextIs ==
  ASSUME NEW s, Len(s) \in Nat
  PROVE  Items(Text(s)) /\ Len(Text(s)) = Len(s) /\ \A i \in 1 .. Len(s) : Text(s)[i].key = ""
<1> DEFINE n == Len(s)
           A == {[key |-> "", val |-> <<s[i]>>] : i \in 1 .. n}
<1>1. Text(s) \in [1 .. n -> A] /\ \A i \in 1 .. n : Text(s)[i].key = ""
  BY DEF Text
<1>2. \A e \in A : IsItem(e)
  BY ItemIs
<1>4. n \in Nat
  OBVIOUS
<1> DEFINE x == Text(s)
<1> HIDE DEF A, n, x
<1>5. x \in [1 .. n -> A]
  BY <1>1 DEF x
<1>6. x \in Seq(A) /\ Len(x) = n
  BY <1>4, <1>5, SeqDef
<1>3. Text(s) \in Seq(A) /\ Len(Text(s)) = n
  BY <1>6 DEF x
<1> QED BY <1>1, <1>2, <1>3 DEF Items, n

LEMMA ItemAdded ==
  ASSUME NEW s, Items(s), NEW e, IsItem(e)
  PROVE  /\ Items(Append(s, e)) /\ Len(s) \in Nat /\ Len(Append(s, e)) = Len(s) + 1
         /\ \A i \in 1 .. Len(s) + 1 : Append(s, e)[i] = IF i <= Len(s) THEN s[i] ELSE e
<1>1. PICK A : s \in Seq(A) /\ \A x \in A : IsItem(x)
  BY DEF Items
<1> DEFINE B == A \union {e}
<1>2. s \in Seq(B) /\ e \in B /\ \A x \in B : IsItem(x)
  BY <1>1
<1> HIDE DEF B
<1>3. /\ Append(s, e) \in Seq(B) /\ Len(Append(s, e)) = Len(s) + 1 /\ Len(s) \in Nat
      /\ Append(s, e)[Len(s) + 1] = e /\ \A i \in 1 .. Len(s) : Append(s, e)[i] = s[i]
  BY <1>2, AppendProperties
<1>4. ASSUME NEW i \in 1 .. Len(s) + 1
      PROVE  Append(s, e)[i] = IF i <= Len(s) THEN s[i] ELSE e
  <2>1. CASE i <= Len(s)
    <3>1. i \in 1 .. Len(s)
      BY <1>3, <2>1
    <3> QED BY <1>3, <2>1, <3>1
  <2>2. CASE ~ (i <= Len(s))
    <3>1. i = Len(s) + 1
      BY <1>3, <2>2
    <3> QED BY <1>3, <2>2, <3>1
  <2> QED BY <2>1, <2>2
<1>5. Items(Append(s, e))
  BY <1>2, <1>3 DEF Items
<1> QED BY <1>3, <1>4, <1>5

LEMMA ItemTaken ==
  ASSUME NEW s, Items(s), s # <<>>
  PROVE  /\ IsItem(Head(s)) /\ Items(Tail(s)) /\ Len(s) \in Nat /\ 1 \in 1 .. Len(s)
         /\ Head(s) = s[1] /\ Len(Tail(s)) = Len(s) - 1
         /\ \A i \in 1 .. Len(s) - 1 : i + 1 \in 1 .. Len(s) /\ Tail(s)[i] = s[i + 1]
<1>1. PICK A : s \in Seq(A) /\ \A x \in A : IsItem(x)
  BY DEF Items
<1>2. /\ Head(s) \in A /\ Tail(s) \in Seq(A) /\ Len(Tail(s)) = Len(s) - 1
      /\ \A i \in 1 .. Len(Tail(s)) : Tail(s)[i] = s[i + 1]
  BY <1>1, HeadTailProperties
<1>3. Len(s) \in Nat /\ Len(s) # 0
  BY <1>1, EmptySeq
<1>4. Head(s) = s[1]
  BY <1>1
<1>5. 1 \in 1 .. Len(s) /\ \A i \in 1 .. Len(s) - 1 : i + 1 \in 1 .. Len(s)
  BY <1>3
<1>6. Items(Tail(s))
  BY <1>1, <1>2 DEF Items
<1> QED BY <1>1, <1>2, <1>3, <1>4, <1>5, <1>6

LEMMA ItemsFilled ==
  ASSUME NEW s, Items(s), NEW v
  PROVE  LET f == [i \in 1 .. Len(s) |-> IF s[i].key = "" THEN s[i] ELSE [s[i] EXCEPT !.val = v[i]]]
         IN  Items(f) /\ Len(f) = Len(s) /\ Len(s) \in Nat /\ \A i \in 1 .. Len(s) : f[i].key = s[i].key
<1>1. PICK A : s \in Seq(A) /\ \A x \in A : IsItem(x)
  BY DEF Items
<1> DEFINE n == Len(s)
           X(i) == IF s[i].key = "" THEN s[i] ELSE [s[i] EXCEPT !.val = v[i]]
           f == [i \in 1 .. n |-> X(i)]
           B == {X(i) : i \in 1 .. n}
<1>2. n \in Nat /\ \A i \in 1 .. n : s[i] = [key |-> s[i].key, val |-> s[i].val]
  BY <1>1, ElementOfSeq DEF IsItem
<1>3. ASSUME NEW i \in 1 .. n PROVE IsItem(X(i)) /\ X(i).key = s[i].key
  <2> DEFINE k == s[i].key  w == s[i].val  u == v[i]
  <2>1. s[i] = [key |-> k, val |-> w]
    BY <1>2
  <2>2. X(i) = IF k = "" THEN [key |-> k, val |-> w] ELSE [[key |-> k, val |-> w] EXCEPT !.val = u]
    BY <2>1
  <2> HIDE DEF k, w, u, X
  <2>3. X(i) = IF k = "" THEN [key |-> k, val |-> w] ELSE [key |-> k, val |-> u]
    BY <2>2
  <2>4. IsItem(X(i)) /\ X(i).key = k
    BY <2>3, ItemIs
  <2> QED BY <2>4 DEF k
<1> HIDE DEF X
<1>4. f \in [1 .. n -> B] /\ \A x \in B : IsItem(x)
  BY <1>3
<1>5. \A i \in 1 .. n : f[i].key = s[i].key
  BY <1>3
<1> HIDE DEF n, B, f
<1>6. f \in Seq(B) /\ Len(f) = n
  BY <1>2, <1>4, SeqDef
<1>7. Items(f) /\ Len(f) = n
  BY <1>4, <1>6 DEF Items
<1> QED BY <1>2, <1>5, <1>7 DEF n, f, X

(* A function defined from the end: every place but the last ones refers to *)
(* a later one.                                                            *)
FromEnd(f, n, stop, base, front, next) ==
  f = [p \in 1 .. n |-> IF stop[p] THEN base[p] ELSE front[p] \o f[next[p]]]

LEMMA FromEndExists ==
  ASSUME NEW n \in Nat, NEW stop, NEW base, NEW front, NEW next,
         \A p \in 1 .. n : ~ stop[p] => next[p] \in p + 1 .. n
  PROVE  \E f : FromEnd(f, n, stop, base, front, next)
<1> DEFINE D == 1 .. n
           Body(f, p) == IF stop[p] THEN base[p] ELSE front[p] \o f[next[p]]
           Good(f, m) == \A p \in D : n - m < p => f[p] = Body(f, p)
           T == {m \in Nat : \E f : f = [p \in D |-> f[p]] /\ Good(f, m)}
<1>1. 0 \in T
  <2> DEFINE f == [p \in D |-> 0]
  <2>1. f = [p \in D |-> f[p]]
    OBVIOUS
  <2>2. \A p \in D : ~ (n - 0 < p)
    OBVIOUS
  <2> HIDE DEF f, D
  <2>3. Good(f, 0)
    BY <2>2
  <2> HIDE DEF Good
  <2> QED BY <2>1, <2>3
<1>2. ASSUME NEW m \in Nat, m \in T PROVE m + 1 \in T
  <2>1. PICK f : f = [p \in D |-> f[p]] /\ Good(f, m)
    BY <1>2
  <2> DEFINE q == n - m
             g == [p \in D |-> IF p = q THEN Body(f, q) ELSE f[p]]
  <2>2. g = [p \in D |-> g[p]]
    OBVIOUS
  <2>3. ASSUME NEW p \in D, n - (m + 1) < p PROVE g[p] = Body(g, p)
    <3>1. p = q \/ q < p
      BY <2>3
    <3>2. Body(f, p) = Body(g, p)
      <4>1. CASE stop[p]
        BY <4>1
      <4>2. CASE ~ stop[p]
        <5>1. next[p] \in D /\ next[p] # q
          BY <3>1, <4>2
        <5>2. g[next[p]] = f[next[p]]
          BY <5>1
        <5> HIDE DEF g
        <5> QED BY <4>2, <5>2
      <4> QED BY <4>1, <4>2
    <3>3. g[p] = Body(f, p)
      <4>1. CASE p = q
        BY <4>1
      <4>2. CASE p # q
        <5>1. f[p] = Body(f, p)
          BY <2>1, <3>1, <4>2
        <5>2. g[p] = f[p]
          BY <4>2
        <5> QED BY <5>1, <5>2
      <4> QED BY <4>1, <4>2
    <3> QED BY <3>2, <3>3
  <2>4. Good(g, m + 1)
    <3> HIDE DEF g, Body, D
    <3> QED BY <2>3
  <2> HIDE DEF Good, g, D
  <2> QED BY <2>2, <2>4
<1>3. n \in T
  <2> HIDE DEF T
  <2>1. Nat \subseteq T
    BY <1>1, <1>2, NumbersFromZero
  <2> QED BY <2>1
<1>4. PICK f : f = [p \in D |-> f[p]] /\ Good(f, n)
  BY <1>3
<1>5. \A p \in D : n - n < p
  OBVIOUS
<1>6. \A p \in D : f[p] = Body(f, p)
  <2> HIDE DEF Body, D
  <2> QED BY <1>4, <1>5
<1> HIDE DEF D
<1>7. f = [p \in D |-> Body(f, p)]
  BY <1>4, <1>6
<1> QED BY <1>7 DEF FromEnd, D

LEMMA FromEndTypes ==
  ASSUME NEW n \in Nat, NEW stop, NEW base, NEW front, NEW next, NEW S,
         \A p \in 1 .. n : IF stop[p] THEN base[p] \in Seq(S)
                           ELSE front[p] \in Seq(S) /\ next[p] \in p + 1 .. n,
         NEW f, FromEnd(f, n, stop, base, front, next)
  PROVE  \A p \in 1 .. n : f[p] \in Seq(S)
<1> DEFINE T == {m \in Nat : \A p \in 1 .. n : n - m < p => f[p] \in Seq(S)}
<1>0. \A p \in 1 .. n : f[p] = IF stop[p] THEN base[p] ELSE front[p] \o f[next[p]]
  BY DEF FromEnd
<1>1. 0 \in T
  OBVIOUS
<1>2. ASSUME NEW m \in Nat, m \in T PROVE m + 1 \in T
  <2>1. ASSUME NEW p \in 1 .. n, n - (m + 1) < p PROVE f[p] \in Seq(S)
    <3>1. CASE stop[p]
      BY <1>0, <3>1
    <3>2. CASE ~ stop[p]
      <4>1. front[p] \in Seq(S) /\ next[p] \in p + 1 .. n
        BY <3>2
      <4>2. next[p] \in 1 .. n /\ n - m < next[p]
        BY <2>1, <4>1
      <4>3. f[next[p]] \in Seq(S)
        BY <1>2, <4>2
      <4>4. front[p] \o f[next[p]] \in Seq(S)
        BY <4>1, <4>3, ConcatProperties
      <4> QED BY <1>0, <3>2, <4>4
    <3> QED BY <3>1, <3>2
  <2> QED BY <2>1
<1>3. n \in T
  <2> HIDE DEF T
  <2>1. Nat \subseteq T
    BY <1>1, <1>2, NumbersFromZero
  <2> QED BY <2>1
<1>4. \A p \in 1 .. n : n - n < p
  OBVIOUS
<1> QED BY <1>3, <1>4

(* The items of a template: a recursion over its marks.                    *)
Word == STRING \union {"#"}
Key == STRING \union {"", "unknown"}
Entry == [key : Key, val : Seq(Word)]

LEMMA MinIs ==
  ASSUME NEW S, S \subseteq Nat, S # {}
  PROVE  Min(S) \in S /\ \A x \in S : Min(S) <= x
BY LeastNumber DEF Min

LEMMA TextTypes ==
  ASSUME NEW s \in Seq(Word)
  PROVE  Text(s) \in Seq(Entry)
<1> DEFINE n == Len(s)
           x == Text(s)
<1>1. n \in Nat /\ \A i \in 1 .. n : s[i] \in Word
  BY ElementOfSeq
<1>2. x \in [1 .. n -> Entry]
  <2>1. ASSUME NEW w \in Word PROVE [key |-> "", val |-> <<w>>] \in Entry
    <3>1. <<w>> \in Seq(Word) /\ "" \in Key
      BY DEF Key
    <3> HIDE DEF Word, Key
    <3> QED BY <3>1 DEF Entry
  <2> HIDE DEF Entry, n, Word
  <2> QED BY <1>1, <2>1 DEF Text, n
<1> HIDE DEF n, x, Entry
<1>3. x \in Seq(Entry)
  BY <1>1, <1>2, SeqDef
<1> QED BY <1>3 DEF x

LEMMA KeywordTypes ==
  ASSUME NEW s \in Seq(STRING)
  PROVE  Keyword(s) \in Key
<1>1. CASE Len(s) = 1
  <2>1. s[1] \in STRING
    BY <1>1, ElementOfSeq
  <2>2. Lower(s[1]) \in STRING
    BY <2>1, WordsAssumption DEF Lower
  <2> QED BY <1>1, <2>2 DEF Keyword, Key
<1>2. CASE Len(s) # 1
  BY <1>2 DEF Keyword, Key
<1> QED BY <1>1, <1>2

(* The segments from each place on: what generateData does at a place.     *)
MarksFrom(t, i) == {j \in {k \in 1 .. Len(t) : t[k] = "#"} : j >= i}
NextMark(t, i) == Min(MarksFrom(t, i))

Cut(t, from) ==
  \A p \in 1 .. Len(t) + 1 :
    from[p] =
      IF MarksFrom(t, p) = {} THEN Text(SubSeq(t, p, Len(t)))
      ELSE LET s == NextMark(t, p)  copied == Text(SubSeq(t, p, s - 1))
           IN  IF MarksFrom(t, s + 1) = {} THEN copied
               ELSE LET e == NextMark(t, s + 1)
                        mid == IF e = s + 1 THEN Text(<<"#">>)
                               ELSE <<[key |-> Keyword(SubSeq(t, s + 1, e - 1)), val |-> <<>>]>>
                    IN  (copied \o mid) \o from[e + 1]

LEMMA SegmentsCut ==
  ASSUME NEW t \in Seq(STRING)
  PROVE  \E from : /\ Segments(t) = from[1] /\ Cut(t, from)
                   /\ \A p \in 1 .. Len(t) + 1 : from[p] \in Seq(Entry)
<1> DEFINE N == Len(t)
           n == Len(t) + 1
           marks == {i \in 1 .. Len(t) : t[i] = "#"}
           After(i) == {j \in marks : j >= i}
           Made(f) ==
             f = [p \in 1 .. Len(t) + 1 |->
                   IF After(p) = {} THEN Text(SubSeq(t, p, Len(t)))
                   ELSE LET s1 == Min(After(p))
                            copied == Text(SubSeq(t, p, s1 - 1))
                        IN  IF After(s1 + 1) = {} THEN copied
                            ELSE LET e == Min(After(s1 + 1)) IN
                                 copied \o (IF e = s1 + 1 THEN Text(<<"#">>)
                                            ELSE <<[key |-> Keyword(SubSeq(t, s1 + 1, e - 1)),
                                                    val |-> <<>>]>>)
                                        \o f[e + 1]]
           from == CHOOSE f : Made(f)
           First(p) == Min(After(p))
           Second(p) == Min(After(First(p) + 1))
           Copied(p) == Text(SubSeq(t, p, First(p) - 1))
           Mid(p) == IF Second(p) = First(p) + 1 THEN Text(<<"#">>)
                     ELSE <<[key |-> Keyword(SubSeq(t, First(p) + 1, Second(p) - 1)), val |-> <<>>]>>
           Ending(p) == After(p) = {} \/ After(First(p) + 1) = {}
           stop == [p \in 1 .. n |-> Ending(p)]
           base == [p \in 1 .. n |-> IF After(p) = {} THEN Text(SubSeq(t, p, Len(t))) ELSE Copied(p)]
           front == [p \in 1 .. n |-> Copied(p) \o Mid(p)]
           next == [p \in 1 .. n |-> Second(p) + 1]
<1>1. Segments(t) = from[1]
  BY DEF Segments
<1>2. N \in Nat /\ n = N + 1 /\ n \in Nat /\ \A i \in 1 .. N : t[i] \in STRING
  BY ElementOfSeq
<1>3. ASSUME NEW i \in Nat, After(i) # {}
      PROVE  Min(After(i)) \in Nat /\ i <= Min(After(i)) /\ Min(After(i)) <= N
  <2>1. After(i) \subseteq Nat /\ \A j \in After(i) : i <= j /\ j <= N
    BY <1>2
  <2> DEFINE A == After(i)
  <2> HIDE DEF After
  <2>2. Min(A) \in A
    BY <1>3, <2>1, MinIs
  <2> QED BY <2>1, <2>2
<1> HIDE DEF After, marks
<1>4. ASSUME NEW p \in 1 .. n, After(p) # {}
      PROVE  First(p) \in Nat /\ p <= First(p) /\ First(p) <= N
  BY <1>2, <1>3, <1>4
<1>5. ASSUME NEW p \in 1 .. n, ~ Ending(p)
      PROVE  /\ First(p) \in Nat /\ p <= First(p) /\ First(p) <= N
             /\ Second(p) \in Nat /\ First(p) + 1 <= Second(p) /\ Second(p) <= N
  <2>1. First(p) \in Nat /\ p <= First(p) /\ First(p) <= N
    BY <1>4, <1>5
  <2> DEFINE i == First(p) + 1
  <2>2. i \in Nat /\ After(i) # {}
    BY <1>5, <2>1
  <2> HIDE DEF i
  <2>3. Min(After(i)) \in Nat /\ i <= Min(After(i)) /\ Min(After(i)) <= N
    BY <1>3, <2>2
  <2> QED BY <2>1, <2>3 DEF i
\* Part of a template that lies within it.
<1>6. ASSUME NEW a \in Nat, NEW b \in Int, 1 <= a, b <= N PROVE SubSeq(t, a, b) \in Seq(STRING)
  <2>1. \A i \in a .. b : t[i] \in STRING
    BY <1>2, <1>6
  <2> QED BY <2>1, SubSeqProperties
<1>7. Seq(STRING) \subseteq Seq(Word)
  <2>1. STRING \subseteq Word
    BY DEF Word
  <2> HIDE DEF Word
  <2> QED BY <2>1, SeqMonotonic
<1>8. ASSUME NEW p \in 1 .. n, After(p) # {} PROVE Copied(p) \in Seq(Entry)
  <2> DEFINE b == First(p) - 1
  <2>1. p \in Nat /\ 1 <= p /\ b \in Int /\ b <= N
    BY <1>2, <1>4, <1>8
  <2> HIDE DEF b
  <2>2. SubSeq(t, p, b) \in Seq(Word)
    BY <1>6, <1>7, <2>1
  <2>3. Text(SubSeq(t, p, b)) \in Seq(Entry)
    BY <2>2, TextTypes
  <2> QED BY <2>3 DEF b
<1>9. ASSUME NEW p \in 1 .. n, ~ Ending(p) PROVE Mid(p) \in Seq(Entry)
  <2>1. CASE Second(p) = First(p) + 1
    <3>1. <<"#">> \in Seq(Word)
      <4>1. "#" \in Word
        BY DEF Word
      <4> QED BY <4>1
    <3>2. Text(<<"#">>) \in Seq(Entry)
      BY <3>1, TextTypes
    <3> QED BY <2>1, <3>2
  <2>2. CASE Second(p) # First(p) + 1
    <3> DEFINE a == First(p) + 1
               b == Second(p) - 1
               k == Keyword(SubSeq(t, a, b))
    <3>1. a \in Nat /\ 1 <= a /\ b \in Int /\ b <= N
      <4>1. /\ First(p) \in Nat /\ Second(p) \in Nat /\ Second(p) <= N
        BY <1>5, <1>9
      <4> HIDE DEF First, Second
      <4> QED BY <1>2, <4>1
    <3> HIDE DEF a, b
    <3>2. k \in Key
      BY <1>6, <3>1, KeywordTypes
    <3> HIDE DEF k
    <3>3. [key |-> k, val |-> <<>>] \in Entry
      <4>1. <<>> \in Seq(Word)
        OBVIOUS
      <4> QED BY <3>2, <4>1 DEF Entry
    <3> DEFINE e == [key |-> k, val |-> <<>>]
    <3> HIDE DEF e
    <3>4. <<e>> \in Seq(Entry)
      BY <3>3 DEF e
    <3> QED BY <2>2, <3>4 DEF e, k, a, b
  <2> QED BY <2>1, <2>2
<1>11. \A p \in 1 .. n :
         /\ stop[p] = Ending(p)
         /\ base[p] = IF After(p) = {} THEN Text(SubSeq(t, p, Len(t))) ELSE Copied(p)
         /\ front[p] = Copied(p) \o Mid(p)
         /\ next[p] = Second(p) + 1
  <2> HIDE DEF Copied, Mid, First, Second, Ending
  <2> QED OBVIOUS
<1>10. \A f : Made(f) <=> FromEnd(f, n, stop, base, front, next)
  <2> SUFFICES ASSUME NEW f PROVE Made(f) <=> FromEnd(f, n, stop, base, front, next)
    OBVIOUS
  <2> DEFINE L(p) == IF After(p) = {} THEN Text(SubSeq(t, p, Len(t)))
                     ELSE LET s1 == Min(After(p))
                              copied == Text(SubSeq(t, p, s1 - 1))
                          IN  IF After(s1 + 1) = {} THEN copied
                              ELSE LET e == Min(After(s1 + 1)) IN
                                   copied \o (IF e = s1 + 1 THEN Text(<<"#">>)
                                              ELSE <<[key |-> Keyword(SubSeq(t, s1 + 1, e - 1)),
                                                      val |-> <<>>]>>)
                                          \o f[e + 1]
             R(p) == IF stop[p] THEN base[p] ELSE front[p] \o f[next[p]]
  <2>1. ASSUME NEW p \in 1 .. n PROVE L(p) = R(p)
    <3>1. /\ stop[p] = Ending(p)
          /\ base[p] = IF After(p) = {} THEN Text(SubSeq(t, p, Len(t))) ELSE Copied(p)
          /\ front[p] = Copied(p) \o Mid(p) /\ next[p] = Second(p) + 1
      BY <1>11
    <3> HIDE DEF stop, base, front, next
    <3>2. R(p) = IF Ending(p) THEN IF After(p) = {} THEN Text(SubSeq(t, p, Len(t))) ELSE Copied(p)
                 ELSE (Copied(p) \o Mid(p)) \o f[Second(p) + 1]
      BY <3>1
    <3>3. L(p) = IF After(p) = {} THEN Text(SubSeq(t, p, Len(t)))
                 ELSE IF After(First(p) + 1) = {} THEN Copied(p)
                 ELSE (Copied(p) \o Mid(p)) \o f[Second(p) + 1]
      OBVIOUS
    <3> HIDE DEF L, R, Copied, Mid, First, Second
    <3> QED BY <3>2, <3>3
  <2>2. Made(f) <=> f = [p \in 1 .. n |-> L(p)]
    OBVIOUS
  <2>3. FromEnd(f, n, stop, base, front, next) <=> f = [p \in 1 .. n |-> R(p)]
    BY DEF FromEnd
  <2> HIDE DEF L, R, Made, stop, base, front, next
  <2> QED BY <2>1, <2>2, <2>3
<1>12. \A p \in 1 .. n : IF stop[p] THEN base[p] \in Seq(Entry)
                         ELSE front[p] \in Seq(Entry) /\ next[p] \in p + 1 .. n
  <2> SUFFICES ASSUME NEW p \in 1 .. n
               PROVE  IF stop[p] THEN base[p] \in Seq(Entry)
                      ELSE front[p] \in Seq(Entry) /\ next[p] \in p + 1 .. n
    OBVIOUS
  <2>1. /\ stop[p] = Ending(p)
        /\ base[p] = IF After(p) = {} THEN Text(SubSeq(t, p, Len(t))) ELSE Copied(p)
        /\ front[p] = Copied(p) \o Mid(p) /\ next[p] = Second(p) + 1
    BY <1>11
  <2> HIDE DEF stop, base, front, next
  <2>2. CASE After(p) = {}
    <3>1. Text(SubSeq(t, p, Len(t))) \in Seq(Entry)
      <4>1. p \in Nat /\ 1 <= p /\ N \in Int /\ N <= N
        BY <1>2
      <4>2. SubSeq(t, p, N) \in Seq(Word)
        BY <1>6, <1>7, <4>1
      <4> QED BY <4>2, TextTypes
    <3> QED BY <2>1, <2>2, <3>1
  <2>3. CASE After(p) # {} /\ Ending(p)
    BY <1>8, <2>1, <2>3
  <2>4. CASE ~ Ending(p)
    <3>1. Copied(p) \in Seq(Entry) /\ Mid(p) \in Seq(Entry)
      BY <1>8, <1>9, <2>4
    <3>2. front[p] \in Seq(Entry)
      <4> HIDE DEF Copied, Mid
      <4> QED BY <2>1, <3>1, ConcatProperties
    <3>3. next[p] \in p + 1 .. n
      <4>1. /\ First(p) \in Nat /\ p <= First(p)
            /\ Second(p) \in Nat /\ First(p) + 1 <= Second(p) /\ Second(p) <= N
        BY <1>5, <2>4
      <4> HIDE DEF First, Second
      <4> QED BY <1>2, <2>1, <4>1
    <3>4. ~ stop[p]
      BY <2>1, <2>4
    <3> QED BY <3>2, <3>3, <3>4
  <2> QED BY <2>2, <2>3, <2>4
<1> HIDE DEF stop, base, front, next, n
<1>13. \E f : FromEnd(f, n, stop, base, front, next)
  BY <1>2, <1>12, FromEndExists
<1> HIDE DEF Made
<1>14. Made(from)
  BY <1>10, <1>13
<1>15. \A p \in 1 .. n : from[p] \in Seq(Entry)
  <2> HIDE DEF from
  <2>1. FromEnd(from, n, stop, base, front, next)
    BY <1>10, <1>14
  <2> QED BY <1>2, <1>12, <2>1, FromEndTypes
<1>16. Cut(t, from)
  <2> HIDE DEF from
  <2>1. from = [p \in 1 .. Len(t) + 1 |->
                 IF After(p) = {} THEN Text(SubSeq(t, p, Len(t)))
                 ELSE LET s1 == Min(After(p))
                          copied == Text(SubSeq(t, p, s1 - 1))
                      IN  IF After(s1 + 1) = {} THEN copied
                          ELSE LET e == Min(After(s1 + 1)) IN
                               copied \o (IF e = s1 + 1 THEN Text(<<"#">>)
                                          ELSE <<[key |-> Keyword(SubSeq(t, s1 + 1, e - 1)),
                                                  val |-> <<>>]>>)
                                      \o from[e + 1]]
    BY <1>14 DEF Made
  <2> QED BY <2>1 DEF Cut, MarksFrom, NextMark, After, marks
<1> HIDE DEF from
<1> QED BY <1>1, <1>15, <1>16 DEF n

LEMMA SegmentsAre ==
  ASSUME NEW t \in Seq(STRING)
  PROVE  Segments(t) \in Seq(Entry)
<1>1. Len(t) \in Nat /\ 1 \in 1 .. Len(t) + 1
  OBVIOUS
<1> QED BY <1>1, SegmentsCut

LEMMA IpcSong ==
  ASSUME NEW s, NEW c, NEW now, NEW devs, NEW a, NEW b, NEW kw \in SongKeys
  PROVE  IpcValue(s, c, now, devs, a, b, kw) = SongValue(s, -1, kw)
<1>1. /\ kw \notin PlayListKeys /\ kw \notin DeviceKeys
      /\ kw # "playlist.index" /\ kw # "playlist.size" /\ kw # "playlist.list"
      /\ kw # "device.list" /\ kw # "config.sections"
  BY DEF SongKeys, PlayListKeys, DeviceKeys
<1> QED BY <1>1 DEF IpcValue, Generate, Filled

(* The song of a page is fixed when it is opened, and the items written so  *)
(* far tell of it.                                                         *)
PageInv ==
  /\ song \in ToSet(List) \union {NoSong}
  /\ web \in {"reading", "page"} => Items(page)
  /\ web = "page" => Items(todo)
  /\ web = "reading" => page = <<>>
  /\ web = "page" /\ FileOf.kind = "dir" => \A i \in 1 .. Len(todo) : todo[i].key \notin SongKeys
  /\ \A i \in 1 .. Len(page) :
       page[i].key \in SongKeys => page[i].val = SongValue(song, -1, page[i].key)

LEMMA NoItems == Items(<<>>)
<1> DEFINE A == {}
<1>1. <<>> \in Seq(A) /\ \A e \in A : IsItem(e)
  OBVIOUS
<1> HIDE DEF A
<1> QED BY <1>1 DEF Items

LEMMA NoKey == "" \notin SongKeys
BY DEF SongKeys

LEMMA PageInit == Init => PageInv
<1> SUFFICES ASSUME Init PROVE PageInv
  OBVIOUS
<1>1. page = <<>> /\ todo = <<>> /\ song = NoSong /\ web = "reading" /\ Len(<<>>) = 0
  BY DEF Init
<1> QED BY <1>1, NoItems DEF PageInv

LEMMA FileIs ==
  ASSUME req \in Request
  PROVE  /\ FileOf.kind \in {"text", "raw", "dir"}
         /\ FileOf.kind \in {"text", "raw"} => FileOf.body \in Seq(STRING)
<1>1. CASE req.exact /\ req.file \in DOMAIN Files
  <2>1. FileOf = Files[req.file]
    BY <1>1 DEF FileOf
  <2>2. \/ Files[req.file].kind \in {"text", "raw"} /\ Files[req.file].body \in Seq(STRING)
        \/ Files[req.file].kind = "dir"
    BY <1>1, InputAssumption
  <2> QED BY <2>1, <2>2
<1>2. CASE ~ (req.exact /\ req.file \in DOMAIN Files)
  BY <1>2 DEF FileOf
<1> QED BY <1>1, <1>2

LEMMA SegmentItems ==
  ASSUME NEW t \in Seq(STRING)
  PROVE  Items(Segments(t))
<1>1. Segments(t) \in Seq(Entry)
  BY SegmentsAre
<1>2. \A e \in Entry : IsItem(e)
  BY DEF Entry, IsItem
<1> HIDE DEF Entry
<1> QED BY <1>1, <1>2 DEF Items

(* A page is opened.                                                       *)
LEMMA PageOpened ==
  ASSUME req \in Request, OpenPage
  PROVE  /\ web' = "page" /\ page' = page /\ Items(todo')
         /\ FileOf.kind = "dir" => \A i \in 1 .. Len(todo') : todo'[i].key \notin SongKeys
<1> DEFINE f == FileOf
           s == Segments(DirTemplate)
           v == [i \in 1 .. Len(s) |-> DirValue(req.file, f.body, s[i].key)]
<1>1. web' = "page" /\ page' = page
  BY DEF OpenPage
<1>2. f.kind \in {"text", "raw", "dir"} /\ (f.kind \in {"text", "raw"} => f.body \in Seq(STRING))
  BY FileIs
<1>3. CASE f.kind = "text"
  <2>1. todo' = Segments(f.body)
    BY <1>3 DEF OpenPage
  <2>2. f.body \in Seq(STRING)
    BY <1>2, <1>3
  <2>3. Items(Segments(f.body))
    BY <2>2, SegmentItems
  <2> QED BY <1>1, <1>3, <2>1, <2>3
<1>4. CASE f.kind = "raw"
  <2>1. todo' = Text(f.body)
    BY <1>4 DEF OpenPage
  <2>2. Len(f.body) \in Nat
    BY <1>2, <1>4
  <2>3. Items(Text(f.body))
    BY <2>2, TextIs
  <2> QED BY <1>1, <1>4, <2>1, <2>3
<1>5. CASE f.kind = "dir"
  <2>1. todo' = [i \in 1 .. Len(s) |->
                   IF s[i].key = "" THEN s[i]
                   ELSE [s[i] EXCEPT !.val = DirValue(req.file, f.body, s[i].key)]]
    BY <1>5 DEF OpenPage, Filled
  <2> DEFINE r == [i \in 1 .. Len(s) |->
                     IF s[i].key = "" THEN s[i] ELSE [s[i] EXCEPT !.val = v[i]]]
  <2>2. todo' = r
    BY <2>1
  <2>3. Items(s)
    BY WordsAssumption, SegmentItems
  <2>4. \A i \in DOMAIN s : s[i].key \notin SongKeys
    BY DirTemplateAssumption DEF HasKey
  <2> HIDE DEF s, v
  <2>5. Items(r) /\ Len(r) = Len(s) /\ Len(s) \in Nat /\ \A i \in 1 .. Len(s) : r[i].key = s[i].key
    BY <2>3, ItemsFilled
  <2>6. DOMAIN s = 1 .. Len(s)
    BY <2>3 DEF Items
  <2> HIDE DEF r
  <2> QED BY <1>1, <2>2, <2>4, <2>5, <2>6
<1> QED BY <1>2, <1>3, <1>4, <1>5

(* What the server writes itself.                                          *)
NoKeys(s) == \A i \in 1 .. Len(s) : s[i].key = ""

LEMMA WordsHaveNoKeys ==
  /\ NoKeys(<<>>) /\ NoKeys(Root)
  /\ \A a : NoKeys(Text(<<a>>))
  /\ \A a, b : NoKeys(Text(<<a, b>>))
<1>1. ASSUME NEW s, Len(s) \in Nat PROVE NoKeys(Text(s))
  BY <1>1, TextIs DEF NoKeys
<1>2. NoKeys(<<>>)
  <2>1. Len(<<>>) = 0
    OBVIOUS
  <2>2. \A i \in 1 .. 0 : FALSE
    OBVIOUS
  <2> QED BY <2>1, <2>2 DEF NoKeys
<1>3. \A a, b, c, d : Len(<<a, b, c, d>>) \in Nat
  OBVIOUS
<1>4. NoKeys(Root)
  BY <1>1, <1>3 DEF Root
<1>5. ASSUME NEW a, NEW b PROVE NoKeys(Text(<<a>>)) /\ NoKeys(Text(<<a, b>>))
  <2>1. Len(<<a>>) \in Nat /\ Len(<<a, b>>) \in Nat
    OBVIOUS
  <2> QED BY <1>1, <2>1
<1> QED BY <1>2, <1>4, <1>5

LEMMA HandleGetPage ==
  ASSUME WebInv, PageInv, web = "reading", HandleGet, req' = req
  PROVE  PageInv'
<1>1. req \in Request /\ cur \in 0 .. Len(List) - 1 /\ page = <<>> /\ Items(page)
  BY DEF WebInv, WebTypes, PageInv
<1>2. song' \in ToSet(List) \union {NoSong}
  <2>1. song' = List[cur + 1] \/ song' = NoSong
    BY DEF HandleGet, SongOf
  <2>2. cur + 1 \in DOMAIN List
    BY <1>1, ListAssumption
  <2> QED BY <2>1, <2>2 DEF ToSet
<1>3. FileOf' = FileOf
  BY DEF FileOf
<1>4. CASE req.root \in {"html", "data"} /\ OpenPage
  <2>1. /\ web' = "page" /\ page' = <<>> /\ Items(page') /\ Items(todo')
        /\ FileOf.kind = "dir" => \A i \in 1 .. Len(todo') : todo'[i].key \notin SongKeys
    BY <1>1, <1>4, PageOpened
  <2>2. Len(<<>>) = 0
    OBVIOUS
  <2> QED BY <1>2, <1>3, <2>1, <2>2 DEF PageInv
<1>5. CASE /\ req.root \in {"/", "stream", "other"}
           /\ web' = "sent"
           /\ page' = CASE req.root = "/" -> Root
                        [] req.root = "stream" ->
                             IF req.file \in ToSet(devices) THEN Text(<<List[cur + 1].file>>)
                             ELSE <<>>
                        [] req.root = "other" -> Text(<<"Invalid request", "get">>)
  <2>1. NoKeys(page')
    <3>1. CASE req.root = "/"
      BY <1>5, <3>1, WordsHaveNoKeys
    <3>2. CASE req.root = "stream"
      BY <1>5, <3>2, WordsHaveNoKeys
    <3>3. CASE req.root = "other"
      BY <1>5, <3>3, WordsHaveNoKeys
    <3> QED BY <1>5, <3>1, <3>2, <3>3
  <2>2. \A i \in 1 .. Len(page') : page'[i].key \notin SongKeys
    BY <2>1, NoKey DEF NoKeys
  <2> QED BY <1>2, <1>5, <2>2 DEF PageInv
<1>6. CASE web' \in {"waiting", "closed"} /\ page' = page
  <2>1. Len(<<>>) = 0
    OBVIOUS
  <2> QED BY <1>1, <1>2, <1>6, <2>1 DEF PageInv
<1> QED BY <1>4, <1>5, <1>6 DEF HandleGet

LEMMA ItemRight ==
  ASSUME NEW e, IsItem(e), e = Head(todo), FileOf.kind = "dir" => e.key \notin SongKeys
  PROVE  IsItem(Item) /\ (Item.key \in SongKeys => Item.val = SongValue(song, -1, Item.key))
<1> DEFINE k == e.key
           w == e.val
           own == req.root = "html"
           u == IpcValue(song, client, cur, devices, IF own THEN ItemTemplate ELSE <<>>,
                         IF own THEN DeviceTemplate ELSE <<>>, k)
<1>1. e = [key |-> k, val |-> w]
  BY DEF IsItem
<1>2. Item = IF k = "" \/ FileOf.kind = "dir" THEN e ELSE [e EXCEPT !.val = u]
  BY DEF Item
<1>3. k \in SongKeys => u = SongValue(song, -1, k)
  BY IpcSong
<1> HIDE DEF u
<1>4. CASE k = "" \/ FileOf.kind = "dir"
  BY <1>2, <1>4, NoKey
<1>5. CASE ~ (k = "" \/ FileOf.kind = "dir")
  <2> DEFINE g == [key |-> k, val |-> u]
  <2>1. Item = [[key |-> k, val |-> w] EXCEPT !.val = u]
    BY <1>1, <1>2, <1>5
  <2> HIDE DEF k, w
  <2>2. Item = g
    BY <2>1
  <2>3. IsItem(g) /\ g.key = k /\ g.val = u
    BY ItemIs
  <2> HIDE DEF g
  <2> QED BY <1>3, <2>2, <2>3
<1> QED BY <1>4, <1>5

LEMMA WebItemPage ==
  ASSUME WebInv, PageInv, WebItem
  PROVE  PageInv'
<1>1. /\ web = "page" /\ req' = req /\ song' = song
      /\ Items(page) /\ Items(todo)
  BY DEF PageInv, WebItem
<1>2. FileOf' = FileOf
  BY <1>1 DEF FileOf
<1>3. CASE todo = <<>>
  <2>1. web' = "sent" /\ page' = page
    BY <1>3 DEF WebItem
  <2> QED BY <1>1, <2>1 DEF PageInv
<1>4. CASE todo # <<>>
  <2>1. page' = Append(page, Item) /\ todo' = Tail(todo) /\ web' = web
    BY <1>4 DEF WebItem
  <2> DEFINE e == Head(todo)
  <2>2. /\ IsItem(e) /\ Items(todo') /\ Len(todo) \in Nat /\ 1 \in 1 .. Len(todo)
        /\ e = todo[1] /\ Len(todo') = Len(todo) - 1
        /\ \A i \in 1 .. Len(todo) - 1 : i + 1 \in 1 .. Len(todo) /\ todo'[i] = todo[i + 1]
    BY <1>1, <1>4, <2>1, ItemTaken
  <2>3. FileOf.kind = "dir" => \A i \in 1 .. Len(todo) : todo[i].key \notin SongKeys
    BY <1>1 DEF PageInv
  <2>4. FileOf.kind = "dir" => e.key \notin SongKeys
    BY <2>2, <2>3
  <2>5. IsItem(Item) /\ (Item.key \in SongKeys => Item.val = SongValue(song, -1, Item.key))
    <3> HIDE DEF e
    <3>1. e = Head(todo)
      BY DEF e
    <3> QED BY <2>2, <2>4, <3>1, ItemRight
  <2> HIDE DEF e
  <2>6. /\ Items(page') /\ Len(page) \in Nat /\ Len(page') = Len(page) + 1
        /\ \A i \in 1 .. Len(page) + 1 : page'[i] = IF i <= Len(page) THEN page[i] ELSE Item
    BY <1>1, <2>1, <2>5, ItemAdded
  <2>7. \A i \in 1 .. Len(page) :
          page[i].key \in SongKeys => page[i].val = SongValue(song, -1, page[i].key)
    BY DEF PageInv
  <2>8. ASSUME NEW i \in 1 .. Len(page')
        PROVE  page'[i].key \in SongKeys => page'[i].val = SongValue(song, -1, page'[i].key)
    <3>1. CASE i <= Len(page)
      <4>1. i \in 1 .. Len(page) /\ page'[i] = page[i]
        BY <2>6, <3>1
      <4> QED BY <2>7, <4>1
    <3>2. CASE ~ (i <= Len(page))
      <4>1. page'[i] = Item
        BY <2>6, <3>2
      <4> QED BY <2>5, <4>1
    <3> QED BY <3>1, <3>2
  <2>9. FileOf.kind = "dir" => \A i \in 1 .. Len(todo') : todo'[i].key \notin SongKeys
    BY <2>2, <2>3
  <2> QED BY <1>1, <1>2, <2>1, <2>2, <2>6, <2>8, <2>9 DEF PageInv
<1> QED BY <1>3, <1>4

LEMMA PageKept ==
  ASSUME PageInv, web' = web, req' = req, song' = song, todo' = todo, page' = page
  PROVE  PageInv'
BY DEF PageInv, FileOf

LEMMA PageAlways == Spec => []PageInv
<1>1. ASSUME WebInv, PageInv, [Next]_vars PROVE PageInv'
  <2>1. CASE WebRead
    <3>1. web = "reading" /\ req' = req
          /\ (HandleGet \/ UNCHANGED <<web, client, song, todo, page>>)
      BY <2>1 DEF WebRead
    <3> QED BY <1>1, <3>1, HandleGetPage, PageKept
  <2>2. CASE WebItem
    BY <1>1, <2>2, WebItemPage
  <2>3. CASE SlimRead \/ SlimMessage \/ UNCHANGED vars
    <3>1. UNCHANGED http
      BY <2>3 DEF SlimRead, SlimMessage, vars
    <3> QED BY <1>1, <3>1, PageKept DEF http
  <2> QED BY <1>1, <2>1, <2>2, <2>3 DEF Next
<1> QED BY <1>1, PageInit, WebAlways, PTL DEF Spec

(* Title, artist and album of a page tell of one song, however far the play *)
(* list moves on while the page is written (keywordMatcherIPC).            *)
THEOREM PageOfOneSong == Spec => []OneSong
<1>1. PageInv => OneSong
  BY DEF PageInv, OneSong
<1> QED BY <1>1, PageAlways, PTL

(* Type correctness, and the two buffers keep to their size.               *)
THEOREM TypesKept == Spec => []TypeOK
<1>1. ASSUME SlimInv, WebInv PROVE TypeOK
  <2>1. /\ rx \in Seq((1 .. Len(messages)) \X Nat) /\ Len(rx) <= RxSize
        /\ busy \in BOOLEAN /\ up \in BOOLEAN /\ torn \in BOOLEAN
        /\ handled \in Seq(0 .. Len(messages)) /\ lost \subseteq 1 .. Len(messages)
    BY <1>1 DEF SlimInv, SlimTypes, Spots
  <2>2. req \in Request /\ devices \in Seq({Player}) /\ cur \in 0 .. Len(List) - 1
        /\ web \in {"reading", "page", "sent", "waiting", "closed"}
    BY <1>1 DEF WebInv, WebTypes
  <2>3. Len(bufIn) <= BufSize
    <3>1. PICK p \in Nat : Received(p)
      BY <1>1 DEF WebInv
    <3>2. Len(bufIn) = Fit(p)
      BY <2>2, <3>1, ReceivedIs
    <3> QED BY <3>2, FitIs
  <2>4. ToSet(devices) \subseteq {Player}
    BY <2>2 DEF ToSet
  <2> QED BY <2>1, <2>2, <2>3, <2>4 DEF TypeOK
<1> QED BY <1>1, SlimAlways, WebAlways, PTL

-----------------------------------------------------------------------------
(* Counting the members of a set up to a place.                            *)
Count(S, i) == Cardinality(S \cap (1 .. i))

LEMMA CountSteps ==
  ASSUME NEW S
  PROVE  /\ Count(S, 0) = 0
         /\ \A i \in Nat : /\ Count(S, i) \in Nat
                           /\ Count(S, i + 1) = Count(S, i) + IF i + 1 \in S THEN 1 ELSE 0
<1>1. Count(S, 0) = 0
  <2>1. S \cap (1 .. 0) = {}
    OBVIOUS
  <2> QED BY <2>1, FS_EmptySet DEF Count
<1>2. ASSUME NEW i \in Nat
      PROVE  IsFiniteSet(S \cap (1 .. i)) /\ Cardinality(S \cap (1 .. i)) \in Nat
  <2>1. IsFiniteSet(1 .. i)
    BY FS_Interval
  <2>2. S \cap (1 .. i) \in SUBSET (1 .. i)
    OBVIOUS
  <2> QED BY <2>1, <2>2, FS_Subset, FS_CardinalityType
<1>3. ASSUME NEW i \in Nat
      PROVE  Count(S, i + 1) = Count(S, i) + IF i + 1 \in S THEN 1 ELSE 0
  <2> DEFINE A == S \cap (1 .. i)
             B == S \cap (1 .. i + 1)
  <2>1. IsFiniteSet(A) /\ Cardinality(A) \in Nat /\ i + 1 \notin A
    BY <1>2
  <2>2. CASE i + 1 \in S
    <3>1. B = A \cup {i + 1}
      BY <2>2
    <3> HIDE DEF A, B
    <3>2. Cardinality(B) = Cardinality(A) + 1
      BY <2>1, <3>1, FS_AddElement
    <3> QED BY <2>2, <3>2 DEF Count, A, B
  <2>3. CASE i + 1 \notin S
    <3>1. B = A
      BY <2>3
    <3> HIDE DEF A, B
    <3>2. Cardinality(B) = Cardinality(A) + 0
      BY <2>1, <3>1
    <3> QED BY <2>3, <3>2 DEF Count, A, B
  <2> QED BY <2>2, <2>3
<1> QED BY <1>1, <1>2, <1>3 DEF Count

(* Over places that are all in the set it counts them, over places that are *)
(* none of them it stays as it was.                                        *)
LEMMA CountTakes ==
  ASSUME NEW S, NEW a \in Nat, NEW b \in Nat, a <= b, \A j \in a + 1 .. b : j \in S
  PROVE  \A i \in a .. b : Count(S, i) = Count(S, a) + (i - a)
<1> DEFINE T == {k \in Nat : a + k <= b => Count(S, a + k) = Count(S, a) + k}
<1>0. Count(S, a) \in Nat
  BY CountSteps
<1>1. 0 \in T
  BY <1>0
<1>2. ASSUME NEW k \in Nat, k \in T PROVE k + 1 \in T
  <2>1. CASE a + (k + 1) <= b
    <3>1. Count(S, a + k) = Count(S, a) + k /\ a + k \in Nat /\ a + k + 1 \in S
      BY <1>2, <2>1
    <3>2. Count(S, (a + k) + 1) = Count(S, a + k) + 1
      BY <3>1, CountSteps
    <3>3. (a + k) + 1 = a + (k + 1)
      OBVIOUS
    <3> QED BY <1>0, <3>1, <3>2, <3>3
  <2>2. CASE ~ (a + (k + 1) <= b)
    BY <2>2
  <2> QED BY <2>1, <2>2
<1>3. Nat \subseteq T
  <2> HIDE DEF T
  <2> QED BY <1>1, <1>2, NumbersFromZero
<1>4. ASSUME NEW i \in a .. b PROVE Count(S, i) = Count(S, a) + (i - a)
  <2>1. i - a \in Nat /\ a + (i - a) = i /\ i <= b
    OBVIOUS
  <2>2. i - a \in T
    BY <1>3, <2>1
  <2> QED BY <2>1, <2>2
<1> QED BY <1>4

LEMMA CountSkips ==
  ASSUME NEW S, NEW a \in Nat, NEW b \in Nat, a <= b, \A j \in a + 1 .. b : j \notin S
  PROVE  \A i \in a .. b : Count(S, i) = Count(S, a)
<1>1. ASSUME NEW i \in a .. b PROVE S \cap (1 .. i) = S \cap (1 .. a)
  BY <1>1
<1> QED BY <1>1 DEF Count

LEMMA CountGrows ==
  ASSUME NEW S, NEW a \in Nat, NEW b \in Nat, a <= b
  PROVE  Count(S, a) <= Count(S, b)
<1>1. S \cap (1 .. b) \in SUBSET (1 .. b) /\ S \cap (1 .. a) \in SUBSET (S \cap (1 .. b))
  OBVIOUS
<1>2. IsFiniteSet(1 .. b)
  BY FS_Interval
<1>3. IsFiniteSet(S \cap (1 .. b))
  BY <1>1, <1>2, FS_Subset
<1> QED BY <1>1, <1>3, FS_Subset DEF Count

(* An even count is followed by an odd one.                                *)
LEMMA Parity ==
  \A m \in Nat : \/ m % 2 = 0 /\ (m + 1) % 2 = 1
                 \/ m % 2 = 1 /\ (m + 1) % 2 = 0
OBVIOUS

(* The marks and the places of a template, step by step.                   *)
MarkSet(t) == {j \in 1 .. Len(t) : t[j] = "#"}
ShownSet(t) == {j \in 1 .. Len(t) : Shows(t, j)}

LEMMA CountsAre ==
  ASSUME NEW t \in Seq(STRING), NEW i \in 0 .. Len(t)
  PROVE  /\ Marks(t, i) = Count(MarkSet(t), i) /\ Marks(t, i) \in Nat
         /\ Place(t, i) = Count(ShownSet(t), i) /\ Place(t, i) \in Nat
<1>0. Len(t) \in Nat /\ i \in Nat
  OBVIOUS
<1>1. {j \in 1 .. i : t[j] = "#"} = MarkSet(t) \cap (1 .. i)
  BY <1>0 DEF MarkSet
<1>2. {j \in 1 .. i : Shows(t, j)} = ShownSet(t) \cap (1 .. i)
  BY <1>0 DEF ShownSet
<1>3. Marks(t, i) = Count(MarkSet(t), i)
  BY <1>1 DEF Marks, Count
<1>4. Place(t, i) = Count(ShownSet(t), i)
  BY <1>2 DEF Place, Count
<1>5. Count(MarkSet(t), i) \in Nat
  BY <1>0, CountSteps
<1>6. Count(ShownSet(t), i) \in Nat
  BY <1>0, CountSteps
<1> QED BY <1>3, <1>4, <1>5, <1>6

Plain(w) == [key |-> "", val |-> <<w>>]

(* Text: no mark, after an even count.                                     *)
LEMMA TextShown ==
  ASSUME NEW t \in Seq(STRING), NEW a \in 0 .. Len(t), NEW b \in a .. Len(t),
         Marks(t, a) % 2 = 0, \A j \in a + 1 .. b : t[j] # "#"
  PROVE  /\ \A i \in a .. b : Marks(t, i) = Marks(t, a) /\ Place(t, i) = Place(t, a) + (i - a)
         /\ \A i \in a + 1 .. b : Shows(t, i) /\ Shown(t, i) = Plain(t[i])
<1>0. Len(t) \in Nat /\ a \in Nat /\ b \in Nat /\ a <= b /\ \A i \in a .. b : i \in 0 .. Len(t)
  OBVIOUS
<1>1. ASSUME NEW i \in a .. b PROVE Marks(t, i) = Marks(t, a)
  <2>1. \A j \in a + 1 .. b : j \notin MarkSet(t)
    BY DEF MarkSet
  <2>2. Count(MarkSet(t), i) = Count(MarkSet(t), a)
    BY <1>0, <2>1, CountSkips
  <2> QED BY <1>0, <2>2, CountsAre
<1>2. ASSUME NEW i \in a + 1 .. b PROVE Shows(t, i) /\ Shown(t, i) = Plain(t[i])
  <2>1. i \in a .. b
    BY <1>0
  <2>2. Marks(t, i) % 2 = 0
    BY <1>1, <2>1
  <2> QED BY <2>2 DEF Shows, Shown, Plain
<1>3. ASSUME NEW i \in a .. b PROVE Place(t, i) = Place(t, a) + (i - a)
  <2>1. \A j \in a + 1 .. b : j \in ShownSet(t)
    BY <1>0, <1>2 DEF ShownSet
  <2>2. Count(ShownSet(t), i) = Count(ShownSet(t), a) + (i - a)
    BY <1>0, <2>1, CountTakes
  <2> QED BY <1>0, <2>2, CountsAre
<1> QED BY <1>1, <1>2, <1>3

(* The words of a keyword, and what follows a mark without partner.        *)
LEMMA KeywordHidden ==
  ASSUME NEW t \in Seq(STRING), NEW a \in 0 .. Len(t), NEW b \in a .. Len(t),
         Marks(t, a) % 2 = 1, \A j \in a + 1 .. b : t[j] # "#"
  PROVE  /\ \A i \in a .. b : Marks(t, i) = Marks(t, a) /\ Place(t, i) = Place(t, a)
         /\ \A i \in a + 1 .. b : ~ Shows(t, i)
<1>0. Len(t) \in Nat /\ a \in Nat /\ b \in Nat /\ a <= b /\ \A i \in a .. b : i \in 0 .. Len(t)
  OBVIOUS
<1>1. ASSUME NEW i \in a .. b PROVE Marks(t, i) = Marks(t, a)
  <2>1. \A j \in a + 1 .. b : j \notin MarkSet(t)
    BY DEF MarkSet
  <2>2. Count(MarkSet(t), i) = Count(MarkSet(t), a)
    BY <1>0, <2>1, CountSkips
  <2> QED BY <1>0, <2>2, CountsAre
<1>2. ASSUME NEW i \in a + 1 .. b PROVE ~ Shows(t, i)
  <2>1. i \in a .. b
    BY <1>0
  <2>2. Marks(t, i) % 2 # 0
    BY <1>1, <2>1
  <2> QED BY <2>2 DEF Shows
<1>3. ASSUME NEW i \in a .. b PROVE Place(t, i) = Place(t, a)
  <2>1. \A j \in a + 1 .. b : j \notin ShownSet(t)
    BY <1>2 DEF ShownSet
  <2>2. Count(ShownSet(t), i) = Count(ShownSet(t), a)
    BY <1>0, <2>1, CountSkips
  <2> QED BY <1>0, <2>2, CountsAre
<1> QED BY <1>1, <1>2, <1>3

(* A mark opens after an even count and closes after an odd one.           *)
LEMMA MarkSteps ==
  ASSUME NEW t \in Seq(STRING), NEW s \in 1 .. Len(t), t[s] = "#"
  PROVE  /\ Marks(t, s) = Marks(t, s - 1) + 1 /\ Marks(t, s - 1) \in Nat
         /\ Place(t, s) = Place(t, s - 1) + (IF Shows(t, s) THEN 1 ELSE 0)
         /\ Marks(t, s - 1) % 2 = 0 =>
              Opens(t, s) /\ Marks(t, s) % 2 = 1 /\ ~ Shows(t, s) /\ Place(t, s) = Place(t, s - 1)
         /\ Marks(t, s - 1) % 2 = 1 =>
              ~ Opens(t, s) /\ Marks(t, s) % 2 = 0 /\ Shows(t, s) /\ Place(t, s) = Place(t, s - 1) + 1
<1>0. Len(t) \in Nat /\ s \in 0 .. Len(t) /\ s - 1 \in 0 .. Len(t) /\ s - 1 \in Nat /\ (s - 1) + 1 = s
  OBVIOUS
<1>1. /\ Marks(t, s) = Count(MarkSet(t), s) /\ Place(t, s) = Count(ShownSet(t), s)
      /\ Marks(t, s - 1) = Count(MarkSet(t), s - 1) /\ Place(t, s - 1) = Count(ShownSet(t), s - 1)
      /\ Marks(t, s - 1) \in Nat /\ Place(t, s - 1) \in Nat
  BY <1>0, CountsAre
<1>2. s \in MarkSet(t) /\ (s \in ShownSet(t) <=> Shows(t, s))
  BY DEF MarkSet, ShownSet
<1>3. /\ Count(MarkSet(t), s) = Count(MarkSet(t), s - 1) + 1
      /\ Count(ShownSet(t), s) = Count(ShownSet(t), s - 1) + (IF Shows(t, s) THEN 1 ELSE 0)
  <2>1. \A S : Count(S, (s - 1) + 1) = Count(S, s - 1) + (IF (s - 1) + 1 \in S THEN 1 ELSE 0)
    BY <1>0, CountSteps
  <2>2. \A S : Count(S, s) = Count(S, s - 1) + (IF s \in S THEN 1 ELSE 0)
    BY <1>0, <2>1
  <2> QED BY <1>2, <2>2
<1>4. Marks(t, s) = Marks(t, s - 1) + 1
  BY <1>1, <1>3
<1>5. \/ Marks(t, s - 1) % 2 = 0 /\ Marks(t, s) % 2 = 1
      \/ Marks(t, s - 1) % 2 = 1 /\ Marks(t, s) % 2 = 0
  BY <1>1, <1>4, Parity
<1>6. (Opens(t, s) <=> Marks(t, s) % 2 = 1) /\ (Shows(t, s) <=> ~ Opens(t, s))
  BY DEF Opens, Shows
<1>7. Place(t, s) = Place(t, s - 1) + (IF Shows(t, s) THEN 1 ELSE 0)
  BY <1>1, <1>3
<1>8. ASSUME Marks(t, s - 1) % 2 = 0
      PROVE  Opens(t, s) /\ Marks(t, s) % 2 = 1 /\ ~ Shows(t, s) /\ Place(t, s) = Place(t, s - 1)
  <2>1. Marks(t, s) % 2 = 1
    BY <1>5, <1>8
  <2>2. Opens(t, s) /\ ~ Shows(t, s)
    BY <1>6, <2>1
  <2>3. Place(t, s) = Place(t, s - 1) + 0
    BY <1>7, <2>2
  <2> QED BY <1>1, <2>1, <2>2, <2>3
<1>9. ASSUME Marks(t, s - 1) % 2 = 1
      PROVE  ~ Opens(t, s) /\ Marks(t, s) % 2 = 0 /\ Shows(t, s) /\ Place(t, s) = Place(t, s - 1) + 1
  <2>1. Marks(t, s) % 2 = 0
    BY <1>5, <1>9
  <2>2. ~ Opens(t, s) /\ Shows(t, s)
    BY <1>6, <2>1
  <2>3. Place(t, s) = Place(t, s - 1) + 1
    BY <1>7, <2>2
  <2> QED BY <2>1, <2>2, <2>3
<1>10. Marks(t, s - 1) \in Nat
  BY <1>1
<1> QED BY <1>4, <1>7, <1>8, <1>9, <1>10

(* What is shown at a closing mark.                                        *)
LEMMA ClosingShown ==
  ASSUME NEW t \in Seq(STRING), NEW s \in 1 .. Len(t), NEW e \in s + 1 .. Len(t),
         t[e] = "#", Opens(t, s), \A j \in s + 1 .. e - 1 : t[j] # "#"
  PROVE  Shown(t, e) = IF e = s + 1 THEN Plain("#")
                       ELSE [key |-> Keyword(SubSeq(t, s + 1, e - 1)), val |-> <<>>]
<1>1. CASE e = s + 1
  <2>1. e - 1 = s
    BY <1>1
  <2> QED BY <1>1, <2>1 DEF Shown, Plain
<1>2. CASE e # s + 1
  <2>1. e - 1 \in s + 1 .. e - 1
    BY <1>2
  <2>2. ~ Opens(t, e - 1)
    BY <2>1 DEF Opens
  <2> DEFINE A == {j \in 1 .. e - 1 : Opens(t, j)}
  <2>3. s \in A
    OBVIOUS
  <2>4. \A y \in A : s >= y
    <3>1. ASSUME NEW y \in A, ~ (s >= y) PROVE FALSE
      <4>1. y \in s + 1 .. e - 1
        BY <3>1
      <4>2. t[y] = "#"
        BY DEF Opens
      <4> QED BY <4>1, <4>2
    <3> QED BY <3>1
  <2>5. A \subseteq Int
    OBVIOUS
  <2> HIDE DEF A
  <2>6. Max(A) = s
    <3>1. Max(A) \in A /\ \A y \in A : Max(A) >= y
      BY <2>3, <2>4 DEF Max
    <3> DEFINE m == Max(A)
    <3>2. m \in A /\ m >= s
      BY <2>3, <3>1
    <3> HIDE DEF m
    <3>3. s >= m /\ m \in Int /\ s \in Int
      BY <2>4, <2>5, <3>2
    <3>4. m = s
      BY <3>2, <3>3
    <3> QED BY <3>4 DEF m
  <2>7. Shown(t, e) = [key |-> Keyword(SubSeq(t, Max(A) + 1, e - 1)), val |-> <<>>]
    BY <2>2 DEF Shown, A
  <2> QED BY <1>2, <2>6, <2>7
<1> QED BY <1>1, <1>2

(* A sequence is what is shown from a place on.                            *)
FilledFrom(t, p, s) ==
  /\ Len(s) = Place(t, Len(t)) - Place(t, p - 1)
  /\ \A i \in p .. Len(t) : Shows(t, i) => s[Place(t, i) - Place(t, p - 1)] = Shown(t, i)

(* Of a text put together from two.                                        *)
LEMMA PutTogether ==
  ASSUME NEW S, NEW a \in Seq(S), NEW b \in Seq(S)
  PROVE  /\ a \o b \in Seq(S) /\ Len(a \o b) = Len(a) + Len(b) /\ Len(a) \in Nat /\ Len(b) \in Nat
         /\ \A i \in 1 .. Len(a) : (a \o b)[i] = a[i]
         /\ \A i \in 1 .. Len(b) : (a \o b)[Len(a) + i] = b[i]
<1>1. /\ a \o b \in Seq(S) /\ Len(a \o b) = Len(a) + Len(b) /\ Len(a) \in Nat /\ Len(b) \in Nat
      /\ \A i \in 1 .. Len(a) + Len(b) : (a \o b)[i] = IF i <= Len(a) THEN a[i] ELSE b[i - Len(a)]
  BY ConcatProperties
<1> DEFINE c == a \o b  n == Len(a)  m == Len(b)
<1> HIDE DEF c, n, m
<1>2. n \in Nat /\ m \in Nat /\ \A i \in 1 .. n + m : c[i] = IF i <= n THEN a[i] ELSE b[i - n]
  BY <1>1 DEF c, n, m
<1>3. \A i \in 1 .. n : i \in 1 .. n + m /\ i <= n
  BY <1>2
<1>4. \A i \in 1 .. m : n + i \in 1 .. n + m /\ ~ (n + i <= n) /\ (n + i) - n = i
  BY <1>2
<1>5. (\A i \in 1 .. n : c[i] = a[i]) /\ \A i \in 1 .. m : c[n + i] = b[i]
  BY <1>2, <1>3, <1>4
<1> QED BY <1>1, <1>5 DEF c, n, m

(* A part of a template that is copied.                                    *)
LEMMA CopiedText ==
  ASSUME NEW t \in Seq(STRING), NEW a \in 0 .. Len(t), NEW b \in a .. Len(t)
  PROVE  LET s == Text(SubSeq(t, a + 1, b))
         IN  /\ s \in Seq(Entry) /\ Len(s) = b - a
             /\ \A i \in 1 .. b - a : s[i] = Plain(t[a + i])
<1>0. /\ Len(t) \in Nat /\ a \in Nat /\ b \in Nat /\ a <= b /\ b <= Len(t) /\ a + 1 \in Int
      /\ \A i \in a + 1 .. b : i \in 1 .. Len(t)
  OBVIOUS
<1> DEFINE u == SubSeq(t, a + 1, b)
<1>1. \A i \in a + 1 .. b : t[i] \in STRING
  BY <1>0, ElementOfSeq
<1>2. /\ u \in Seq(STRING) /\ Len(u) = IF a + 1 <= b THEN b - (a + 1) + 1 ELSE 0
      /\ \A i \in 1 .. b - (a + 1) + 1 : u[i] = t[(a + 1) + i - 1]
  BY <1>0, <1>1, SubSeqProperties
<1> HIDE DEF u
<1>3. Len(u) = b - a
  BY <1>0, <1>2
<1>4. ASSUME NEW i \in 1 .. b - a PROVE u[i] = t[a + i]
  <2>1. i \in 1 .. b - (a + 1) + 1 /\ (a + 1) + i - 1 = a + i
    BY <1>0
  <2> QED BY <1>2, <2>1
<1>5. u \in Seq(Word)
  <2>1. STRING \subseteq Word
    BY DEF Word
  <2> HIDE DEF Word
  <2> QED BY <1>2, <2>1, SeqMonotonic
<1>6. Text(u) \in Seq(Entry) /\ Len(Text(u)) = Len(u)
  <2>1. Len(u) \in Nat
    BY <1>0, <1>3
  <2> QED BY <1>5, <2>1, TextTypes, TextIs
<1>7. \A i \in 1 .. Len(u) : Text(u)[i] = Plain(u[i])
  BY DEF Text, Plain
<1> QED BY <1>3, <1>4, <1>6, <1>7 DEF u

LEMMA NextMarkIs ==
  ASSUME NEW t \in Seq(STRING), NEW p \in 1 .. Len(t) + 1
  PROVE  /\ MarksFrom(t, p) = {} => \A j \in p .. Len(t) : t[j] # "#"
         /\ MarksFrom(t, p) # {} =>
              LET s == NextMark(t, p)
              IN  /\ s \in p .. Len(t) /\ s \in 1 .. Len(t) /\ t[s] = "#"
                  /\ \A j \in p .. s - 1 : t[j] # "#"
<1> DEFINE A == MarksFrom(t, p)
           s == NextMark(t, p)
<1>0. Len(t) \in Nat /\ p \in Nat /\ p >= 1
  OBVIOUS
<1>1. \A j : j \in A <=> j \in p .. Len(t) /\ t[j] = "#"
  BY <1>0 DEF MarksFrom
<1> HIDE DEF A
<1>2. CASE A # {}
  <2>1. A \subseteq Nat
    BY <1>0, <1>1
  <2>2. s \in A /\ \A x \in A : s <= x
    BY <1>2, <2>1, MinIs DEF NextMark, A
  <2> HIDE DEF s
  <2>3. s \in p .. Len(t) /\ t[s] = "#"
    BY <1>1, <2>2
  <2>4. ASSUME NEW j \in p .. s - 1, t[j] = "#" PROVE FALSE
    <3>1. j \in p .. Len(t) /\ ~ (s <= j)
      BY <1>0, <2>3
    <3> QED BY <1>1, <2>2, <2>4, <3>1
  <2>5. s \in 1 .. Len(t)
    BY <1>0, <2>3
  <2> QED BY <1>2, <2>3, <2>4, <2>5 DEF A, s
<1> QED BY <1>1, <1>2 DEF A

(* Where a text that is shown lies in what is shown from a place on.       *)
LEMMA PlaceWithin ==
  ASSUME NEW t \in Seq(STRING), NEW i \in 1 .. Len(t), Shows(t, i), NEW k \in 0 .. i - 1
  PROVE  Place(t, i) - Place(t, k) \in 1 .. Place(t, Len(t)) - Place(t, k)
<1> DEFINE S == ShownSet(t)  n == Len(t)
<1>0. /\ n \in Nat /\ i \in Nat /\ i - 1 \in Nat /\ (i - 1) + 1 = i /\ k \in Nat
      /\ k <= i - 1 /\ i <= n /\ i \in S
  BY DEF ShownSet
<1>1. /\ Place(t, i) = Count(S, i) /\ Place(t, k) = Count(S, k) /\ Place(t, n) = Count(S, n)
      /\ Place(t, i) \in Nat /\ Place(t, k) \in Nat /\ Place(t, n) \in Nat
  <2>1. i \in 0 .. n /\ k \in 0 .. n /\ n \in 0 .. n
    BY <1>0
  <2> QED BY <2>1, CountsAre
<1> HIDE DEF S, n
<1>2. Count(S, k) <= Count(S, i - 1)
  BY <1>0, CountGrows
<1>3. Count(S, i) <= Count(S, n)
  BY <1>0, CountGrows
<1>4. Count(S, (i - 1) + 1) = Count(S, i - 1) + (IF (i - 1) + 1 \in S THEN 1 ELSE 0) /\ Count(S, i - 1) \in Nat
  BY <1>0, CountSteps
<1>5. Count(S, i) = Count(S, i - 1) + 1 /\ Count(S, i - 1) \in Nat
  BY <1>0, <1>4
<1>6. Place(t, k) + 1 <= Place(t, i) /\ Place(t, i) <= Place(t, n)
  BY <1>1, <1>2, <1>3, <1>5
<1>7. Place(t, i) - Place(t, k) \in 1 .. Place(t, n) - Place(t, k)
  BY <1>1, <1>6
<1> QED BY <1>7 DEF n

(* One turn of generateData.                                               *)
LEMMA OneTurn ==
  ASSUME NEW t \in Seq(STRING), NEW from, Cut(t, from),
         \A q \in 1 .. Len(t) + 1 : from[q] \in Seq(Entry),
         NEW p \in 1 .. Len(t) + 1, Marks(t, p - 1) % 2 = 0,
         \A q \in p + 1 .. Len(t) + 1 : Marks(t, q - 1) % 2 = 0 => FilledFrom(t, q, from[q])
  PROVE  FilledFrom(t, p, from[p])
<1> DEFINE n == Len(t)
           a == p - 1
           s == NextMark(t, p)
           c == Text(SubSeq(t, p, s - 1))
           e == NextMark(t, s + 1)
           mid == IF e = s + 1 THEN Text(<<"#">>)
                  ELSE <<[key |-> Keyword(SubSeq(t, s + 1, e - 1)), val |-> <<>>]>>
<1>0. n \in Nat /\ p \in Nat /\ a \in 0 .. n /\ a + 1 = p /\ a \in Nat /\ a <= n
  OBVIOUS
<1>1. from[p] = IF MarksFrom(t, p) = {} THEN Text(SubSeq(t, p, n))
                ELSE IF MarksFrom(t, s + 1) = {} THEN c
                ELSE (c \o mid) \o from[e + 1]
  BY DEF Cut
<1>2. CASE MarksFrom(t, p) = {}
  <2>1. \A j \in a + 1 .. n : t[j] # "#"
    BY <1>0, <1>2, NextMarkIs
  <2>2. n \in a .. n
    BY <1>0
  <2> DEFINE u == Text(SubSeq(t, a + 1, n))
  <2>3. Len(u) = n - a /\ \A i \in 1 .. n - a : u[i] = Plain(t[a + i])
    BY <1>0, <2>2, CopiedText
  <2> HIDE DEF u
  <2>4. /\ \A i \in a .. n : Place(t, i) = Place(t, a) + (i - a)
        /\ \A i \in a + 1 .. n : Shows(t, i) /\ Shown(t, i) = Plain(t[i])
    BY <1>0, <2>1, <2>2, TextShown
  <2>5. Place(t, a) \in Nat
    BY <1>0, CountsAre
  <2>6. Len(u) = Place(t, n) - Place(t, a)
    BY <2>2, <2>3, <2>4, <2>5, <1>0
  <2>7. ASSUME NEW i \in p .. n PROVE u[Place(t, i) - Place(t, a)] = Shown(t, i)
    <3>1. i \in a .. n /\ i \in a + 1 .. n /\ i - a \in 1 .. n - a /\ a + (i - a) = i
      BY <1>0
    <3>2. Place(t, i) - Place(t, a) = i - a
      BY <1>0, <2>4, <2>5, <3>1
    <3> QED BY <2>3, <2>4, <3>1, <3>2
  <2>8. from[p] = u
    BY <1>0, <1>1, <1>2 DEF u
  <2> QED BY <2>6, <2>7, <2>8 DEF FilledFrom
<1>3. CASE MarksFrom(t, p) # {}
  <2>1. /\ s \in p .. n /\ s \in 1 .. n /\ t[s] = "#" /\ \A j \in a + 1 .. s - 1 : t[j] # "#"
    BY <1>0, <1>3, NextMarkIs
  <2> HIDE DEF s
  <2>2. s - 1 \in a .. n /\ s \in Nat /\ s + 1 \in 1 .. n + 1 /\ n \in s .. n /\ s <= n /\ s \in 0 .. n
    BY <1>0, <2>1
  <2>3. /\ \A i \in a .. s - 1 : Marks(t, i) = Marks(t, a) /\ Place(t, i) = Place(t, a) + (i - a)
        /\ \A i \in a + 1 .. s - 1 : Shows(t, i) /\ Shown(t, i) = Plain(t[i])
    BY <1>0, <2>1, <2>2, TextShown
  <2>4. c \in Seq(Entry) /\ Len(c) = (s - 1) - a /\ \A i \in 1 .. (s - 1) - a : c[i] = Plain(t[a + i])
    <3> DEFINE b == s - 1
    <3>1. b \in a .. Len(t)
      BY <2>2
    <3> HIDE DEF b
    <3>2. LET u == Text(SubSeq(t, a + 1, b))
          IN  u \in Seq(Entry) /\ Len(u) = b - a /\ \A i \in 1 .. b - a : u[i] = Plain(t[a + i])
      BY <1>0, <3>1, CopiedText
    <3> QED BY <1>0, <3>2 DEF b
  <2> HIDE DEF c
  <2>5. Place(t, a) \in Nat /\ Place(t, s - 1) = Place(t, a) + ((s - 1) - a) /\ Marks(t, s - 1) % 2 = 0
    <3>1. s - 1 \in a .. s - 1
      BY <1>0, <2>2
    <3> QED BY <1>0, <2>3, <3>1, CountsAre
  <2>6. Opens(t, s) /\ Marks(t, s) % 2 = 1 /\ ~ Shows(t, s) /\ Place(t, s) = Place(t, s - 1)
    BY <2>1, <2>5, MarkSteps
  <2>7. ASSUME NEW i \in p .. s - 1
        PROVE  /\ Place(t, i) - Place(t, a) \in 1 .. Len(c)
               /\ c[Place(t, i) - Place(t, a)] = Shown(t, i)
    <3>1. i \in a .. s - 1 /\ i \in a + 1 .. s - 1 /\ i - a \in 1 .. (s - 1) - a /\ a + (i - a) = i
      BY <1>0, <2>2
    <3>2. Place(t, i) - Place(t, a) = i - a
      BY <1>0, <2>3, <2>5, <3>1
    <3> QED BY <2>3, <2>4, <3>1, <3>2
  <2>8. CASE MarksFrom(t, s + 1) = {}
    <3>1. \A j \in s + 1 .. n : t[j] # "#"
      BY <2>2, <2>8, NextMarkIs
    <3>2. (\A i \in s .. n : Place(t, i) = Place(t, s)) /\ \A i \in s + 1 .. n : ~ Shows(t, i)
      BY <2>2, <2>6, <3>1, KeywordHidden
    <3>3. Len(c) = Place(t, n) - Place(t, a)
      <4>1. Place(t, n) = Place(t, s)
        BY <2>2, <3>2
      <4> HIDE DEF a
      <4> QED BY <1>0, <2>2, <2>4, <2>5, <2>6, <4>1
    <3>4. ASSUME NEW i \in p .. n, Shows(t, i) PROVE c[Place(t, i) - Place(t, a)] = Shown(t, i)
      <4>1. i \notin s + 1 .. n /\ i # s
        BY <2>6, <3>2, <3>4
      <4>2. i \in p .. s - 1
        BY <1>0, <2>2, <4>1
      <4> QED BY <2>7, <4>2
    <3>5. from[p] = c
      BY <1>1, <1>3, <2>8
    <3> QED BY <3>3, <3>4, <3>5 DEF FilledFrom
  <2>9. CASE MarksFrom(t, s + 1) # {}
    <3>1. e \in s + 1 .. n /\ e \in 1 .. n /\ t[e] = "#" /\ \A j \in s + 1 .. e - 1 : t[j] # "#"
      BY <2>2, <2>9, NextMarkIs
    <3> DEFINE r == from[e + 1]
               w == mid[1]
    <3> HIDE DEF e
    <3>2. /\ e \in Nat /\ s < e /\ e <= n /\ e - 1 \in s .. n /\ e \in 0 .. n
          /\ e + 1 \in p + 1 .. n + 1 /\ e + 1 \in 1 .. n + 1 /\ (e + 1) - 1 = e
      BY <1>0, <2>1, <2>2, <3>1
    <3>3. /\ Marks(t, e - 1) = Marks(t, s) /\ Place(t, e - 1) = Place(t, s)
          /\ \A i \in s + 1 .. e - 1 : ~ Shows(t, i)
      <4> DEFINE b == e - 1
      <4>1. b \in s .. n /\ b \in s .. b /\ \A j \in s + 1 .. b : t[j] # "#"
        BY <2>2, <3>1, <3>2
      <4> HIDE DEF b
      <4>2. /\ \A i \in s .. b : Marks(t, i) = Marks(t, s) /\ Place(t, i) = Place(t, s)
            /\ \A i \in s + 1 .. b : ~ Shows(t, i)
        BY <2>2, <2>6, <4>1, KeywordHidden
      <4> QED BY <4>1, <4>2 DEF b
    <3>4. Marks(t, e) % 2 = 0 /\ Shows(t, e) /\ Place(t, e) = Place(t, e - 1) + 1
      BY <2>6, <3>1, <3>3, MarkSteps
    <3>5. FilledFrom(t, e + 1, r) /\ r \in Seq(Entry)
      BY <3>2, <3>4
    <3>6. /\ Len(r) = Place(t, n) - Place(t, e)
          /\ \A i \in e + 1 .. n : Shows(t, i) => r[Place(t, i) - Place(t, e)] = Shown(t, i)
      BY <3>2, <3>5 DEF FilledFrom
    <3>7. mid \in Seq(Entry) /\ Len(mid) = 1 /\ mid[1] = Shown(t, e)
      <4>1. Shown(t, e) = IF e = s + 1 THEN Plain("#")
                          ELSE [key |-> Keyword(SubSeq(t, s + 1, e - 1)), val |-> <<>>]
        BY <2>1, <2>6, <3>1, ClosingShown
      <4>2. CASE e = s + 1
        <5>1. "#" \in Word
          BY DEF Word
        <5>2. <<"#">> \in Seq(Word) /\ Len(<<"#">>) = 1
          <6> HIDE DEF Word
          <6> QED BY <5>1
        <5>3. Text(<<"#">>) \in Seq(Entry) /\ Len(Text(<<"#">>)) = 1
          BY <5>2, TextTypes, TextIs
        <5>4. Text(<<"#">>)[1] = Plain("#")
          <6>1. 1 \in 1 .. Len(<<"#">>) /\ <<"#">>[1] = "#"
            OBVIOUS
          <6> QED BY <6>1 DEF Text, Plain
        <5> QED BY <4>1, <4>2, <5>3, <5>4
      <4>3. CASE e # s + 1
        <5> DEFINE k == Keyword(SubSeq(t, s + 1, e - 1))
                   x == [key |-> k, val |-> <<>>]
        <5>1. SubSeq(t, s + 1, e - 1) \in Seq(STRING)
          <6>1. \A i \in s + 1 .. e - 1 : t[i] \in STRING
            BY <2>2, <3>2, ElementOfSeq
          <6>2. s + 1 \in Int /\ e - 1 \in Int
            BY <2>2, <3>2
          <6> QED BY <6>1, <6>2, SubSeqProperties
        <5>2. k \in Key
          BY <5>1, KeywordTypes
        <5> HIDE DEF k
        <5>3. x \in Entry
          <6>1. <<>> \in Seq(Word)
            OBVIOUS
          <6> QED BY <5>2, <6>1 DEF Entry
        <5>4. mid = <<x>> /\ Shown(t, e) = x
          BY <4>1, <4>3 DEF k
        <5> HIDE DEF x, mid
        <5>5. <<x>> \in Seq(Entry) /\ Len(<<x>>) = 1 /\ <<x>>[1] = x
          BY <5>3
        <5> QED BY <5>4, <5>5
      <4> QED BY <4>2, <4>3
    <3> HIDE DEF mid, r
    <3> DEFINE cm == c \o mid
               l == Len(c)
    <3>8. /\ cm \in Seq(Entry) /\ Len(cm) = l + 1 /\ l \in Nat /\ cm[l + 1] = Shown(t, e)
          /\ \A i \in 1 .. l : cm[i] = c[i]
      <4>1. /\ cm \in Seq(Entry) /\ Len(cm) = Len(c) + Len(mid) /\ Len(c) \in Nat
            /\ \A i \in 1 .. Len(c) : cm[i] = c[i]
            /\ \A i \in 1 .. Len(mid) : cm[Len(c) + i] = mid[i]
        <5>1. c \in Seq(Entry) /\ mid \in Seq(Entry)
          BY <2>4, <3>7
        <5> HIDE DEF l, a
        <5> QED BY <5>1, PutTogether
      <4>2. 1 \in 1 .. Len(mid)
        BY <3>7
      <4> QED BY <3>7, <4>1, <4>2
    <3> HIDE DEF cm
    <3> DEFINE v == cm \o r
    <3>9. /\ Len(v) = (l + 1) + Len(r)
          /\ \A i \in 1 .. l + 1 : v[i] = cm[i]
          /\ \A i \in 1 .. Len(r) : v[(l + 1) + i] = r[i]
      <4>1. r \in Seq(Entry)
        BY <3>5
      <4>2. /\ Len(cm \o r) = Len(cm) + Len(r)
            /\ \A i \in 1 .. Len(cm) : (cm \o r)[i] = cm[i]
            /\ \A i \in 1 .. Len(r) : (cm \o r)[Len(cm) + i] = r[i]
        <5>1. cm \in Seq(Entry)
          BY <3>8
        <5> HIDE DEF l, a, v
        <5> QED BY <4>1, <5>1, PutTogether
      <4> QED BY <3>8, <4>2
    <3> HIDE DEF v
    <3>10. Place(t, e) \in Nat /\ Place(t, n) \in Nat /\ Place(t, e) - Place(t, a) = l + 1
      <4>1. n \in 0 .. n
        BY <1>0
      <4>2. Place(t, e) \in Nat /\ Place(t, n) \in Nat
        BY <3>2, <4>1, CountsAre
      <4>3. l = (s - 1) - a
        BY <2>4
      <4> HIDE DEF l, a
      <4> QED BY <1>0, <2>2, <2>5, <2>6, <3>3, <3>4, <4>2, <4>3
    <3>11. Len(v) = Place(t, n) - Place(t, a)
      <4> HIDE DEF l, a
      <4>1. Len(v) = (l + 1) + Len(r) /\ Len(r) = Place(t, n) - Place(t, e) /\ l \in Nat
        BY <3>6, <3>8, <3>9
      <4> DEFINE x == Place(t, n)  y == Place(t, e)  z == Place(t, a)
      <4>2. x \in Nat /\ y \in Nat /\ z \in Nat /\ y - z = l + 1 /\ Len(r) = x - y
        BY <2>5, <3>10, <4>1
      <4> HIDE DEF x, y, z
      <4>3. (l + 1) + (x - y) = x - z
        BY <4>1, <4>2
      <4> QED BY <4>1, <4>2, <4>3 DEF x, z
    <3>12. ASSUME NEW i \in p .. n, Shows(t, i) PROVE v[Place(t, i) - Place(t, a)] = Shown(t, i)
      <4>1. i # s /\ i \notin s + 1 .. e - 1
        BY <2>6, <3>3, <3>12
      <4>2. CASE i \in p .. s - 1
        <5>1. Place(t, i) - Place(t, a) \in 1 .. l /\ c[Place(t, i) - Place(t, a)] = Shown(t, i)
          BY <2>7, <4>2
        <5> DEFINE x == Place(t, i) - Place(t, a)
        <5> HIDE DEF x, l
        <5>2. x \in 1 .. l + 1
          BY <3>8, <5>1 DEF x
        <5> QED BY <3>8, <3>9, <5>1, <5>2 DEF x
      <4>3. CASE i = e
        <5> HIDE DEF l, a
        <5>1. l + 1 \in 1 .. l + 1
          BY <3>8
        <5> QED BY <3>8, <3>9, <3>10, <4>3, <5>1
      <4>4. CASE i \in e + 1 .. n
        <5>1. i \in 1 .. n /\ e \in 0 .. i - 1
          BY <3>2, <4>4
        <5>2. Place(t, i) - Place(t, e) \in 1 .. Len(r) /\ r[Place(t, i) - Place(t, e)] = Shown(t, i)
          BY <3>6, <3>12, <4>4, <5>1, PlaceWithin
        <5>3. Place(t, i) \in Nat
          <6>1. i \in 0 .. n
            BY <1>0
          <6> QED BY <6>1, CountsAre
        <5> DEFINE x == Place(t, i) - Place(t, e)
        <5> HIDE DEF l, a
        <5>4. Place(t, i) - Place(t, a) = (l + 1) + x
          BY <2>5, <3>8, <3>10, <5>3
        <5> HIDE DEF x
        <5>5. v[(l + 1) + x] = r[x] /\ r[x] = Shown(t, i)
          BY <3>9, <5>2 DEF x
        <5> QED BY <5>4, <5>5
      <4> QED BY <1>0, <2>2, <3>2, <4>1, <4>2, <4>3, <4>4
    <3>13. from[p] = v
      BY <1>1, <1>3, <2>9 DEF v, cm, r, e, s, mid, c
    <3> QED BY <3>11, <3>12, <3>13 DEF FilledFrom
  <2> QED BY <2>8, <2>9
<1> QED BY <1>2, <1>3

(* Segments is the template with its marks told by their count.            *)
LEMMA SegmentsFilled ==
  ASSUME NEW t \in Seq(STRING)
  PROVE  /\ Segments(t) \in Seq(Entry) /\ Len(Segments(t)) = Place(t, Len(t))
         /\ \A i \in 1 .. Len(t) : Shows(t, i) =>
              Place(t, i) \in 1 .. Len(Segments(t)) /\ Segments(t)[Place(t, i)] = Shown(t, i)
<1> DEFINE n == Len(t)
           Right(from, p) == Marks(t, p - 1) % 2 = 0 => FilledFrom(t, p, from[p])
<1>0. n \in Nat
  OBVIOUS
<1>1. PICK from : /\ Segments(t) = from[1] /\ Cut(t, from)
                  /\ \A p \in 1 .. n + 1 : from[p] \in Seq(Entry)
  BY SegmentsCut
<1> DEFINE T == {m \in Nat : \A p \in 1 .. n + 1 : n + 1 - m < p => Right(from, p)}
<1>2. 0 \in T
  BY <1>0
<1>3. ASSUME NEW m \in Nat, m \in T PROVE m + 1 \in T
  <2>1. ASSUME NEW p \in 1 .. n + 1, n + 1 - (m + 1) < p, Marks(t, p - 1) % 2 = 0
        PROVE  FilledFrom(t, p, from[p])
    <3>1. ASSUME NEW q \in p + 1 .. n + 1, Marks(t, q - 1) % 2 = 0
          PROVE  FilledFrom(t, q, from[q])
      <4>1. q \in 1 .. n + 1 /\ n + 1 - m < q
        BY <1>0, <2>1
      <4> QED BY <1>3, <3>1, <4>1
    <3> QED BY <1>1, <2>1, <3>1, OneTurn
  <2> HIDE DEF n
  <2> QED BY <2>1
<1>4. Nat \subseteq T
  <2> HIDE DEF T
  <2> QED BY <1>2, <1>3, NumbersFromZero
<1>5. Right(from, 1)
  <2>1. n + 1 \in Nat /\ 1 \in 1 .. n + 1 /\ n + 1 - (n + 1) < 1
    BY <1>0
  <2>2. n + 1 \in T
    BY <1>4, <2>1
  <2> QED BY <2>1, <2>2
<1>6. Marks(t, 0) = 0 /\ Place(t, 0) = 0
  <2>1. {j \in 1 .. 0 : t[j] = "#"} = {} /\ {j \in 1 .. 0 : Shows(t, j)} = {}
    OBVIOUS
  <2> QED BY <2>1, FS_EmptySet DEF Marks, Place
<1>7. Place(t, n) \in Nat
  <2>1. n \in 0 .. n
    BY <1>0
  <2> QED BY <2>1, CountsAre
<1>8. FilledFrom(t, 1, Segments(t))
  <2>1. 1 - 1 = 0 /\ 0 % 2 = 0
    OBVIOUS
  <2> QED BY <1>1, <1>5, <1>6, <2>1
<1>9. Len(Segments(t)) = Place(t, n) /\
      \A i \in 1 .. n : Shows(t, i) => Segments(t)[Place(t, i)] = Shown(t, i)
  <2>1. 1 - 1 = 0
    OBVIOUS
  <2>2. \A i \in 1 .. n : Place(t, i) \in Nat
    <3>1. \A i \in 1 .. n : i \in 0 .. n
      BY <1>0
    <3> QED BY <3>1, CountsAre
  <2>3. \A x \in Nat : x - 0 = x
    OBVIOUS
  <2> QED BY <1>6, <1>7, <1>8, <2>1, <2>2, <2>3 DEF FilledFrom
<1>10. ASSUME NEW i \in 1 .. n, Shows(t, i) PROVE Place(t, i) \in 1 .. Place(t, n)
  <2>1. 0 \in 0 .. i - 1
    BY <1>0
  <2>2. Place(t, i) - 0 \in 1 .. Place(t, n) - 0
    BY <1>6, <1>10, <2>1, PlaceWithin
  <2>3. Place(t, i) \in Nat
    <3>1. i \in 0 .. n
      BY <1>0
    <3> QED BY <3>1, CountsAre
  <2> QED BY <1>7, <2>2, <2>3
<1>11. Segments(t) \in Seq(Entry)
  BY SegmentsAre
<1> QED BY <1>9, <1>10, <1>11

-----------------------------------------------------------------------------
(* The list of a directory names every file in it.                         *)
Said == Word \union {"text", "audio", "image", "application"}

(* Of texts that are put end to end, each is there.                        *)
LEMMA PartIsThere ==
  ASSUME NEW S, NEW seqs \in Seq(Seq(S)), NEW k \in 1 .. Len(seqs), NEW i \in 1 .. Len(seqs[k])
  PROVE  \E j \in 1 .. Len(FlattenSeq(seqs)) : FlattenSeq(seqs)[j] = seqs[k][i]
<1> DEFINE s == FlattenSeq(seqs)
           n == Len(seqs)
<1>1. n \in Nat /\ \A m \in 1 .. n : seqs[m] \in Seq(S) /\ Len(seqs[m]) \in Nat
  <2>1. \A m \in 1 .. n : seqs[m] \in Seq(S)
    BY ElementOfSeq
  <2> QED BY <2>1
<1>2. PICK off : Ends(seqs, off)
  BY <1>1, EndsExist
<1>3. s \in Seq(S) /\ Len(s) = off[n] /\ s[off[k - 1] + i] = seqs[k][i]
  BY <1>2, Flattened
<1> HIDE DEF s, n
<1>4. /\ n = Len(seqs) /\ k \in 1 .. n /\ off[k - 1] \in Nat /\ off[k] = off[k - 1] + Len(seqs[k])
      /\ off[k] \in Nat /\ off[n] \in Nat /\ Len(seqs[k]) \in Nat
  <2>1. n = Len(seqs) /\ k \in 1 .. n
    BY DEF n
  <2>2. k - 1 \in 0 .. n /\ k \in 0 .. n /\ n \in 0 .. n
    BY <1>1, <2>1
  <2> QED BY <1>1, <1>2, <2>1, <2>2 DEF Ends
<1>5. off[k] <= off[n]
  <2>1. k \in 0 .. n /\ n \in k .. n /\ Len(seqs) = n /\ \A m \in 1 .. n : Len(seqs[m]) \in Nat
    BY <1>1, <1>4
  <2> QED BY <1>1, <1>2, <2>1, EndsGrow
<1>6. off[k - 1] + i \in 1 .. off[n]
  BY <1>4, <1>5
<1> QED BY <1>3, <1>6 DEF s

LEMMA FileValueTypes ==
  ASSUME NEW f \in Name, NEW kw
  PROVE  FileValue(f, kw) \in Seq(Said) /\ FileValue(f, "relurl") = <<f.url>>
<1>1. f.url \in Said /\ f.name \in Said /\ f.escaped \in Said
  BY DEF Name, Said, Word
<1>2. Mime(f.ext) \in Said
  BY DEF Mime, Said
<1> HIDE DEF Said
<1>3. \A x \in Said : <<x>> \in Seq(Said)
  OBVIOUS
<1>4. <<>> \in Seq(Said)
  OBVIOUS
<1> QED BY <1>1, <1>2, <1>3, <1>4 DEF FileValue

LEMMA FileListed ==
  ASSUME NEW f \in Name
  PROVE  LET g == Generate(DirItemTemplate, LAMBDA k : FileValue(f, k))
         IN  g \in Seq(Said) /\ \E j \in 1 .. Len(g) : g[j] = f.url
<1> DEFINE s == Segments(DirItemTemplate)
           n == Len(s)
           X(i) == IF s[i].key = "" THEN s[i] ELSE [s[i] EXCEPT !.val = FileValue(f, s[i].key)]
           filled == [i \in 1 .. n |-> X(i)]
           vals == [i \in 1 .. Len(filled) |-> filled[i].val]
           g == Generate(DirItemTemplate, LAMBDA k : FileValue(f, k))
<1>1. g = FlattenSeq(vals)
  BY DEF Generate, Filled
<1>2. s \in Seq(Entry) /\ n \in Nat /\ DOMAIN s = 1 .. n
  BY WordsAssumption, SegmentsAre
<1>3. PICK m \in 1 .. n : s[m].key = "relurl"
  BY <1>2, DirTemplateAssumption DEF HasKey
<1> HIDE DEF g
<1>4. ASSUME NEW i \in 1 .. n
      PROVE  /\ X(i).val \in Seq(Said)
             /\ s[i].key = "relurl" => X(i).val = <<f.url>>
  <2>1. s[i] \in Entry
    BY <1>2, ElementOfSeq
  <2> DEFINE e == s[i]  v == FileValue(f, e.key)
  <2>2. e.val \in Seq(Said)
    <3>1. e.val \in Seq(Word)
      BY <2>1 DEF Entry
    <3>2. Word \subseteq Said
      BY DEF Said
    <3> HIDE DEF e
    <3> QED BY <3>1, <3>2, SeqMonotonic
  <2>3. v \in Seq(Said) /\ (e.key = "relurl" => v = <<f.url>>)
    BY FileValueTypes
  <2>4. X(i) = IF e.key = "" THEN e ELSE [e EXCEPT !.val = v]
    OBVIOUS
  <2> HIDE DEF v, X, s
  <2>5. [e EXCEPT !.val = v].val = v
    BY <2>1 DEF Entry
  <2> HIDE DEF e
  <2>6. X(i).val \in Seq(Said) /\ (e.key = "relurl" => X(i).val = <<f.url>>)
    BY <2>2, <2>3, <2>4, <2>5
  <2> QED BY <2>6 DEF e
<1> HIDE DEF X, s, n
<1>5. Len(filled) = n /\ Len(filled) \in Nat
  BY <1>2
<1>6. vals = [i \in 1 .. n |-> X(i).val]
  BY <1>5
<1> HIDE DEF filled, vals
<1>7. vals \in Seq(Seq(Said)) /\ Len(vals) = n
  <2> DEFINE V == Seq(Said)
  <2>1. vals \in [1 .. n -> V]
    BY <1>4, <1>6
  <2> HIDE DEF V
  <2>2. vals \in Seq(V) /\ Len(vals) = n
    BY <1>2, <2>1, SeqDef
  <2> QED BY <2>2 DEF V
<1>8. vals[m] = <<f.url>>
  BY <1>3, <1>4, <1>6
<1>9. 1 \in 1 .. Len(vals[m]) /\ vals[m][1] = f.url
  BY <1>8
<1>10. \E j \in 1 .. Len(g) : g[j] = f.url
  BY <1>1, <1>3, <1>7, <1>9, PartIsThere
<1>11. g \in Seq(Said)
  <2>1. \A k \in 1 .. n : Len(vals[k]) \in Nat
    <3>1. \A k \in 1 .. n : vals[k] \in Seq(Said)
      BY <1>7, ElementOfSeq
    <3> QED BY <3>1
  <2>2. \E off : Ends(vals, off)
    BY <1>2, <1>7, <2>1, EndsExist
  <2> QED BY <1>1, <1>7, <2>2, Flattened
<1> QED BY <1>10, <1>11 DEF g

LEMMA FilesListed ==
  ASSUME NEW base, NEW files \in Seq(Name), NEW i \in 1 .. Len(files)
  PROVE  LET v == DirValue(base, files, "filelist")
         IN  \E j \in 1 .. Len(v) : v[j] = files[i].url
<1> DEFINE G(m) == Generate(DirItemTemplate, LAMBDA k : FileValue(files[m], k))
           n == Len(files)
           vals == [m \in 1 .. n |-> G(m)]
<1>1. DirValue(base, files, "filelist") = FlattenSeq(vals)
  BY DEF DirValue
<1>2. n \in Nat
  OBVIOUS
<1>3. ASSUME NEW m \in 1 .. n
      PROVE  G(m) \in Seq(Said) /\ \E j \in 1 .. Len(G(m)) : G(m)[j] = files[m].url
  <2>1. files[m] \in Name
    BY ElementOfSeq
  <2> QED BY <2>1, FileListed
<1> HIDE DEF G
<1>4. vals \in Seq(Seq(Said)) /\ Len(vals) = n /\ \A m \in 1 .. n : vals[m] = G(m)
  <2> DEFINE V == Seq(Said)
  <2>1. vals \in [1 .. n -> V] /\ \A m \in 1 .. n : vals[m] = G(m)
    BY <1>3
  <2> HIDE DEF V, vals, n
  <2>2. vals \in Seq(V) /\ Len(vals) = n
    BY <1>2, <2>1, SeqDef
  <2> QED BY <2>1, <2>2 DEF V
<1>5. PICK j \in 1 .. Len(G(i)) : G(i)[j] = files[i].url
  BY <1>3
<1> HIDE DEF vals, n
<1>6. i \in 1 .. Len(vals) /\ j \in 1 .. Len(vals[i]) /\ vals[i][j] = files[i].url
  BY <1>4, <1>5 DEF n
<1>7. \E k \in 1 .. Len(FlattenSeq(vals)) : FlattenSeq(vals)[k] = vals[i][j]
  BY <1>4, <1>6, PartIsThere
<1> QED BY <1>1, <1>6, <1>7

-----------------------------------------------------------------------------
(* A page on its way: what was written and what is left are the items the  *)
(* file was opened with, where a keyword that was written has its value.   *)
OpenedItems ==
  CASE FileOf.kind = "text" -> Segments(FileOf.body)
    [] FileOf.kind = "raw" -> Text(FileOf.body)
    [] FileOf.kind = "dir" -> Filled(Segments(DirTemplate),
                                     LAMBDA kw : DirValue(req.file, FileOf.body, kw))

AsOpened(e, o) ==
  e = IF o.key = "" \/ FileOf.kind = "dir" THEN o ELSE [key |-> o.key, val |-> e.val]

FileInv ==
  web \in {"page", "sent"} /\ req.root \in {"html", "data"} =>
    /\ Items(page)
    /\ web = "sent" => todo = <<>>
    /\ Len(OpenedItems) = Len(page) + Len(todo)
    /\ \A i \in 1 .. Len(todo) : todo[i] = OpenedItems[Len(page) + i]
    /\ \A i \in 1 .. Len(page) : AsOpened(page[i], OpenedItems[i])

LEMMA FileInit == Init => FileInv
BY DEF Init, FileInv

LEMMA FileKept ==
  ASSUME FileInv, web' = web, req' = req, todo' = todo, page' = page
  PROVE  FileInv'
<1>1. FileOf' = FileOf
  BY DEF FileOf
<1>2. OpenedItems' = OpenedItems
  BY <1>1 DEF OpenedItems, Filled
<1> QED BY <1>1, <1>2 DEF FileInv, AsOpened

LEMMA HandleGetFile ==
  ASSUME WebInv, PageInv, web = "reading", HandleGet, req' = req
  PROVE  FileInv'
<1>1. req \in Request /\ page = <<>>
  BY DEF WebInv, WebTypes, PageInv
<1>2. FileOf' = FileOf /\ OpenedItems' = OpenedItems
  BY DEF FileOf, OpenedItems, Filled
<1>3. CASE req.root \in {"html", "data"} /\ OpenPage
  <2>1. web' = "page" /\ page' = <<>> /\ Items(todo')
    BY <1>1, <1>3, PageOpened
  <2>2. todo' = OpenedItems
    BY <1>3 DEF OpenPage, OpenedItems
  <2>3. Len(<<>>) = 0 /\ Items(<<>>)
    BY NoItems
  <2>4. Len(todo') \in Nat
    BY <2>1 DEF Items
  <2> DEFINE o == OpenedItems
  <2> HIDE DEF o
  <2>5. Len(o) = 0 + Len(todo') /\ \A i \in 1 .. Len(todo') : 0 + i = i
    BY <2>2, <2>4 DEF o
  <2> QED BY <1>2, <2>1, <2>2, <2>3, <2>5 DEF FileInv, o
<1>4. CASE ~ (req.root \in {"html", "data"} /\ OpenPage)
  <2>1. ~ (web' \in {"page", "sent"} /\ req'.root \in {"html", "data"})
    BY <1>4 DEF HandleGet
  <2> QED BY <2>1 DEF FileInv
<1> QED BY <1>3, <1>4

LEMMA WrittenAsOpened ==
  ASSUME NEW e, IsItem(e), e = Head(todo)
  PROVE  AsOpened(Item, e)
<1> DEFINE k == e.key
           w == e.val
           own == req.root = "html"
           u == IpcValue(song, client, cur, devices, IF own THEN ItemTemplate ELSE <<>>,
                         IF own THEN DeviceTemplate ELSE <<>>, k)
<1>1. e = [key |-> k, val |-> w]
  BY DEF IsItem
<1>2. Item = IF k = "" \/ FileOf.kind = "dir" THEN e ELSE [e EXCEPT !.val = u]
  BY DEF Item
<1> HIDE DEF u
<1>3. CASE k = "" \/ FileOf.kind = "dir"
  BY <1>2, <1>3 DEF AsOpened
<1>4. CASE ~ (k = "" \/ FileOf.kind = "dir")
  <2>1. Item = [[key |-> k, val |-> w] EXCEPT !.val = u]
    BY <1>1, <1>2, <1>4
  <2> HIDE DEF w
  <2>2. Item = [key |-> k, val |-> u]
    BY <2>1
  <2>3. Item.val = u
    BY <2>2
  <2> QED BY <1>4, <2>2, <2>3 DEF AsOpened
<1> QED BY <1>3, <1>4

LEMMA WebItemFile ==
  ASSUME PageInv, FileInv, WebItem
  PROVE  FileInv'
<1> SUFFICES ASSUME req.root \in {"html", "data"} PROVE FileInv'
  BY DEF WebItem, FileInv
<1> DEFINE o == OpenedItems
<1>1. web = "page" /\ req' = req /\ Items(page) /\ Items(todo)
  BY DEF PageInv, WebItem
<1>2. FileOf' = FileOf /\ OpenedItems' = o
  BY <1>1 DEF FileOf, OpenedItems, Filled
<1>3. /\ Len(o) = Len(page) + Len(todo)
      /\ \A i \in 1 .. Len(todo) : todo[i] = o[Len(page) + i]
      /\ \A i \in 1 .. Len(page) : AsOpened(page[i], o[i])
  BY <1>1 DEF FileInv
<1> HIDE DEF o
<1>5. CASE todo = <<>>
  <2>1. web' = "sent" /\ page' = page /\ todo' = todo
    BY <1>5 DEF WebItem
  <2> QED BY <1>1, <1>2, <1>3, <1>5, <2>1 DEF FileInv, AsOpened
<1>6. CASE todo # <<>>
  <2>1. page' = Append(page, Item) /\ todo' = Tail(todo) /\ web' = web
    BY <1>6 DEF WebItem
  <2> DEFINE e == Head(todo)
             n == Len(page)
             m == Len(todo)
  <2>2. /\ IsItem(e) /\ m \in Nat /\ 1 \in 1 .. m /\ e = todo[1] /\ Len(todo') = m - 1
        /\ \A i \in 1 .. m - 1 : i + 1 \in 1 .. m /\ todo'[i] = todo[i + 1]
    BY <1>1, <1>6, <2>1, ItemTaken
  <2> HIDE DEF e
  <2>3. AsOpened(Item, e) /\ IsItem(Item)
    <3>1. e = Head(todo)
      BY DEF e
    <3>2. AsOpened(Item, e)
      BY <2>2, <3>1, WrittenAsOpened
    <3>3. IsItem(Item)
      BY <2>2, <3>2, ItemIs DEF AsOpened
    <3> QED BY <3>2, <3>3
  <2>4. /\ Items(page') /\ n \in Nat /\ Len(page') = n + 1
        /\ \A i \in 1 .. n + 1 : page'[i] = IF i <= n THEN page[i] ELSE Item
    BY <1>1, <2>1, <2>3, ItemAdded
  <2> HIDE DEF n, m
  <2>5. Len(o) = Len(page') + Len(todo')
    BY <1>3, <2>2, <2>4 DEF n, m
  <2>6. \A i \in 1 .. Len(todo') : todo'[i] = o[Len(page') + i]
    <3>1. ASSUME NEW i \in 1 .. m - 1 PROVE todo'[i] = o[(n + 1) + i]
      <4>1. todo'[i] = todo[i + 1] /\ i + 1 \in 1 .. m
        BY <2>2
      <4>2. todo[i + 1] = o[n + (i + 1)]
        BY <1>3, <4>1 DEF n, m
      <4>3. n + (i + 1) = (n + 1) + i
        BY <2>4
      <4> QED BY <4>1, <4>2, <4>3
    <3> QED BY <2>2, <2>4, <3>1
  <2>7. \A i \in 1 .. Len(page') : AsOpened(page'[i], o[i])
    <3>1. ASSUME NEW i \in 1 .. n + 1 PROVE AsOpened(page'[i], o[i])
      <4>1. CASE i <= n
        <5>1. i \in 1 .. n /\ page'[i] = page[i]
          BY <2>4, <4>1
        <5> QED BY <1>3, <5>1 DEF n
      <4>2. CASE ~ (i <= n)
        <5>1. i = n + 1 /\ page'[i] = Item
          BY <2>4, <4>2
        <5>2. e = o[n + 1]
          BY <1>3, <2>2 DEF n, m
        <5> QED BY <2>3, <5>1, <5>2
      <4> QED BY <4>1, <4>2
    <3> QED BY <2>4, <3>1
  <2>8. web' = "page"
    BY <1>1, <2>1
  <2>9. \A i \in 1 .. Len(page') : AsOpened(page[i], OpenedItems[i])'
    BY <1>2, <2>7 DEF AsOpened
  <2> QED BY <1>2, <2>4, <2>5, <2>6, <2>8, <2>9 DEF FileInv
<1> QED BY <1>5, <1>6

LEMMA FileAlways == Spec => []FileInv
<1>1. ASSUME WebInv, PageInv, FileInv, [Next]_vars PROVE FileInv'
  <2>1. CASE WebRead
    <3>1. web = "reading" /\ req' = req
          /\ (HandleGet \/ UNCHANGED <<web, client, song, todo, page>>)
      BY <2>1 DEF WebRead
    <3> QED BY <1>1, <3>1, HandleGetFile, FileKept
  <2>2. CASE WebItem
    BY <1>1, <2>2, WebItemFile
  <2>3. CASE SlimRead \/ SlimMessage \/ UNCHANGED vars
    <3>1. UNCHANGED http
      BY <2>3 DEF SlimRead, SlimMessage, vars
    <3> QED BY <1>1, <3>1, FileKept DEF http
  <2> QED BY <1>1, <2>1, <2>2, <2>3 DEF Next
<1> QED BY <1>1, FileInit, WebAlways, PageAlways, PTL DEF Spec

(* What is told of a token has no value yet, or is text.                   *)
LEMMA ShownIs ==
  ASSUME NEW t, NEW i
  PROVE  Shown(t, i) = [key |-> Shown(t, i).key, val |-> Shown(t, i).val]
         /\ (Shown(t, i).key = "" \/ Shown(t, i).val = <<>>)
<1> DEFINE k == Keyword(SubSeq(t, Max({j \in 1 .. i - 1 : Opens(t, j)}) + 1, i - 1))
<1>1. \/ Shown(t, i) = [key |-> "", val |-> <<t[i]>>]
      \/ Shown(t, i) = [key |-> "", val |-> <<"#">>]
      \/ Shown(t, i) = [key |-> k, val |-> <<>>]
  BY DEF Shown
<1>2. ASSUME NEW x, NEW a, NEW b, x = [key |-> a, val |-> b]
      PROVE  x = [key |-> x.key, val |-> x.val] /\ x.key = a /\ x.val = b
  <2>1. x.key = a /\ x.val = b
    BY <1>2
  <2> QED BY <1>2, <2>1
<1> DEFINE x == Shown(t, i)
<1>3. \/ x = [key |-> "", val |-> <<t[i]>>]
      \/ x = [key |-> "", val |-> <<"#">>]
      \/ x = [key |-> k, val |-> <<>>]
  BY <1>1
<1> HIDE DEF k, x
<1>4. x = [key |-> x.key, val |-> x.val] /\ (x.key = "" \/ x.val = <<>>)
  BY <1>2, <1>3
<1> QED BY <1>4 DEF x

LEMMA Revalued ==
  ASSUME NEW k, NEW v, NEW u
  PROVE  [[key |-> k, val |-> v] EXCEPT !.val = u] = [key |-> k, val |-> u]
OBVIOUS

LEMMA UnfilledIs ==
  ASSUME NEW e, NEW o, o = [key |-> o.key, val |-> o.val], o.key = "" \/ o.val = <<>>,
         FileOf.kind # "dir", AsOpened(e, o)
  PROVE  Unfilled(e) = o
<1> DEFINE k == o.key  w == o.val  v == e.val
<1>1. CASE k = ""
  BY <1>1 DEF AsOpened, Unfilled
<1>2. CASE k # ""
  <2>1. o = [key |-> k, val |-> <<>>]
    BY <1>2
  <2>2. e = [key |-> k, val |-> v]
    BY <1>2 DEF AsOpened
  <2> HIDE DEF k, v
  <2>3. e.key = k
    BY <2>2
  <2>5. [[key |-> k, val |-> v] EXCEPT !.val = <<>>] = [key |-> k, val |-> <<>>]
    BY Revalued
  <2>4. [e EXCEPT !.val = <<>>] = [key |-> k, val |-> <<>>]
    BY <2>2, <2>5
  <2> QED BY <1>2, <2>1, <2>3, <2>4 DEF Unfilled
<1> QED BY <1>1, <1>2

LEMMA FileGives ==
  ASSUME WebInv, FileInv
  PROVE  PageIsTheFile
<1> SUFFICES ASSUME web = "sent", req.root \in {"html", "data"}, req.exact, req.file \in DOMAIN Files
             PROVE  CASE Files[req.file].kind = "text" -> IsFilled(page, Files[req.file].body)
                      [] Files[req.file].kind = "raw" -> page = Text(Files[req.file].body)
                      [] Files[req.file].kind = "dir" ->
                           \A i \in 1 .. Len(Files[req.file].body) : \E k \in 1 .. Len(page) :
                             \E j \in 1 .. Len(page[k].val) :
                               page[k].val[j] = Files[req.file].body[i].url
  BY DEF PageIsTheFile
<1> DEFINE f == Files[req.file]
           o == OpenedItems
<1>1. FileOf = f
  BY DEF FileOf
<1>2. /\ Items(page) /\ todo = <<>> /\ Len(o) = Len(page) + Len(todo)
      /\ \A i \in 1 .. Len(page) : AsOpened(page[i], o[i])
  BY DEF FileInv
<1>3. Len(page) \in Nat /\ page = [i \in 1 .. Len(page) |-> page[i]]
  BY <1>2 DEF Items
<1>4. Len(o) = Len(page)
  <2>1. Len(<<>>) = 0
    OBVIOUS
  <2> HIDE DEF o
  <2> QED BY <1>2, <1>3, <2>1
<1>5. \/ f.kind \in {"text", "raw"} /\ f.body \in Seq(STRING)
      \/ f.kind = "dir" /\ f.body \in Seq(Name)
  BY InputAssumption
<1>6. ASSUME f.kind = "text" PROVE IsFilled(page, f.body)
  <2> DEFINE t == f.body
             s == Segments(t)
  <2>1. o = s
    BY <1>1, <1>6 DEF OpenedItems
  <2>2. t \in Seq(STRING) /\ FileOf.kind # "dir"
    BY <1>1, <1>5, <1>6
  <2>3. /\ Len(s) = Place(t, Len(t))
        /\ \A i \in 1 .. Len(t) : Shows(t, i) =>
             Place(t, i) \in 1 .. Len(s) /\ s[Place(t, i)] = Shown(t, i)
    BY <2>2, SegmentsFilled
  <2> HIDE DEF t, s, o
  <2>4. ASSUME NEW i \in 1 .. Len(t), Shows(t, i) PROVE Unfilled(page[Place(t, i)]) = Shown(t, i)
    <3>1. Place(t, i) \in 1 .. Len(page) /\ o[Place(t, i)] = Shown(t, i)
      BY <1>4, <2>1, <2>3, <2>4
    <3>2. AsOpened(page[Place(t, i)], Shown(t, i))
      BY <1>2, <3>1
    <3> DEFINE e == page[Place(t, i)]
               x == Shown(t, i)
    <3> HIDE DEF e, x
    <3>3. x = [key |-> x.key, val |-> x.val] /\ (x.key = "" \/ x.val = <<>>)
      BY ShownIs DEF x
    <3>4. AsOpened(e, x)
      BY <3>2 DEF e, x
    <3>5. Unfilled(e) = x
      BY <2>2, <3>3, <3>4, UnfilledIs
    <3> QED BY <3>5 DEF e, x
  <2>5. Len(page) = Place(t, Len(t))
    BY <1>4, <2>1, <2>3
  <2> QED BY <2>4, <2>5 DEF IsFilled, t
<1>7. ASSUME f.kind = "raw" PROVE page = Text(f.body)
  <2> DEFINE b == f.body
             s == Text(b)
  <2>1. o = s
    BY <1>1, <1>7 DEF OpenedItems
  <2>2. Len(b) \in Nat
    BY <1>5, <1>7
  <2>3. Len(s) = Len(b) /\ \A i \in 1 .. Len(b) : s[i].key = ""
    BY <2>2, TextIs
  <2>4. s = [i \in 1 .. Len(b) |-> s[i]]
    BY DEF Text
  <2> HIDE DEF b, s, o
  <2>5. \A i \in 1 .. Len(page) : page[i] = s[i]
    BY <1>2, <1>4, <2>1, <2>3 DEF AsOpened
  <2>6. page = s
    BY <1>3, <1>4, <2>1, <2>3, <2>4, <2>5
  <2> QED BY <2>6 DEF s, b
<1>8. ASSUME f.kind = "dir", NEW i \in 1 .. Len(f.body)
      PROVE  \E k \in 1 .. Len(page) : \E j \in 1 .. Len(page[k].val) : page[k].val[j] = f.body[i].url
  <2> DEFINE s == Segments(DirTemplate)
             n == Len(s)
             v == DirValue(req.file, f.body, "filelist")
  <2>1. o = [k \in 1 .. n |-> IF s[k].key = "" THEN s[k]
                              ELSE [s[k] EXCEPT !.val = DirValue(req.file, f.body, s[k].key)]]
    BY <1>1, <1>8 DEF OpenedItems, Filled
  <2>2. s \in Seq(Entry) /\ n \in Nat /\ DOMAIN s = 1 .. n
    BY WordsAssumption, SegmentsAre
  <2>3. PICK k \in 1 .. n : s[k].key = "filelist"
    BY <2>2, DirTemplateAssumption DEF HasKey
  <2>4. f.body \in Seq(Name)
    BY <1>5, <1>8
  <2>5. \E j \in 1 .. Len(v) : v[j] = f.body[i].url
    BY <1>8, <2>4, FilesListed
  <2>6. Len(o) = n
    <3> DEFINE B == {o[m] : m \in 1 .. n}
    <3>1. o \in [1 .. n -> B]
      BY <2>1
    <3> HIDE DEF o, n, s, B
    <3> QED BY <2>2, <3>1, SeqDef
  <2>7. o[k] = [s[k] EXCEPT !.val = v]
    BY <2>1, <2>3
  <2>8. s[k] \in Entry
    BY <2>2, ElementOfSeq
  <2>9. page[k] = o[k]
    <3> HIDE DEF o, n
    <3>1. k \in 1 .. Len(page)
      BY <1>4, <2>6
    <3> QED BY <1>1, <1>2, <1>8, <3>1 DEF AsOpened
  <2> HIDE DEF o, n, s, v
  <2>10. page[k].val = v
    <3> DEFINE e == s[k]
    <3>1. [e EXCEPT !.val = v].val = v
      BY <2>8 DEF Entry
    <3> HIDE DEF e
    <3> QED BY <2>7, <2>9, <3>1 DEF e
  <2>11. k \in 1 .. Len(page)
    BY <1>4, <2>6
  <2> QED BY <2>5, <2>10, <2>11
<1> QED BY <1>5, <1>6, <1>7, <1>8

(* A page that was sent is the file that was asked for: its text with each *)
(* mark filled, the file as it is, or a list that names what is in the     *)
(* directory (generateData, dHtmlVFS).                                     *)
THEOREM PagesAreFiles == Spec => []PageIsTheFile
<1> QED BY WebAlways, FileAlways, FileGives, PTL
=============================================================================
