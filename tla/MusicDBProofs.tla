--------------------------- MODULE MusicDBProofs ---------------------------
(***************************************************************************)
(* For any libraries whose records and offsets fit the files, any sorted   *)
(* fields, and kills and changes in any order and number: the numbers in a *)
(* table are those of entries, what is read is what a scan wrote, and      *)
(* without a kill it is all of it, sorted.  A search of a sorted table     *)
(* finds what begins with the match, and a group of it that is added       *)
(* brings what was found.                                                  *)
(*                                                                         *)
(* For any files: what the scan learns of each by its tags and its header. *)
(* The two modules share no variable.                                      *)
(***************************************************************************)
EXTENDS MusicDB, FileInfo, FiniteSetTheorems, SequenceTheorems, WellFoundedInduction, TLAPS

Entry == [FieldSet -> Strings]

-----------------------------------------------------------------------------
(* The least-number principle, and induction over a set of numbers.        *)
LEMMA LeastNumber ==
  ASSUME NEW S, S \subseteq Nat, S # {}
  PROVE  \E m \in S : \A n \in S : m <= n
<1> DEFINE R == OpToRel(<, Nat)
<1>1. IsWellFoundedOn(R, Nat)
  BY NatLessThanWellFounded
<1>2. \A m, n \in Nat : <<n, m>> \in R <=> n < m
  BY DEF OpToRel
<1> HIDE DEF R
<1>3. PICK m \in S : \A n \in S : ~ (<<n, m>> \in R)
  BY <1>1, WFMin
<1>4. ASSUME NEW n \in S PROVE m <= n
  <2>1. m \in Nat /\ n \in Nat
    OBVIOUS
  <2>2. ~ (n < m)
    BY <1>2, <1>3, <2>1, Zenon
  <2> QED BY <2>1, <2>2
<1> QED BY <1>4

LEMMA NumbersFromZero ==
  ASSUME NEW T, 0 \in T, \A n \in Nat : n \in T => n + 1 \in T
  PROVE  Nat \subseteq T
<1> SUFFICES ASSUME Nat \ T # {} PROVE FALSE
  OBVIOUS
<1>1. PICK m \in Nat \ T : \A n \in Nat \ T : m <= n
  BY LeastNumber
<1>2. m - 1 \in Nat /\ m - 1 \in T
  BY <1>1
<1> QED BY <1>1, <1>2

-----------------------------------------------------------------------------
(* Positions of lo .. hi, of which the first are before what is looked for: *)
(* the binary search ends behind the last of them.                         *)
Parts(lo, hi) == {r \in (lo .. hi) \X (0 .. hi - lo) : r[1] + r[2] <= hi}

Halved(before, f, r) ==
  LET first == r[1]  count == r[2]  half == count \div 2
  IN  IF count = 0 THEN first
      ELSE IF first + half + 1 \in before
           THEN f[<<first + half + 1, count - half - 1>>]
           ELSE f[<<first, half>>]

LEMMA Halves ==
  ASSUME NEW lo \in Nat, NEW hi \in Nat, NEW r \in Parts(lo, hi), r[2] # 0
  PROVE  LET half == r[2] \div 2
         IN  /\ half \in Nat /\ half < r[2]
             /\ r[1] \in Nat /\ r[2] \in Nat /\ r[1] + r[2] <= hi /\ lo <= r[1]
             /\ <<r[1], half>> \in Parts(lo, hi)
             /\ <<r[1] + half + 1, r[2] - half - 1>> \in Parts(lo, hi)
<1> DEFINE half == r[2] \div 2
<1>1. r[1] \in lo .. hi /\ r[2] \in 0 .. hi - lo /\ r[1] + r[2] <= hi
  BY DEF Parts
<1>2. half \in Nat /\ half < r[2]
  BY <1>1
<1> HIDE DEF half
<1>3. <<r[1], half>> \in Parts(lo, hi)
  BY <1>1, <1>2 DEF Parts
<1>4. <<r[1] + half + 1, r[2] - half - 1>> \in Parts(lo, hi)
  BY <1>1, <1>2 DEF Parts
<1> QED BY <1>1, <1>2, <1>3, <1>4 DEF half

LEMMA SearchExists ==
  ASSUME NEW lo \in Nat, NEW hi \in Nat, lo <= hi, NEW before
  PROVE  \E f : f = [r \in Parts(lo, hi) |-> Halved(before, f, r)]
<1> DEFINE D == Parts(lo, hi)
           T == {m \in Nat : \E f \in [D -> lo .. hi] :
                   \A r \in D : r[2] <= m => f[r] = Halved(before, f, r)}
<1>1. \A r \in D : r[1] \in lo .. hi /\ r[2] \in 0 .. hi - lo
  BY DEF Parts
<1>2. 0 \in T
  <2> DEFINE f == [r \in D |-> r[1]]
  <2>1. f \in [D -> lo .. hi]
    BY <1>1
  <2>2. \A r \in D : r[2] <= 0 => f[r] = Halved(before, f, r)
    BY <1>1 DEF Halved
  <2> HIDE DEF f, D
  <2> QED BY <2>1, <2>2
<1>3. ASSUME NEW m \in Nat, m \in T PROVE m + 1 \in T
  <2>1. PICK f \in [D -> lo .. hi] : \A r \in D : r[2] <= m => f[r] = Halved(before, f, r)
    BY <1>3
  <2> DEFINE g == [r \in D |-> IF r[2] <= m THEN f[r] ELSE Halved(before, f, r)]
  <2>2. \A r \in D : Halved(before, f, r) \in lo .. hi
    <3> SUFFICES ASSUME NEW r \in D PROVE Halved(before, f, r) \in lo .. hi
      OBVIOUS
    <3>1. CASE r[2] = 0
      BY <1>1, <3>1 DEF Halved
    <3>2. CASE r[2] # 0
      <4> HIDE DEF D
      <4>1. LET half == r[2] \div 2
            IN  <<r[1], half>> \in D /\ <<r[1] + half + 1, r[2] - half - 1>> \in D
        BY <3>2, Halves DEF D
      <4> QED BY <2>1, <3>2, <4>1 DEF Halved
    <3> QED BY <3>1, <3>2
  <2>3. g \in [D -> lo .. hi]
    <3> HIDE DEF D
    <3> QED BY <2>1, <2>2
  <2>4. ASSUME NEW r \in D, r[2] <= m + 1
        PROVE  Halved(before, g, r) = Halved(before, f, r)
    <3>1. CASE r[2] = 0
      BY <3>1 DEF Halved
    <3>2. CASE r[2] # 0
      <4> DEFINE half == r[2] \div 2
      <4>1. /\ half \in Nat /\ half < r[2] /\ r[2] \in Nat
            /\ <<r[1], half>> \in D /\ <<r[1] + half + 1, r[2] - half - 1>> \in D
        BY <3>2, Halves
      <4> HIDE DEF half, D
      <4>2. half <= m /\ r[2] - half - 1 <= m
        BY <2>4, <4>1
      <4>3. /\ g[<<r[1], half>>] = f[<<r[1], half>>]
            /\ g[<<r[1] + half + 1, r[2] - half - 1>>] = f[<<r[1] + half + 1, r[2] - half - 1>>]
        BY <4>1, <4>2
      <4> HIDE DEF g
      <4> QED BY <3>2, <4>3 DEF Halved, half
    <3> QED BY <3>1, <3>2
  <2>5. ASSUME NEW r \in D, r[2] <= m + 1
        PROVE  g[r] = Halved(before, g, r)
    <3>1. g[r] = Halved(before, f, r)
      <4> HIDE DEF D
      <4> QED BY <2>1
    <3> HIDE DEF g
    <3> QED BY <2>4, <2>5, <3>1
  <2> HIDE DEF g, D
  <2> QED BY <2>3, <2>5
<1>4. hi - lo \in T
  <2> HIDE DEF T
  <2>1. Nat \subseteq T
    BY <1>2, <1>3, NumbersFromZero
  <2> QED BY <2>1
<1>5. PICK f \in [D -> lo .. hi] : \A r \in D : r[2] <= hi - lo => f[r] = Halved(before, f, r)
  BY <1>4
<1>6. f = [r \in D |-> Halved(before, f, r)]
  <2>1. \A r \in D : f[r] = Halved(before, f, r)
    BY <1>1, <1>5
  <2> HIDE DEF D
  <2> QED BY <2>1
<1> QED BY <1>6

LEMMA BinSearchFinds ==
  ASSUME NEW lo \in Nat, NEW hi \in Nat, lo <= hi, NEW before
  PROVE  LET s == BinSearch(before, lo, hi)
         IN  /\ s \in lo .. hi
             /\ (\A i, j \in lo + 1 .. hi : i < j /\ j \in before => i \in before)
                  => /\ \A i \in lo + 1 .. s : i \in before
                     /\ \A i \in s + 1 .. hi : i \notin before
<1> DEFINE D == Parts(lo, hi)
           search == CHOOSE f : f = [r \in D |-> Halved(before, f, r)]
           First == \A i, j \in lo + 1 .. hi : i < j /\ j \in before => i \in before
           Splits(r, s) == /\ \A i \in r[1] + 1 .. s : i \in before
                           /\ \A i \in s + 1 .. r[1] + r[2] : i \notin before
           Right(r, s) == s \in r[1] .. r[1] + r[2] /\ (First => Splits(r, s))
           T == {m \in Nat : \A r \in D : r[2] <= m => Right(r, search[r])}
<1>1. search = [r \in D |-> Halved(before, search, r)]
  BY SearchExists
<1>2. BinSearch(before, lo, hi) = search[<<lo, hi - lo>>]
  BY DEF BinSearch, Parts, Halved
<1> HIDE DEF search
<1>3. \A r \in D : search[r] = Halved(before, search, r)
  BY <1>1
<1>4. 0 \in T
  <2> SUFFICES ASSUME NEW r \in D, r[2] <= 0 PROVE Right(r, search[r])
    OBVIOUS
  <2>1. r[2] = 0 /\ r[1] \in Nat
    BY DEF Parts
  <2>2. search[r] = r[1]
    BY <1>3, <2>1 DEF Halved
  <2> QED BY <2>1, <2>2
<1>5. ASSUME NEW m \in Nat, m \in T PROVE m + 1 \in T
  <2> SUFFICES ASSUME NEW r \in D, r[2] <= m + 1, r[2] # 0 PROVE Right(r, search[r])
    BY <1>4 DEF Parts
  <2> DEFINE half == r[2] \div 2
             low == <<r[1], half>>
             high == <<r[1] + half + 1, r[2] - half - 1>>
  <2>1. /\ half \in Nat /\ half < r[2] /\ low \in D /\ high \in D
        /\ r[1] \in Nat /\ r[2] \in Nat /\ r[1] + r[2] <= hi /\ lo <= r[1]
    BY Halves
  <2>2. search[r] = IF r[1] + half + 1 \in before THEN search[high] ELSE search[low]
    BY <1>3 DEF Halved
  <2>3. low[2] <= m /\ high[2] <= m
    BY <2>1
  <2>4. Right(low, search[low]) /\ Right(high, search[high])
    BY <1>5, <2>1, <2>3
  <2> HIDE DEF half, D
  <2>5. CASE r[1] + half + 1 \in before
    <3>1. First => \A i \in r[1] + 1 .. r[1] + half + 1 : i \in before
      BY <2>1, <2>5
    <3> HIDE DEF First
    <3>2. search[high] \in r[1] + half + 1 .. r[1] + r[2] /\ search[r] = search[high]
      BY <2>1, <2>2, <2>4, <2>5
    <3>3. First => Splits(r, search[r])
      BY <2>1, <2>4, <3>1, <3>2
    <3> QED BY <2>1, <3>2, <3>3
  <2>6. CASE r[1] + half + 1 \notin before
    <3>1. First => \A i \in r[1] + half + 1 .. r[1] + r[2] : i \notin before
      BY <2>1, <2>6
    <3> HIDE DEF First
    <3>2. search[low] \in r[1] .. r[1] + half /\ search[r] = search[low]
      BY <2>1, <2>2, <2>4, <2>6
    <3>3. First => Splits(r, search[r])
      BY <2>1, <2>4, <3>1, <3>2
    <3> QED BY <2>1, <3>2, <3>3
  <2> QED BY <2>5, <2>6
<1>6. hi - lo \in T
  <2> HIDE DEF T
  <2>1. Nat \subseteq T
    BY <1>4, <1>5, NumbersFromZero
  <2> QED BY <2>1
<1>7. <<lo, hi - lo>> \in D
  BY DEF Parts
<1>8. Right(<<lo, hi - lo>>, search[<<lo, hi - lo>>])
  BY <1>6, <1>7
<1> QED BY <1>2, <1>8

-----------------------------------------------------------------------------
(* strncasecmp: what is compared of a string, and the order of two.        *)
Key(s, len) == Lower(Cut(s, len))

Precedes(x, y) ==
  \E k \in 1 .. Len(y) : /\ \A i \in 1 .. k - 1 : i <= Len(x) /\ x[i] = y[i]
                         /\ k <= Len(x) => x[k] < y[k]

LEMMA LessIsPrecedes ==
  ASSUME NEW a, NEW b, NEW len
  PROVE  Less(a, b, len) <=> Precedes(Key(a, len), Key(b, len))
BY DEF Less, Precedes, Key

LEMMA KeyOf ==
  ASSUME NEW s \in Seq(Nat), NEW len \in Nat
  PROVE  /\ Key(s, len) \in Seq(Nat)
         /\ Len(Key(s, len)) = IF len < Len(s) THEN len ELSE Len(s)
         /\ \A i \in 1 .. Len(Key(s, len)) : Key(s, len)[i] = s[i] % 10
<1> DEFINE n == IF len < Len(s) THEN len ELSE Len(s)
           c == Cut(s, len)
<1>1. n \in Nat /\ n <= Len(s)
  OBVIOUS
<1>2. c \in Seq(Nat) /\ Len(c) = n /\ \A i \in 1 .. n : c[i] = s[i]
  <2>1. \A i \in 1 .. n : s[i] \in Nat
    BY <1>1, ElementOfSeq
  <2> HIDE DEF n
  <2>2. c = SubSeq(s, 1, n)
    BY DEF Cut, n
  <2> HIDE DEF c
  <2> QED BY <1>1, <2>1, <2>2, SubSeqProperties
<1> HIDE DEF n, c
<1>3. DOMAIN c = 1 .. n
  BY <1>1, <1>2
<1>4. Key(s, len) = [i \in 1 .. n |-> c[i] % 10]
  BY <1>3 DEF Key, Lower, c
<1>5. \A i \in 1 .. n : c[i] % 10 \in Nat
  BY <1>2
<1>6. [i \in 1 .. n |-> c[i] % 10] \in Seq(Nat)
  BY <1>1, <1>5
<1>7. Len(Key(s, len)) = n
  BY <1>1, <1>4
<1>8. \A i \in 1 .. n : Key(s, len)[i] = s[i] % 10
  BY <1>2, <1>4
<1> QED BY <1>4, <1>6, <1>7, <1>8 DEF n

LEMMA PrecedesTotal ==
  ASSUME NEW x \in Seq(Nat), NEW y \in Seq(Nat), ~ Precedes(x, y), ~ Precedes(y, x)
  PROVE  x = y
<1> DEFINE S == {k \in Nat \ {0} : k > Len(x) \/ k > Len(y) \/ x[k] # y[k]}
<1>1. Len(x) + 1 \in S
  OBVIOUS
<1>2. PICK k \in S : \A n \in S : k <= n
  <2> HIDE DEF S
  <2>1. S # {}
    BY <1>1
  <2>2. S \subseteq Nat
    BY DEF S
  <2> QED BY <2>1, <2>2, LeastNumber
<1>3. \A i \in 1 .. k - 1 : i <= Len(x) /\ i <= Len(y) /\ x[i] = y[i]
  <2> SUFFICES ASSUME NEW i \in 1 .. k - 1 PROVE i \notin S
    OBVIOUS
  <2> QED BY <1>2
<1>4. k > Len(x)
  <2> SUFFICES ASSUME k <= Len(x), k <= Len(y), x[k] # y[k] PROVE FALSE
    BY <1>3, SMTT(30) DEF Precedes
  <2>1. k \in 1 .. Len(x) /\ k \in 1 .. Len(y)
    OBVIOUS
  <2>2. x[k] \in Nat /\ y[k] \in Nat
    BY <2>1, ElementOfSeq
  <2> HIDE DEF S
  <2>3. x[k] < y[k] => Precedes(x, y)
    BY <1>3, <2>1 DEF Precedes
  <2>4. y[k] < x[k] => Precedes(y, x)
    BY <1>3, <2>1 DEF Precedes
  <2> QED BY <2>2, <2>3, <2>4
<1>5. k > Len(y)
  <2> SUFFICES ASSUME k <= Len(y) PROVE Precedes(x, y)
    OBVIOUS
  <2>1. k \in 1 .. Len(y)
    OBVIOUS
  <2> HIDE DEF S
  <2> QED BY <1>3, <1>4, <2>1, SMTT(30) DEF Precedes
<1>6. Len(x) = k - 1 /\ Len(y) = k - 1
  <2>1. k - 1 \in Nat
    OBVIOUS
  <2>2. k - 1 = 0 \/ (k - 1 <= Len(x) /\ k - 1 <= Len(y))
    BY <1>3, <2>1
  <2> QED BY <1>4, <1>5, <2>1, <2>2
<1> HIDE DEF S
<1> QED BY <1>3, <1>6, SeqEqual

LEMMA PrecedesTransitive ==
  ASSUME NEW x \in Seq(Nat), NEW y \in Seq(Nat), NEW z \in Seq(Nat),
         Precedes(x, y), Precedes(y, z)
  PROVE  Precedes(x, z)
<1>1. PICK k \in 1 .. Len(y) : /\ \A i \in 1 .. k - 1 : i <= Len(x) /\ x[i] = y[i]
                               /\ k <= Len(x) => x[k] < y[k]
  BY DEF Precedes
<1>2. PICK l \in 1 .. Len(z) : /\ \A i \in 1 .. l - 1 : i <= Len(y) /\ y[i] = z[i]
                               /\ l <= Len(y) => y[l] < z[l]
  BY DEF Precedes
<1> DEFINE m == IF k < l THEN k ELSE l
<1>3. m \in 1 .. Len(z)
  OBVIOUS
<1>4. \A i \in 1 .. m - 1 : i <= Len(x) /\ x[i] = z[i]
  BY <1>1, <1>2
<1>5. m <= Len(x) => x[m] < z[m]
  <2> SUFFICES ASSUME m <= Len(x) PROVE x[m] < z[m]
    OBVIOUS
  <2>1. m \in 1 .. Len(y) /\ m \in 1 .. Len(x)
    BY <1>3
  <2>2. x[m] \in Nat /\ y[m] \in Nat /\ z[m] \in Nat
    BY <1>3, <2>1, ElementOfSeq
  <2>3. CASE k < l
    <3>1. x[k] < y[k] /\ y[k] = z[k]
      BY <1>1, <1>2, <2>1, <2>3
    <3> QED BY <2>3, <3>1
  <2>4. CASE k = l
    <3>1. x[k] < y[k] /\ y[k] < z[k]
      BY <1>1, <1>2, <2>1, <2>4
    <3> QED BY <2>2, <2>4, <3>1, SMTT(30)
  <2>5. CASE l < k
    <3>1. x[l] = y[l] /\ y[l] < z[l]
      BY <1>1, <1>2, <2>1, <2>5
    <3> QED BY <2>5, <3>1
  <2> QED BY <2>3, <2>4, <2>5
<1> QED BY <1>3, <1>4, <1>5 DEF Precedes

(* What precedes in a part of the characters precedes in more of them.     *)
LEMMA PrecedesLonger ==
  ASSUME NEW a \in Seq(Nat), NEW b \in Seq(Nat), NEW len \in Nat, NEW more \in Nat,
         len <= more, Precedes(Key(a, len), Key(b, len))
  PROVE  Precedes(Key(a, more), Key(b, more))
<1> DEFINE x == Key(a, len)  y == Key(b, len)  u == Key(a, more)  v == Key(b, more)
<1>1. /\ Len(x) = IF len < Len(a) THEN len ELSE Len(a)
      /\ Len(u) = IF more < Len(a) THEN more ELSE Len(a)
      /\ Len(y) = IF len < Len(b) THEN len ELSE Len(b)
      /\ Len(v) = IF more < Len(b) THEN more ELSE Len(b)
  BY KeyOf
<1>2. /\ \A i \in 1 .. Len(x) : x[i] = a[i] % 10
      /\ \A i \in 1 .. Len(u) : u[i] = a[i] % 10
      /\ \A i \in 1 .. Len(y) : y[i] = b[i] % 10
      /\ \A i \in 1 .. Len(v) : v[i] = b[i] % 10
  BY KeyOf
<1>3. PICK k \in 1 .. Len(y) : /\ \A i \in 1 .. k - 1 : i <= Len(x) /\ x[i] = y[i]
                               /\ k <= Len(x) => x[k] < y[k]
  BY DEF Precedes
<1> HIDE DEF x, y, u, v
<1>4. Len(a) \in Nat /\ Len(b) \in Nat
  OBVIOUS
<1>5. /\ Len(x) <= Len(u) /\ Len(y) <= Len(v) /\ k <= len
      /\ Len(x) < k => Len(u) = Len(x)
      /\ Len(x) \in Nat /\ Len(u) \in Nat /\ Len(y) \in Nat /\ Len(v) \in Nat
  BY <1>1, <1>4
<1>6. k \in 1 .. Len(v)
  BY <1>5
<1>7. ASSUME NEW i \in 1 .. k - 1 PROVE i <= Len(u) /\ u[i] = v[i]
  <2>1. i \in 1 .. Len(x) /\ i \in 1 .. Len(u) /\ i \in 1 .. Len(y) /\ i \in 1 .. Len(v)
    BY <1>3, <1>5
  <2>2. x[i] = u[i] /\ y[i] = v[i] /\ x[i] = y[i]
    BY <1>2, <1>3, <2>1
  <2> QED BY <2>1, <2>2
<1>8. ASSUME k <= Len(u) PROVE u[k] < v[k]
  <2>1. k \in 1 .. Len(x) /\ k \in 1 .. Len(u) /\ k \in 1 .. Len(y) /\ k \in 1 .. Len(v)
    BY <1>5, <1>8
  <2>2. x[k] = u[k] /\ y[k] = v[k] /\ x[k] < y[k]
    BY <1>2, <1>3, <2>1
  <2> QED BY <2>2
<1> QED BY <1>6, <1>7, <1>8 DEF Precedes, u, v

(* Neither below the match nor above it, in as many characters as it has,  *)
(* is what begins with it.                                                 *)
BeginsWith(s, match) == IsPrefix(Lower(match), Lower(s))

LEMMA BeginsWithKey ==
  ASSUME NEW s \in Seq(Nat), NEW match \in Seq(Nat)
  PROVE  BeginsWith(s, match) <=> Key(s, Len(match)) = Key(match, Len(match))
<1> DEFINE n == Len(match)
           x == Key(s, n)
           y == Key(match, n)
           p == Lower(match)
           q == Lower(s)
<1>1. n \in Nat /\ Len(s) \in Nat
  OBVIOUS
<1>2. /\ x \in Seq(Nat) /\ Len(x) = IF n < Len(s) THEN n ELSE Len(s)
      /\ \A i \in 1 .. Len(x) : x[i] = s[i] % 10
      /\ y \in Seq(Nat) /\ Len(y) = n /\ \A i \in 1 .. n : y[i] = match[i] % 10
  BY KeyOf
<1>3. /\ p \in Seq(Nat) /\ Len(p) = n /\ \A i \in 1 .. n : p[i] = match[i] % 10
      /\ q \in Seq(Nat) /\ Len(q) = Len(s) /\ \A i \in 1 .. Len(s) : q[i] = s[i] % 10
  <2>1. ASSUME NEW r \in Seq(Nat)
        PROVE  Lower(r) \in Seq(Nat) /\ Len(Lower(r)) = Len(r)
               /\ \A i \in 1 .. Len(r) : Lower(r)[i] = r[i] % 10
    <3>1. Lower(r) = [i \in 1 .. Len(r) |-> r[i] % 10]
      BY DEF Lower
    <3>2. \A i \in 1 .. Len(r) : r[i] % 10 \in Nat
      BY ElementOfSeq
    <3> QED BY <3>1, <3>2
  <2> QED BY <2>1
<1> HIDE DEF n, x, y, p, q
<1>4. BeginsWith(s, match) <=> n <= Len(s) /\ \A i \in 1 .. n : p[i] = q[i]
  <2>1. BeginsWith(s, match) <=> n <= Len(s) /\ SubSeq(p, 1, n) = SubSeq(q, 1, n)
    BY <1>1, <1>3 DEF BeginsWith, IsPrefix, p, q
  <2> SUFFICES ASSUME n <= Len(s)
               PROVE  SubSeq(p, 1, n) = SubSeq(q, 1, n) <=> \A i \in 1 .. n : p[i] = q[i]
    BY <2>1
  <2>2. \A i \in 1 .. n : p[i] \in Nat /\ q[i] \in Nat
    <3> SUFFICES ASSUME NEW i \in 1 .. n PROVE p[i] \in Nat /\ q[i] \in Nat
      OBVIOUS
    <3>1. i \in 1 .. Len(p) /\ i \in 1 .. Len(q)
      BY <1>1, <1>3
    <3> QED BY <1>3, <3>1, ElementOfSeq
  <2>3. /\ SubSeq(p, 1, n) \in Seq(Nat) /\ Len(SubSeq(p, 1, n)) = n
        /\ \A i \in 1 .. n : SubSeq(p, 1, n)[i] = p[i]
        /\ SubSeq(q, 1, n) \in Seq(Nat) /\ Len(SubSeq(q, 1, n)) = n
        /\ \A i \in 1 .. n : SubSeq(q, 1, n)[i] = q[i]
    BY <1>1, <2>2, SubSeqProperties
  <2> QED BY <2>3, SeqEqual
<1>5. x = y <=> n <= Len(s) /\ \A i \in 1 .. n : s[i] % 10 = match[i] % 10
  <2>1. x = y <=> Len(x) = n /\ \A i \in 1 .. n : x[i] = y[i]
    BY <1>1, <1>2, SeqEqual
  <2> QED BY <1>1, <1>2, <2>1, SMTT(30)
<1> QED BY <1>1, <1>3, <1>4, <1>5, SMTT(30) DEF x, y, n

-----------------------------------------------------------------------------
LEMMA FieldIsString ==
  ASSUME NEW es \in Seq(Entry), NEW f \in FieldSet, NEW i \in 0 .. Len(es) - 1
  PROVE  Field(es, i, f) \in Strings
<1>1. i + 1 \in 1 .. Len(es)
  OBVIOUS
<1>2. es[i + 1] \in Entry
  BY <1>1, ElementOfSeq
<1> QED BY <1>2 DEF Field, Entry

(* A sorted table is sorted by as many characters as a match has.          *)
LEMMA TableAscends ==
  ASSUME NEW es \in Seq(Entry), NEW f \in FieldSet, NEW t \in SortedTables(es, f),
         NEW len \in Nat, len <= IntMax,
         NEW i \in 1 .. Len(es), NEW j \in 1 .. Len(es), i < j
  PROVE  /\ Field(es, t[i], f) \in Strings /\ Field(es, t[j], f) \in Strings
         /\ ~ Precedes(Key(Field(es, t[j], f), len), Key(Field(es, t[i], f), len))
<1> DEFINE a == Field(es, t[i], f)
           b == Field(es, t[j], f)
<1>1. t \in [1 .. Len(es) -> 0 .. Len(es) - 1] /\ Sorted(es, t, f)
  BY DEF SortedTables
<1>2. a \in Strings /\ b \in Strings
  BY <1>1, FieldIsString
<1>3. ~ Less(b, a, IntMax)
  BY <1>1 DEF Sorted
<1> HIDE DEF a, b
<1>4. ~ Precedes(Key(b, IntMax), Key(a, IntMax))
  BY <1>3, LessIsPrecedes
<1>5. IntMax \in Nat /\ a \in Seq(Nat) /\ b \in Seq(Nat)
  BY <1>2 DEF IntMax, Strings
<1>6. ~ Precedes(Key(b, len), Key(a, len))
  BY <1>4, <1>5, PrecedesLonger
<1> QED BY <1>2, <1>6 DEF a, b

(* dbQuery::find: of a part of a sorted table the positions whose field    *)
(* begins with the match.                                                  *)
LEMMA FindFinds ==
  ASSUME NEW es \in Seq(Entry), NEW f \in FieldSet, NEW t \in SortedTables(es, f),
         NEW match \in Strings,
         NEW lo \in 0 .. Len(es), NEW hi \in lo .. Len(es)
  PROVE  LET r == Find(es, t, <<lo, hi>>, f, match)
         IN  /\ r[1] \in lo .. hi /\ r[2] \in r[1] .. hi
             /\ \A k \in lo + 1 .. hi :
                  k \in r[1] + 1 .. r[2] <=> BeginsWith(Field(es, t[k], f), match)
<1> DEFINE n == Len(es)
           len == Len(match)
           m == Key(match, len)
           F(k) == Field(es, t[k], f)
           K(k) == Key(F(k), len)
           below == Below(es, t, f, match)
           notAbove == NotAbove(es, t, f, match)
           first == BinSearch(below, lo, hi)
           last == BinSearch(notAbove, first, hi)
<1>1. n \in Nat /\ len \in Nat /\ len <= IntMax /\ match \in Seq(Nat)
  BY DEF Strings, IntMax
<1>2. DOMAIN t = 1 .. n /\ t \in [1 .. n -> 0 .. n - 1]
  BY DEF SortedTables
<1>3. m \in Seq(Nat) /\ \A k \in 1 .. n : F(k) \in Seq(Nat) /\ K(k) \in Seq(Nat)
  BY <1>1, <1>2, FieldIsString, KeyOf DEF Strings
<1>4. \A i, j \in 1 .. n : i < j => ~ Precedes(K(j), K(i))
  BY <1>1, TableAscends
<1>5. \A k \in 1 .. n : /\ k \in below <=> Precedes(K(k), m)
                        /\ k \in notAbove <=> ~ Precedes(m, K(k))
                        /\ BeginsWith(F(k), match) <=> K(k) = m
  BY <1>1, <1>2, <1>3, LessIsPrecedes, BeginsWithKey DEF Below, NotAbove
<1>6. \A k \in 1 .. n : ~ Precedes(K(k), m) /\ ~ Precedes(m, K(k)) <=> K(k) = m
  <2>1. \A k \in 1 .. n : ~ Precedes(K(k), m) /\ ~ Precedes(m, K(k)) => K(k) = m
    BY <1>3, PrecedesTotal
  <2>2. ~ Precedes(m, m)
    BY <1>3, ElementOfSeq DEF Precedes
  <2> QED BY <2>1, <2>2
<1> HIDE DEF n, len, m, F, K, below, notAbove, first, last
<1>7. \A i, j \in 1 .. n : i < j /\ j \in below => i \in below
  <2> SUFFICES ASSUME NEW i \in 1 .. n, NEW j \in 1 .. n, i < j,
                      Precedes(K(j), m), ~ Precedes(K(i), m)
               PROVE  FALSE
    BY <1>5
  <2>1. K(i) = m \/ Precedes(m, K(i))
    BY <1>6
  <2>2. Precedes(K(j), K(i))
    BY <1>3, <2>1, PrecedesTransitive
  <2> QED BY <1>4, <2>2
<1>8. \A i, j \in 1 .. n : i < j /\ j \in notAbove => i \in notAbove
  <2> SUFFICES ASSUME NEW i \in 1 .. n, NEW j \in 1 .. n, i < j,
                      Precedes(m, K(i)), ~ Precedes(m, K(j))
               PROVE  FALSE
    BY <1>5
  <2>1. K(j) = K(i) \/ Precedes(K(i), K(j))
    BY <1>3, <1>4, PrecedesTotal
  <2>2. Precedes(m, K(j))
    BY <1>3, <2>1, PrecedesTransitive
  <2> QED BY <2>2
<1>9. n \in Nat /\ lo \in Nat /\ hi \in Nat /\ lo <= hi /\ hi <= n
  BY <1>1 DEF n
<1>10. /\ first \in lo .. hi
       /\ \A i \in lo + 1 .. first : i \in below
       /\ \A i \in first + 1 .. hi : i \notin below
  <2>1. \A i, j \in lo + 1 .. hi : i < j /\ j \in below => i \in below
    BY <1>7, <1>9
  <2> QED BY <1>9, <2>1, BinSearchFinds DEF first
<1>11. /\ last \in first .. hi
       /\ \A i \in first + 1 .. last : i \in notAbove
       /\ \A i \in last + 1 .. hi : i \notin notAbove
  <2>1. \A i, j \in first + 1 .. hi : i < j /\ j \in notAbove => i \in notAbove
    BY <1>8, <1>9, <1>10
  <2>2. first \in Nat /\ first <= hi
    BY <1>9, <1>10
  <2> QED BY <1>9, <2>1, <2>2, BinSearchFinds DEF last
<1>12. \A k \in 1 .. n : k \in below => k \in notAbove
  <2> SUFFICES ASSUME NEW k \in 1 .. n, Precedes(K(k), m), Precedes(m, K(k)) PROVE FALSE
    BY <1>5
  <2>1. Precedes(m, m)
    BY <1>3, PrecedesTransitive
  <2> QED BY <1>3, <2>1, ElementOfSeq, SMTT(30) DEF Precedes
<1>13. CASE match # <<>>
  <2>1. Find(es, t, <<lo, hi>>, f, match) = <<first, last>>
    BY <1>13 DEF Find, first, last, below, notAbove
  <2>2. ASSUME NEW k \in lo + 1 .. hi
        PROVE  k \in first + 1 .. last <=> BeginsWith(F(k), match)
    <3>1. k \in 1 .. n
      BY <1>9
    <3>2. k \in first + 1 .. last <=> k \notin below /\ k \in notAbove
      BY <1>9, <1>10, <1>11, <1>12, <3>1
    <3> QED BY <1>5, <1>6, <3>1, <3>2
  <2> QED BY <1>10, <1>11, <2>1, <2>2 DEF F
<1>14. CASE match = <<>>
  <2>1. Find(es, t, <<lo, hi>>, f, match) = <<lo, hi>>
    BY <1>14 DEF Find
  <2>2. \A k \in 1 .. n : BeginsWith(F(k), match)
    <3>1. len = 0
      BY <1>14 DEF len
    <3>2. \A k \in 1 .. n : Len(K(k)) = 0
      BY <1>3, <3>1, KeyOf DEF K
    <3>3. Len(m) = 0
      BY <1>1, <3>1, KeyOf DEF m
    <3>4. \A k \in 1 .. n : K(k) = m
      BY <1>3, <3>2, <3>3, SeqEqual
    <3> QED BY <1>5, <3>4
  <2>3. \A k \in lo + 1 .. hi : k \in 1 .. n
    BY <1>9
  <2> QED BY <1>9, <2>1, <2>2, <2>3 DEF F
<1> QED BY <1>13, <1>14

(* The entries of a part of a table.                                       *)
LEMMA FoundEntries ==
  ASSUME NEW t, NEW range \in Nat \X Nat
  PROVE  /\ \E T : Found(t, range) \in Seq(T)
         /\ \A i : i \in ToSet(Found(t, range)) <=> \E k \in range[1] + 1 .. range[2] : i = t[k]
<1> DEFINE a == range[1]
           b == range[2]
           S == {t[k] : k \in a + 1 .. b}
           s == SubSeq(t, a + 1, b)
<1> a \in Nat /\ b \in Nat
  OBVIOUS
<1>1. \A k \in a + 1 .. b : t[k] \in S
  OBVIOUS
<1>2. s = Found(t, range)
  BY DEF Found
<1> HIDE DEF S, a, b
<1>3. /\ s \in Seq(S) /\ Len(s) = IF a + 1 <= b THEN b - (a + 1) + 1 ELSE 0
      /\ \A i \in 1 .. b - (a + 1) + 1 : s[i] = t[a + 1 + i - 1]
  BY <1>1, SubSeqProperties
<1> HIDE DEF s
<1>4. Len(s) = (IF a <= b THEN b - a ELSE 0) /\ \A i \in 1 .. b - a : s[i] = t[a + i]
  BY <1>3
<1>5. DOMAIN s = 1 .. Len(s)
  BY <1>3
<1>6. ToSet(s) = S
  <2>1. ASSUME NEW i \in DOMAIN s PROVE s[i] \in S
    BY <1>3, <1>5, ElementOfSeq
  <2>2. ASSUME NEW k \in a + 1 .. b PROVE \E i \in DOMAIN s : s[i] = t[k]
    <3>1. k - a \in DOMAIN s /\ s[k - a] = t[a + (k - a)]
      BY <1>4, <1>5
    <3> QED BY <3>1
  <2> QED BY <2>1, <2>2 DEF ToSet, S
<1>7. \E T : s \in Seq(T)
  BY <1>3
<1> QED BY <1>2, <1>6, <1>7 DEF S, a, b

(* Every entry is in a sorted table.                                       *)
LEMMA TableHasAll ==
  ASSUME NEW es \in Seq(Entry), NEW f, NEW t \in SortedTables(es, f),
         NEW i \in 0 .. Len(es) - 1
  PROVE  \E k \in 1 .. Len(es) : t[k] = i
<1> DEFINE n == Len(es)
<1>1. n \in Nat
  OBVIOUS
<1>2. t \in Injection(1 .. n, 0 .. n - 1)
  BY DEF SortedTables, Injection
<1> HIDE DEF n
<1>3. IsFiniteSet(0 .. n - 1) /\ Cardinality(0 .. n - 1) = n /\ Cardinality(1 .. n) = n
  BY <1>1, FS_Interval
<1>4. t \in Surjection(1 .. n, 0 .. n - 1)
  BY <1>2, <1>3, FS_Injection
<1> QED BY <1>4 DEF Surjection, n, Range

(* Also of a table that is not sorted a search finds a part. *)
LEMMA FindInRange ==
  ASSUME NEW es, NEW f, NEW t, NEW match, NEW lo \in Nat, NEW hi \in Nat, lo <= hi
  PROVE  LET r == Find(es, t, <<lo, hi>>, f, match)
         IN  r \in Nat \X Nat /\ r[1] \in lo .. hi /\ r[2] \in r[1] .. hi
<1> DEFINE below == Below(es, t, f, match)
           notAbove == NotAbove(es, t, f, match)
           first == BinSearch(below, lo, hi)
           last == BinSearch(notAbove, first, hi)
<1>1. first \in lo .. hi
  <2> HIDE DEF below
  <2> QED BY BinSearchFinds
<1>2. last \in first .. hi
  <2> HIDE DEF notAbove, first
  <2>1. first \in Nat /\ first <= hi
    BY <1>1
  <2> QED BY <2>1, BinSearchFinds
<1>3. Find(es, t, <<lo, hi>>, f, match) = IF match = <<>> THEN <<lo, hi>> ELSE <<first, last>>
  BY DEF Find
<1> HIDE DEF first, last
<1> QED BY <1>1, <1>2, <1>3

LEMMA BeginsWithItself ==
  ASSUME NEW s \in Seq(Nat) PROVE BeginsWith(s, s)
<1>1. Lower(s) \in Seq(Nat)
  <2>1. Lower(s) = [i \in 1 .. Len(s) |-> s[i] % 10]
    BY DEF Lower
  <2>2. \A i \in 1 .. Len(s) : s[i] % 10 \in Nat
    BY ElementOfSeq
  <2> QED BY <2>1, <2>2
<1> QED BY <1>1 DEF BeginsWith, IsPrefix

-----------------------------------------------------------------------------
(* A value for each of 0 .. n, made from the one before.                   *)
Steps(f, n, v, step) ==
  f[0] = v /\ \A k \in 1 .. n : f[k] = step[<<k, f[k - 1]>>]

LEMMA StepByStep ==
  ASSUME NEW n \in Nat, NEW V, NEW v \in V, NEW step \in [(1 .. n) \X V -> V]
  PROVE  \E f \in [0 .. n -> V] : Steps(f, n, v, step)
<1> DEFINE D == 0 .. n
           T == {m \in Nat : \E f \in [D -> V] :
                   \A k \in D : k <= m => f[k] = IF k = 0 THEN v ELSE step[<<k, f[k - 1]>>]}
<1>1. 0 \in T
  <2> DEFINE f == [k \in D |-> v]
  <2>1. f \in [D -> V] /\ f[0] = v
    OBVIOUS
  <2>2. \A k \in D : k <= 0 => k = 0
    OBVIOUS
  <2> HIDE DEF f, D
  <2> QED BY <2>1, <2>2
<1>2. ASSUME NEW m \in Nat, m \in T PROVE m + 1 \in T
  <2>1. PICK f \in [D -> V] :
          \A k \in D : k <= m => f[k] = IF k = 0 THEN v ELSE step[<<k, f[k - 1]>>]
    BY <1>2
  <2> DEFINE g == [k \in D |-> IF k <= m THEN f[k] ELSE step[<<k, f[k - 1]>>]]
  <2>2. ASSUME NEW k \in D, k # 0 PROVE k \in 1 .. n /\ k - 1 \in D
    BY <2>2
  <2>3. ASSUME NEW k \in D PROVE g[k] \in V
    <3>1. CASE k <= m
      BY <3>1
    <3>2. CASE ~ (k <= m)
      <4>1. k \in 1 .. n /\ f[k - 1] \in V
        BY <2>2, <3>2
      <4> QED BY <3>2, <4>1
    <3> QED BY <3>1, <3>2
  <2>4. g \in [D -> V]
    <3> HIDE DEF D
    <3> QED BY <2>3
  <2>5. ASSUME NEW k \in D, k <= m + 1
        PROVE  g[k] = IF k = 0 THEN v ELSE step[<<k, g[k - 1]>>]
    <3>1. CASE k = 0
      <4>1. k <= m /\ g[k] = f[k]
        BY <3>1
      <4> HIDE DEF g
      <4> QED BY <2>1, <3>1, <4>1
    <3>2. CASE k # 0
      <4>1. k - 1 \in D /\ k - 1 <= m
        BY <2>2, <2>5, <3>2
      <4>2. g[k - 1] = f[k - 1]
        BY <4>1
      <4>3. g[k] = step[<<k, f[k - 1]>>]
        BY <2>1, <3>2
      <4> HIDE DEF g
      <4> QED BY <3>2, <4>2, <4>3
    <3> QED BY <3>1, <3>2
  <2> HIDE DEF g, D
  <2> QED BY <2>4, <2>5
<1>3. n \in T
  <2> HIDE DEF T
  <2>1. Nat \subseteq T
    BY <1>1, <1>2, NumbersFromZero
  <2> QED BY <2>1
<1>4. PICK f \in [D -> V] :
        \A k \in D : k <= n => f[k] = IF k = 0 THEN v ELSE step[<<k, f[k - 1]>>]
  BY <1>3
<1>5. 0 \in D /\ 0 <= n /\ \A k \in 1 .. n : k \in D /\ k <= n /\ k # 0
  OBVIOUS
<1> HIDE DEF D
<1>6. Steps(f, n, v, step)
  BY <1>4, <1>5 DEF Steps
<1> QED BY <1>6 DEF D

-----------------------------------------------------------------------------
(* Arithmetic of the tables in the file: where the words of table t are.   *)
LEMMA TableStart ==
  ASSUME NEW n \in Nat \ {0}, NEW F \in Nat, NEW t \in 1 .. F, NEW i \in 1 .. n
  PROVE  LET k == (t - 1) * n + i
         IN  /\ k \in 1 .. n * F
             /\ 1 + t * n + i = 1 + n + k
             /\ (k - 1) \div n = t - 1
             /\ (k - 1) % n = i - 1
<1> DEFINE k == (t - 1) * n + i
<1>1. n * F = (t - 1) * n + n + (F - t) * n
  OBVIOUS
<1>2. (t - 1) * n \in Nat /\ (F - t) * n \in Nat
  BY SMTT(30)
<1>3. k \in 1 .. n * F
  BY <1>1, <1>2
<1>4. 1 + t * n + i = 1 + n + k
  OBVIOUS
<1>5. k - 1 = n * (t - 1) + (i - 1) /\ i - 1 \in 0 .. n - 1
  OBVIOUS
<1>6. (k - 1) \div n = t - 1 /\ (k - 1) % n = i - 1
  BY <1>5, SMTT(30)
<1> QED BY <1>3, <1>4, <1>6

(* A table is found by the field it is sorted by.                          *)
LEMMA FieldHasTable ==
  ASSUME NEW f \in FieldSet
  PROVE  LET t == CHOOSE t \in DOMAIN Fields : Fields[t] = f
         IN  t \in 1 .. Len(Fields) /\ Fields[t] = f
<1>1. \E t \in DOMAIN Fields : Fields[t] = f
  BY DEF FieldSet, Range
<1>2. DOMAIN Fields = 1 .. Len(Fields)
  BY MusicDBAssumption
<1> QED BY <1>1, <1>2

(* The number of entries, their offsets, and then word i of table t at     *)
(* 1 + t * n + i.                                                          *)
HasWords(w, n, offs, ts) ==
  /\ Len(w) \in Nat \ {0} /\ w[1] = n
  /\ \A i \in 1 .. n : i + 1 \in 1 .. Len(w) /\ w[i + 1] = offs[i]
  /\ \A t \in 1 .. Len(Fields), i \in 1 .. n :
       1 + t * n + i \in 1 .. Len(w) /\ w[1 + t * n + i] = ts[Fields[t]][i]

(* What index() writes.                                                    *)
LEMMA IndexFile ==
  ASSUME NEW p, NEW es \in Seq(Entry), NEW ts \in Indexes(es)
  PROVE  /\ HasWords(IndexWords(p, es, ts), Len(es), Offsets(p, es), ts)
         /\ \E S : IndexWords(p, es, ts) \in Seq(S)
<1> DEFINE n == Len(es)
           w == IndexWords(p, es, ts)
           o == Offsets(p, es)
           F == Len(Fields)
           a == [k \in 1 .. n * F |-> ts[Fields[((k - 1) \div n) + 1]][((k - 1) % n) + 1]]
           S == {n} \cup {o[i] : i \in 1 .. n} \cup {a[k] : k \in 1 .. n * F}
<1>1. n \in Nat /\ F \in Nat /\ n * F \in Nat
  BY MusicDBAssumption, SMTT(30)
<1>2. DOMAIN o = 1 .. n /\ o \in [1 .. n -> S]
  BY DEF Offsets
<1>3. a \in [1 .. n * F -> S]
  OBVIOUS
<1>4. <<n>> \in Seq(S) /\ o \in Seq(S) /\ a \in Seq(S) /\ Len(o) = n /\ Len(a) = n * F
  <2> HIDE DEF o, a, n, F
  <2>1. n \in S
    OBVIOUS
  <2> HIDE DEF S
  <2>2. o \in Seq(S) /\ a \in Seq(S)
    BY <1>1, <1>2, <1>3, SeqDef
  <2> QED BY <1>1, <1>2, <1>3, <2>1, <2>2
<1>5. w = <<n>> \o o \o a
  BY DEF IndexWords
<1> HIDE DEF n, w, o, F, S
<1>6. /\ <<n>> \o o \in Seq(S) /\ Len(<<n>> \o o) = 1 + n
      /\ \A i \in 1 .. 1 + n : (<<n>> \o o)[i] = IF i <= 1 THEN n ELSE o[i - 1]
  <2>1. Len(<<n>>) = 1 /\ <<n>>[1] = n
    OBVIOUS
  <2> HIDE DEF a
  <2> QED BY <1>1, <1>4, <2>1, ConcatProperties
<1>7. /\ w \in Seq(S) /\ Len(w) = 1 + n + n * F
      /\ \A k \in 1 .. 1 + n + n * F :
           w[k] = IF k <= 1 + n THEN (<<n>> \o o)[k] ELSE a[k - (1 + n)]
  <2> DEFINE b == <<n>> \o o
  <2>1. b \in Seq(S) /\ Len(b) = 1 + n /\ w = b \o a
    BY <1>5, <1>6
  <2> HIDE DEF b
  <2> HIDE DEF a
  <2>2. b \in Seq(S) /\ a \in Seq(S)
    BY <1>4, <2>1
  <2>3. /\ b \o a \in Seq(S) /\ Len(b \o a) = Len(b) + Len(a)
        /\ \A k \in 1 .. Len(b) + Len(a) :
             (b \o a)[k] = IF k <= Len(b) THEN b[k] ELSE a[k - Len(b)]
    BY ONLY <2>2, ConcatProperties
  <2> QED BY <1>4, <2>1, <2>3 DEF b
<1>8. ASSUME NEW t \in 1 .. F, NEW i \in 1 .. n
      PROVE  1 + t * n + i \in 1 .. Len(w) /\ w[1 + t * n + i] = ts[Fields[t]][i]
  <2> DEFINE k == (t - 1) * n + i
  <2>1. /\ k \in 1 .. n * F /\ 1 + t * n + i = 1 + n + k
        /\ (k - 1) \div n = t - 1 /\ (k - 1) % n = i - 1
    <3>1. n \in Nat \ {0}
      BY <1>1
    <3> QED BY <1>1, <3>1, TableStart
  <2> HIDE DEF k
  <2>2. a[k] = ts[Fields[t]][i]
    BY <1>1, <2>1
  <2> HIDE DEF a
  <2>3. 1 + n + k \in 1 .. Len(w) /\ w[1 + n + k] = a[k]
    BY <1>1, <1>7, <2>1
  <2> QED BY <2>1, <2>2, <2>3
<1>9. ASSUME NEW i \in 1 .. n
      PROVE  i + 1 \in 1 .. Len(w) /\ w[i + 1] = o[i]
  <2> HIDE DEF a
  <2> QED BY <1>1, <1>6, <1>7
<1>10. Len(w) \in Nat \ {0} /\ w[1] = n
  <2> HIDE DEF a
  <2> QED BY <1>1, <1>6, <1>7
<1> HIDE DEF a
<1>11. HasWords(w, n, o, ts)
  BY <1>8, <1>9, <1>10 DEF HasWords, F
<1>12. \E T : w \in Seq(T)
  BY <1>7
<1> QED BY <1>11, <1>12 DEF n, w, o

-----------------------------------------------------------------------------
(* What is in memory and in the database file are sequences of entries,    *)
(* and the file's are the first of what the last scan found.               *)
TypeInv ==
  /\ library \in Seq(Entry) /\ entries \in Seq(Entry) /\ scanned \in Seq(Entry)
  /\ dbFile # NoFile => dbFile.entries \in Seq(Entry)

RecordsInv ==
  /\ dbFile # NoFile => IsPrefix(dbFile.entries, scanned)
  /\ WholeRecords

(* The index file is any beginning of what some index() wrote.             *)
CutIndex ==
  \/ idxFile = <<>>
  \/ \E p \in Int, es \in Seq(Entry) : \E ts \in Indexes(es) :
       \E m \in 0 .. Len(IndexWords(p, es, ts)) :
         idxFile = SubSeq(IndexWords(p, es, ts), 1, m)

(* Without a kill each file is what a run of the program wrote, and the    *)
(* index is of the database, or there is no index.                         *)
IndexOfDb ==
  \/ idxFile = <<>>
  \/ \E ts \in Indexes(dbFile.entries) :
       idxFile = IndexWords(dbFile.path, dbFile.entries, ts)

CleanInv ==
  ~ killed =>
    /\ pc # "trap"
    /\ pc \in {"index", "ready"} =>
         dbFile # NoFile /\ dbFile.path = path /\ dbFile.entries = entries
    /\ pc # "scan" /\ dbFile # NoFile => dbFile.entries = scanned
    /\ pc \in {"off", "ready"} /\ dbFile # NoFile => IndexOfDb

-----------------------------------------------------------------------------
(* Prefixes, as load() reads them and a kill leaves them.                  *)
LEMMA WholeIsPrefix ==
  ASSUME NEW es \in Seq(Entry) PROVE IsPrefix(es, es)
BY DEF IsPrefix

LEMMA CutIsPrefix ==
  ASSUME NEW es \in Seq(Entry), NEW m \in 0 .. Len(es)
  PROVE  SubSeq(es, 1, m) \in Seq(Entry) /\ IsPrefix(SubSeq(es, 1, m), es)
<1>1. \A i \in 1 .. m : es[i] \in Entry
  OBVIOUS
<1>2. /\ SubSeq(es, 1, m) \in Seq(Entry) /\ Len(SubSeq(es, 1, m)) = m
      /\ \A i \in 1 .. m : SubSeq(es, 1, m)[i] = es[i]
  BY <1>1, SubSeqProperties
<1>3. SubSeq(SubSeq(es, 1, m), 1, m) = SubSeq(es, 1, m)
  BY <1>2
<1> QED BY <1>2, <1>3 DEF IsPrefix

(* A beginning of an index file has the words of the whole.                *)
LEMMA CutWords ==
  ASSUME NEW w, Len(w) \in Nat, NEW m \in 0 .. Len(w)
  PROVE  /\ Len(SubSeq(w, 1, m)) = m
         /\ \A k \in 1 .. m : SubSeq(w, 1, m)[k] = w[k]
<1> DEFINE S == {w[k] : k \in 1 .. m}
<1>1. \A k \in 1 .. m : w[k] \in S
  OBVIOUS
<1> HIDE DEF S
<1> QED BY <1>1, SubSeqProperties

(* What load() reads of a table: the words of the file, and zeros behind   *)
(* its end.  The numbers are those of entries when the count fits, whoever *)
(* wrote the file.                                                         *)
LEMMA ReadTables ==
  ASSUME CutIndex, NEW n \in Nat, CountFits(n), NEW f \in FieldSet
  PROVE  TableWords(n)[f] \in [1 .. n -> 0 .. n - 1]
<1> DEFINE t == CHOOSE t \in DOMAIN Fields : Fields[t] = f
<1>1. t \in 1 .. Len(Fields) /\ Fields[t] = f
  BY FieldHasTable
<1> HIDE DEF t
<1>2. TableWords(n)[f] = [i \in 1 .. n |-> WordOr(1 + t * n + i, 0)]
  BY DEF TableWords, t
<1> SUFFICES ASSUME NEW i \in 1 .. n
             PROVE  WordOr(1 + t * n + i, 0) \in 0 .. n - 1
  BY <1>2
<1>3. Len(idxFile) >= 1 /\ idxFile[1] = n
  BY DEF CountFits
<1>4. PICK p \in Int, es \in Seq(Entry) : \E ts \in Indexes(es) :
        \E m \in 0 .. Len(IndexWords(p, es, ts)) :
          idxFile = SubSeq(IndexWords(p, es, ts), 1, m)
  <2>1. idxFile # <<>>
    BY <1>3
  <2> QED BY <2>1 DEF CutIndex
<1>5. PICK ts \in Indexes(es) :
        \E m \in 0 .. Len(IndexWords(p, es, ts)) :
          idxFile = SubSeq(IndexWords(p, es, ts), 1, m)
  BY <1>4
<1>6. PICK m \in 0 .. Len(IndexWords(p, es, ts)) :
        idxFile = SubSeq(IndexWords(p, es, ts), 1, m)
  BY <1>5
<1> DEFINE w == IndexWords(p, es, ts)
           k == 1 + t * n + i
<1>7. HasWords(w, Len(es), Offsets(p, es), ts)
  BY IndexFile
<1> HIDE DEF w
<1>8. Len(idxFile) = m /\ \A j \in 1 .. m : idxFile[j] = w[j]
  BY <1>6, <1>7, CutWords DEF w, HasWords
<1>9. n = Len(es)
  BY <1>3, <1>7, <1>8 DEF HasWords
<1>10. k \in 1 .. Len(w) /\ w[k] = ts[f][i]
  BY <1>1, <1>7, <1>9 DEF HasWords
<1>11. ts[f][i] \in 0 .. n - 1
  BY <1>9 DEF Indexes, SortedTables
<1> HIDE DEF k
<1>12. WordOr(k, 0) \in 0 .. n - 1
  <2>1. CASE k <= Len(idxFile)
    BY <1>7, <1>8, <1>10, <1>11, <2>1 DEF WordOr, HasWords
  <2>2. CASE ~ (k <= Len(idxFile))
    BY <2>2 DEF WordOr
  <2> QED BY <2>1, <2>2
<1> QED BY <1>12 DEF k

(* The index of the database, when it was written in full, is read back.   *)
LEMMA ReadBack ==
  ASSUME NEW p, NEW es \in Seq(Entry), NEW ts \in Indexes(es),
         idxFile = IndexWords(p, es, ts), NEW junk
  PROVE  /\ OffsetsFit(Offsets(p, es), junk)
         /\ \A f \in FieldSet : TableWords(Len(es))[f] = ts[f]
<1> DEFINE n == Len(es)
<1>1. HasWords(idxFile, n, Offsets(p, es), ts)
  BY IndexFile
<1>2. OffsetsFit(Offsets(p, es), junk)
  <2>1. DOMAIN Offsets(p, es) = 1 .. n
    BY DEF Offsets
  <2> QED BY <1>1, <2>1 DEF OffsetsFit, WordOr, HasWords
<1>3. ASSUME NEW f \in FieldSet PROVE TableWords(n)[f] = ts[f]
  <2> DEFINE t == CHOOSE t \in DOMAIN Fields : Fields[t] = f
  <2>1. t \in 1 .. Len(Fields) /\ Fields[t] = f
    BY FieldHasTable
  <2> HIDE DEF t
  <2>2. TableWords(n)[f] = [i \in 1 .. n |-> WordOr(1 + t * n + i, 0)]
    BY DEF TableWords, t
  <2>3. ts[f] \in [1 .. n -> 0 .. n - 1]
    BY DEF Indexes, SortedTables
  <2>4. ASSUME NEW i \in 1 .. n PROVE WordOr(1 + t * n + i, 0) = ts[f][i]
    <3> DEFINE k == 1 + t * n + i
    <3>1. k \in 1 .. Len(idxFile) /\ idxFile[k] = ts[f][i]
      BY <1>1, <2>1 DEF HasWords
    <3>2. Len(idxFile) \in Nat
      BY <1>1 DEF HasWords
    <3> HIDE DEF k
    <3>3. k <= Len(idxFile)
      BY <3>1, <3>2
    <3>4. WordOr(k, 0) = ts[f][i]
      BY <3>1, <3>3 DEF WordOr
    <3> QED BY <3>4 DEF k
  <2> QED BY <2>2, <2>3, <2>4
<1> QED BY <1>2, <1>3

-----------------------------------------------------------------------------
(* init() has either to scan, or has the entries of the database file.     *)
LEMMA StartLoads ==
  ASSUME Start
  PROVE  /\ UNCHANGED <<library, path, dbFile, idxFile, scanned, killed>>
         /\ \/ pc' = "scan" /\ entries' = <<>>
            \/ LoadsDb /\ entries' = dbFile.entries /\ pc' \in {"index", "ready", "trap"}
BY DEF Start, LoadFails, LoadWithoutIndex, LoadDiffers, LoadIndexed, LoadEntries,
       world, disk

LEMMA TypeKept ==
  ASSUME TypeInv, path \in Paths, [Next]_vars
  PROVE  TypeInv' /\ path' \in Paths
<1> <<>> \in Seq(Entry)
  OBVIOUS
<1>1. CASE Start
  BY <1>1, StartLoads DEF TypeInv, LoadsDb
<1>2. CASE Scan
  BY <1>2 DEF Scan, TypeInv, world
<1>3. CASE Index \/ Search \/ AddGroup \/ UNCHANGED vars
  BY <1>3 DEF Index, Search, AddGroup, vars, TypeInv, world, disk
<1>4. CASE Exit
  BY <1>4 DEF Exit, Off, TypeInv, world, disk
<1>5. CASE Kill
  <2>1. /\ path' = path /\ library' = library /\ entries' = <<>>
    BY <1>5 DEF Kill, KilledInScan, KilledInIndex, Off
  <2>2. CASE KilledInIndex
    BY <2>1, <2>2 DEF KilledInIndex, TypeInv
  <2>3. CASE KilledInScan
    <3>1. scanned' = library
      BY <2>3 DEF KilledInScan
    <3>2. dbFile'.entries \in Seq(Entry)
      <4>1. CASE dbFile' = [path |-> -1, entries |-> <<>>, torn |-> TRUE]
        BY <4>1
      <4>2. ASSUME NEW m \in 0 .. Len(library), NEW torn,
                   dbFile' = [path |-> path, entries |-> SubSeq(library, 1, m), torn |-> torn]
            PROVE  dbFile'.entries \in Seq(Entry)
        BY <4>2, CutIsPrefix DEF TypeInv
      <4> QED BY <2>3, <4>1, <4>2 DEF KilledInScan
    <3> QED BY <2>1, <3>1, <3>2 DEF TypeInv
  <2> QED BY <1>5, <2>2, <2>3 DEF Kill
<1>6. CASE Changes
  BY <1>6, MusicDBAssumption DEF Changes, TypeInv, disk, memory, Entry, FieldSet
<1> QED BY <1>1, <1>2, <1>3, <1>4, <1>5, <1>6 DEF Next

LEMMA RecordsKept ==
  ASSUME TypeInv, RecordsInv, [Next]_vars
  PROVE  RecordsInv'
<1>1. CASE Start
  BY <1>1, StartLoads DEF RecordsInv, WholeRecords, LoadsDb
<1>2. CASE Scan
  BY <1>2, WholeIsPrefix DEF Scan, TypeInv, RecordsInv, WholeRecords
<1>3. CASE Index \/ Search \/ AddGroup \/ UNCHANGED vars
  BY <1>3 DEF Index, Search, AddGroup, vars, RecordsInv, WholeRecords, world, disk
<1>4. CASE Exit
  BY <1>4 DEF Exit, Off, RecordsInv, WholeRecords, world, disk
<1>5. CASE Kill
  <2>1. pc' = "off"
    BY <1>5 DEF Kill, KilledInScan, KilledInIndex, Off
  <2>2. CASE KilledInIndex
    BY <2>1, <2>2 DEF KilledInIndex, RecordsInv, WholeRecords
  <2>3. CASE KilledInScan
    <3>1. scanned' = library
      BY <2>3 DEF KilledInScan
    <3>2. IsPrefix(dbFile'.entries, library)
      <4>1. CASE dbFile' = [path |-> -1, entries |-> <<>>, torn |-> TRUE]
        <5>1. SubSeq(library, 1, 0) = <<>>
          BY SubSeqEmpty
        <5>2. IsPrefix(SubSeq(library, 1, 0), library)
          BY CutIsPrefix DEF TypeInv
        <5> QED BY <4>1, <5>1, <5>2
      <4>2. ASSUME NEW m \in 0 .. Len(library), NEW torn,
                   dbFile' = [path |-> path, entries |-> SubSeq(library, 1, m), torn |-> torn]
            PROVE  IsPrefix(dbFile'.entries, library)
        BY <4>2, CutIsPrefix DEF TypeInv
      <4> QED BY <2>3, <4>1, <4>2 DEF KilledInScan
    <3> QED BY <2>1, <3>1, <3>2 DEF RecordsInv, WholeRecords
  <2> QED BY <1>5, <2>2, <2>3 DEF Kill
<1>6. CASE Changes
  BY <1>6 DEF Changes, RecordsInv, WholeRecords, disk, memory
<1> QED BY <1>1, <1>2, <1>3, <1>4, <1>5, <1>6 DEF Next

(* The whole of what index() writes is a beginning of it too.              *)
LEMMA WrittenIsCut ==
  ASSUME NEW p, NEW es \in Seq(Entry), NEW ts \in Indexes(es)
  PROVE  LET w == IndexWords(p, es, ts) IN Len(w) \in Nat /\ SubSeq(w, 1, Len(w)) = w
<1> DEFINE w == IndexWords(p, es, ts)
<1>1. Len(w) \in Nat
  BY IndexFile DEF HasWords
<1>2. \E S : w \in Seq(S)
  BY IndexFile
<1> HIDE DEF w
<1>3. SubSeq(w, 1, Len(w)) = w
  BY <1>2, SubSeqFull
<1> QED BY <1>1, <1>3 DEF w

LEMMA CutIndexKept ==
  ASSUME TypeInv, path \in Paths, CutIndex, [Next]_vars
  PROVE  CutIndex'
<1>1. CASE UNCHANGED idxFile
  BY <1>1 DEF CutIndex
<1>2. path \in Int /\ entries \in Seq(Entry)
  BY MusicDBAssumption DEF TypeInv
<1>3. ASSUME NEW ts \in Indexes(entries), NEW m \in 0 .. Len(IndexWords(path, entries, ts)),
             idxFile' = SubSeq(IndexWords(path, entries, ts), 1, m)
      PROVE  CutIndex'
  BY <1>2, <1>3 DEF CutIndex
<1>4. CASE Index
  <2>1. PICK ts \in Indexes(entries) : idxFile' = IndexWords(path, entries, ts)
    BY <1>4 DEF Index
  <2> DEFINE w == IndexWords(path, entries, ts)
  <2>2. Len(w) \in Nat /\ SubSeq(w, 1, Len(w)) = w
    BY <1>2, WrittenIsCut
  <2>3. Len(w) \in 0 .. Len(w)
    BY <2>2
  <2> QED BY <1>3, <2>1, <2>2, <2>3
<1>5. CASE KilledInIndex
  BY <1>1, <1>3, <1>5 DEF KilledInIndex
<1>6. CASE Changes
  BY <1>1, <1>6 DEF Changes, CutIndex, disk
<1>7. Next /\ ~ Index /\ ~ KilledInIndex /\ ~ Changes => UNCHANGED idxFile
  BY StartLoads DEF Next, Scan, Search, AddGroup, Exit, Kill, KilledInScan, disk
<1> QED BY <1>1, <1>4, <1>5, <1>6, <1>7 DEF vars

LEMMA EntriesKept ==
  ASSUME TypeInv, TypeInv', CutIndex, EntriesExist, [Next]_vars
  PROVE  EntriesExist'
<1> DEFINE n == Len(entries')
<1> SUFFICES ASSUME pc' = "ready", NEW f \in FieldSet
             PROVE  \/ tables'[f] \in [1 .. n -> 0 .. n - 1]
                    \/ UNCHANGED <<tables, entries, pc>>
  <2>1. n \in Nat
    BY DEF TypeInv
  <2>2. ASSUME NEW m \in Nat, NEW t \in [1 .. m -> 0 .. m - 1]
        PROVE  Len(t) = m /\ \A i \in DOMAIN t : t[i] < m
    <3>1. t \in Seq(0 .. m - 1)
      BY SeqDef
    <3> QED BY <3>1, LenProperties
  <2> QED BY <2>1, <2>2 DEF EntriesExist
<1>1. CASE Start
  <2>1. LoadIndexed
    BY <1>1 DEF Start, LoadFails, LoadWithoutIndex, LoadDiffers
  <2>2. Len(entries') \in Nat
    BY <2>1 DEF LoadIndexed, LoadsDb, LoadEntries, TypeInv
  <2> QED BY <2>1, <2>2, ReadTables DEF LoadIndexed
<1>2. CASE Index
  BY <1>2 DEF Index, Indexes, SortedTables
<1>3. CASE Search \/ AddGroup \/ UNCHANGED vars
  BY <1>3 DEF Search, AddGroup, vars
<1>4. CASE Scan \/ Exit \/ Kill \/ Changes
  BY <1>4 DEF Scan, Exit, Kill, KilledInScan, KilledInIndex, Off, Changes, memory
<1> QED BY <1>1, <1>2, <1>3, <1>4 DEF Next

LEMMA CleanKept ==
  ASSUME TypeInv, CleanInv, CleanIsSorted, [Next]_vars
  PROVE  CleanInv' /\ CleanIsSorted'
<1> USE DEF CleanInv, CleanIsSorted
<1>1. CASE Start
  <2> SUFFICES ASSUME ~ killed PROVE CleanInv' /\ CleanIsSorted'
    BY <1>1, StartLoads
  <2>1. pc = "off" /\ UNCHANGED <<library, path, dbFile, idxFile, scanned, killed>>
    BY <1>1, StartLoads DEF Start
  <2>2. CASE LoadFails
    BY <2>1, <2>2 DEF LoadFails
  <2>3. CASE LoadWithoutIndex
    BY <2>1, <2>3 DEF LoadWithoutIndex, LoadsDb, LoadEntries
  <2>4. ASSUME LoadsDb, entries' = LoadEntries(dbFile), CountFits(Len(entries'))
        PROVE  /\ OffsetsFit(Offsets(path, entries'), 0)
               /\ \A f \in FieldSet :
                    TableWords(Len(entries'))[f] \in SortedTables(entries', f)
    <3>1. dbFile # NoFile /\ dbFile.path = path /\ dbFile.entries = entries'
      BY <2>4 DEF LoadsDb, LoadEntries
    <3>2. entries' \in Seq(Entry)
      BY <3>1 DEF TypeInv
    <3>3. idxFile # <<>>
      BY <2>4 DEF CountFits
    <3>4. PICK ts \in Indexes(entries') : idxFile = IndexWords(path, entries', ts)
      BY <2>1, <3>1, <3>3 DEF IndexOfDb
    <3>5. \A f \in FieldSet : ts[f] \in SortedTables(entries', f)
      BY DEF Indexes
    <3> QED BY <3>2, <3>4, <3>5, ReadBack
  <2>5. CASE LoadDiffers
    BY <2>4, <2>5 DEF LoadDiffers
  <2>6. CASE LoadIndexed
    <3>1. LoadsDb /\ entries' = dbFile.entries /\ pc' = "ready"
      BY <2>6 DEF LoadIndexed, LoadEntries
    <3>2. CleanInv'
      BY <2>1, <3>1 DEF LoadsDb, IndexOfDb
    <3>3. CleanIsSorted'
      BY <2>1, <2>4, <2>6, <3>1 DEF LoadIndexed, LoadsDb
    <3> QED BY <3>2, <3>3
  <2> QED BY <1>1, <2>2, <2>3, <2>5, <2>6 DEF Start
<1>2. CASE Scan
  <2>1. dbFile' # NoFile
    BY <1>2 DEF Scan, NoFile
  <2> QED BY <1>2, <2>1 DEF Scan, world
<1>3. CASE Index
  BY <1>3 DEF Index, Indexes, IndexOfDb, world
<1>4. CASE Search \/ AddGroup \/ UNCHANGED vars
  BY <1>4 DEF Search, AddGroup, vars, IndexOfDb, world, disk
<1>5. CASE Exit
  BY <1>5 DEF Exit, Off, IndexOfDb, world, disk
<1>6. CASE Kill
  BY <1>6 DEF Kill
<1>7. CASE Changes
  BY <1>7 DEF Changes, IndexOfDb, memory, disk
<1> QED BY <1>1, <1>2, <1>3, <1>4, <1>5, <1>6, <1>7 DEF Next

-----------------------------------------------------------------------------
(* The last query was answered from the tables, and the last songs that    *)
(* were added are of one of its groups.                                    *)
QueryInv ==
  /\ pc # "ready" => query = NoQuery /\ added = <<>>
  /\ query # NoQuery => /\ query.field \in FieldSet /\ query.match \in Matches
                        /\ query = Query(entries, tables, query.field, query.match)
  /\ added # <<>> => \E u \in 0 .. Len(query.unique) - 1 :
                       added = <<u>> \o MakeEntries(entries, tables, query, u)

LEMMA QueryKept ==
  ASSUME QueryInv, [Next]_vars
  PROVE  QueryInv'
<1>1. CASE Start
  BY <1>1 DEF Start, QueryInv, NoQuery
<1>2. CASE Scan
  BY <1>2 DEF Scan, QueryInv, NoQuery
<1>3. CASE Index
  BY <1>3 DEF Index, QueryInv, NoQuery
<1>4. CASE Search
  <2>1. PICK f \in FieldSet, m \in Matches : query' = Query(entries, tables, f, m)
    BY <1>4 DEF Search
  <2>2. query'.field = f /\ query'.match = m
    BY <2>1 DEF Query
  <2>3. UNCHANGED <<entries, tables, pc>> /\ pc = "ready" /\ added' = <<>>
    BY <1>4 DEF Search
  <2>4. query' = Query(entries', tables', query'.field, query'.match)
    BY <2>1, <2>2, <2>3
  <2> QED BY <2>2, <2>3, <2>4 DEF QueryInv
<1>5. CASE AddGroup
  <2>1. UNCHANGED <<entries, tables, pc, query>> /\ pc = "ready"
    BY <1>5 DEF AddGroup
  <2>2. \E u \in 0 .. Len(query.unique) - 1 :
          added' = <<u>> \o MakeEntries(entries, tables, query, u)
    BY <1>5 DEF AddGroup
  <2> QED BY <2>1, <2>2 DEF QueryInv, NoQuery
<1>6. CASE Exit
  BY <1>6 DEF Exit, Off, QueryInv, NoQuery
<1>7. CASE Kill
  BY <1>7 DEF Kill, KilledInScan, KilledInIndex, Off, QueryInv, NoQuery
<1>8. CASE Changes
  BY <1>8 DEF Changes, memory, QueryInv, NoQuery
<1>9. CASE UNCHANGED vars
  BY <1>9 DEF vars, QueryInv, NoQuery
<1> QED BY <1>1, <1>2, <1>3, <1>4, <1>5, <1>6, <1>7, <1>8, <1>9 DEF Next

(* A new query over a table with as many numbers as there are entries.     *)
LEMMA QueryIs ==
  ASSUME QueryInv, EntriesExist, TypeInv, query # NoQuery
  PROVE  LET f == query.field  t == tables[f]
         IN  /\ f \in FieldSet /\ query.match \in Strings
             /\ Len(t) = Len(entries) /\ Len(entries) \in Nat
             /\ query.range = Find(entries, t, <<0, Len(entries)>>, f, query.match)
             /\ query.range[1] \in 0 .. Len(entries)
             /\ query.range[2] \in query.range[1] .. Len(entries)
             /\ query.range \in Nat \X Nat
             /\ query.unique = Unique(entries, Found(t, query.range), f)
<1> DEFINE f == query.field
           t == tables[f]
<1>1. /\ f \in FieldSet /\ query.match \in Strings
      /\ query = Query(entries, tables, f, query.match)
  BY MusicDBAssumption DEF QueryInv
<1>2. Len(t) = Len(entries) /\ Len(entries) \in Nat
  BY <1>1 DEF QueryInv, EntriesExist, TypeInv
<1>3. /\ query.range = Find(entries, t, <<0, Len(t)>>, f, query.match)
      /\ query.unique = Unique(entries, Found(t, query.range), f)
  <2> DEFINE q == Query(entries, tables, f, query.match)
  <2>1. /\ q.range = Find(entries, t, <<0, Len(t)>>, f, query.match)
        /\ q.unique = Unique(entries, Found(t, q.range), f)
    BY DEF Query
  <2> HIDE DEF q
  <2>2. query = q
    BY <1>1 DEF q
  <2> QED BY <2>1, <2>2
<1> HIDE DEF f, t
<1>4. LET r == query.range
      IN  r \in Nat \X Nat /\ r[1] \in 0 .. Len(t) /\ r[2] \in r[1] .. Len(t)
  BY <1>2, <1>3, FindInRange
<1> QED BY <1>1, <1>2, <1>3, <1>4 DEF f, t

LEMMA FoundAllHolds ==
  ASSUME QueryInv, EntriesExist, TypeInv
  PROVE  FoundAll
<1> DEFINE f == query.field
           t == tables[f]
           n == Len(entries)
           a == query.range[1]
           b == query.range[2]
           has(i) == BeginsWith(Field(entries, i, f), query.match)
<1> SUFFICES ASSUME t \in SortedTables(entries, f), query # NoQuery
             PROVE  ToSet(Found(t, query.range)) = {i \in 0 .. n - 1 : has(i)}
  BY DEF FoundAll, BeginsWith
<1>1. /\ f \in FieldSet /\ query.match \in Strings /\ n \in Nat
      /\ query.range = Find(entries, t, <<0, n>>, f, query.match)
      /\ a \in 0 .. n /\ b \in a .. n /\ query.range \in Nat \X Nat
  BY QueryIs
<1> HIDE DEF f, t, a, b
<1>2. \A k \in 1 .. n : k \in a + 1 .. b <=> has(t[k])
  <2>1. entries \in Seq(Entry) /\ 0 \in 0 .. n /\ n \in 0 .. n
    BY <1>1 DEF TypeInv
  <2>2. LET r == Find(entries, t, <<0, n>>, f, query.match)
        IN  \A k \in 0 + 1 .. n : k \in r[1] + 1 .. r[2] <=> has(t[k])
    BY <1>1, <2>1, FindFinds
  <2> QED BY <1>1, <2>2 DEF a, b
<1>3. \A i : i \in ToSet(Found(t, query.range)) <=> \E k \in a + 1 .. b : i = t[k]
  BY <1>1, FoundEntries DEF a, b
<1>4. \A k \in 1 .. n : t[k] \in 0 .. n - 1
  BY DEF SortedTables
<1>5. \A i \in 0 .. n - 1 : \E k \in 1 .. n : t[k] = i
  BY TableHasAll DEF TypeInv
<1> HIDE DEF n, has
<1>6. \A k \in a + 1 .. b : k \in 1 .. n
  BY <1>1
<1> QED BY <1>2, <1>3, <1>4, <1>5, <1>6

LEMMA GroupAddedHolds ==
  ASSUME QueryInv, EntriesExist, TypeInv
  PROVE  GroupAdded
<1> DEFINE f == query.field
           t == tables[f]
           n == Len(entries)
           a == query.range[1]
           b == query.range[2]
           u == Head(added)
           s == Field(entries, query.unique[u + 1].idx, f)
<1> SUFFICES ASSUME added # <<>>, t \in SortedTables(entries, f),
                    NEW i \in ToSet(Found(t, query.range)), Field(entries, i, f) = s
             PROVE  i \in ToSet(Tail(added))
  BY DEF GroupAdded
<1>1. PICK v \in 0 .. Len(query.unique) - 1 :
        added = <<v>> \o MakeEntries(entries, tables, query, v)
  BY DEF QueryInv
<1>2. query # NoQuery
  BY <1>1 DEF NoQuery
<1>3. /\ f \in FieldSet /\ n \in Nat
      /\ a \in 0 .. n /\ b \in a .. n /\ query.range \in Nat \X Nat
  BY <1>2, QueryIs
<1>4. query.range = <<a, b>>
  BY <1>3
<1> DEFINE r == Find(entries, t, <<a, b>>, f, Field(entries, UIndex(query, v), f))
<1>5. r \in Nat \X Nat /\ r[1] \in a .. b /\ r[2] \in r[1] .. b
  <2>1. a \in Nat /\ b \in Nat /\ a <= b
    BY <1>3
  <2> QED BY <2>1, FindInRange
<1>6. MakeEntries(entries, tables, query, v) = Found(t, r)
  BY <1>4 DEF MakeEntries
<1>7. u = v /\ Tail(added) = Found(t, r)
  <2> DEFINE e == Found(t, r)
  <2>1. r \in Nat \X Nat
    BY <1>5
  <2> HIDE DEF r
  <2>2. PICK S : e \in Seq(S)
    BY <2>1, FoundEntries
  <2> HIDE DEF e
  <2>3. added = <<v>> \o e
    BY <1>1, <1>6 DEF e
  <2> DEFINE W == S \cup {v}
  <2>4. <<v>> \in Seq(W) /\ e \in Seq(W)
    BY <2>2
  <2> HIDE DEF W
  <2>5. Head(<<v>> \o e) = v /\ Tail(<<v>> \o e) = e
    BY <2>4, ConcatProperties
  <2> QED BY <2>3, <2>5 DEF e
<1>8. UIndex(query, v) = query.unique[v + 1].idx
  BY <1>1 DEF UIndex
<1>9. r = Find(entries, t, <<a, b>>, f, s)
  BY <1>7, <1>8
<1> HIDE DEF u, s
<1>10. PICK k \in a + 1 .. b : i = t[k]
  BY <1>3, FoundEntries
<1>11. i \in 0 .. n - 1 /\ s \in Strings /\ s \in Seq(Nat)
  <2>1. k \in 1 .. n
    BY <1>3, <1>10
  <2>2. i \in 0 .. n - 1
    BY <1>10, <2>1 DEF SortedTables
  <2> QED BY <1>3, <2>2, FieldIsString DEF TypeInv, Strings
<1>12. BeginsWith(Field(entries, t[k], f), s)
  BY <1>10, <1>11, BeginsWithItself
<1> HIDE DEF r, f, t, a, b
<1>13. k \in r[1] + 1 .. r[2]
  <2>1. entries \in Seq(Entry)
    BY DEF TypeInv
  <2> QED BY <1>3, <1>9, <1>10, <1>11, <1>12, <2>1, FindFinds
<1>14. i \in ToSet(Found(t, r))
  <2>1. r \in Nat \X Nat
    BY <1>5
  <2> QED BY <1>10, <1>13, <2>1, FoundEntries
<1> QED BY <1>7, <1>14

-----------------------------------------------------------------------------
Inv == /\ TypeInv /\ path \in Paths
       /\ RecordsInv /\ CutIndex /\ EntriesExist
       /\ CleanInv /\ CleanIsSorted
       /\ QueryInv

LEMMA InitInv == Init => Inv
<1> SUFFICES ASSUME Init PROVE Inv
  OBVIOUS
<1>1. library \in Seq(Entry)
  BY MusicDBAssumption DEF Init, Entry, FieldSet
<1>2. <<>> \in Seq(Entry)
  OBVIOUS
<1> QED BY <1>1, <1>2 DEF Init, Inv, TypeInv, RecordsInv, WholeRecords, CutIndex,
                          EntriesExist, CleanInv, CleanIsSorted, IndexOfDb,
                          QueryInv, NoQuery

LEMMA Invariant == Spec => []Inv
<1>1. Inv /\ [Next]_vars => Inv'
  BY TypeKept, RecordsKept, CutIndexKept, EntriesKept, CleanKept,
     QueryKept DEF Inv
<1> QED BY <1>1, InitInv, PTL DEF Spec

(* load(): every number in a table is that of an entry, whatever was left  *)
(* of the index file and whichever database it was written for.            *)
THEOREM NumbersOfEntries == Spec => []EntriesExist
<1>1. Inv => EntriesExist
  BY DEF Inv
<1> QED BY <1>1, Invariant, PTL

(* load(): the entries are the first of those that the last scan found,    *)
(* none of them in part, however often the scan was killed, of any music   *)
(* whose records fit the 16 bits of their length (MusicDBAssumption).      *)
THEOREM EntriesOfScan == Spec => []WholeRecords
<1>1. Inv => WholeRecords
  BY DEF Inv, RecordsInv
<1> QED BY <1>1, Invariant, PTL

(* init(): as long as it was not killed while it wrote, the database is    *)
(* all that the last scan found, sorted, and no file is closed twice, of   *)
(* any music whose records fit the 16 bits of their length.                *)
THEOREM SortedUnlessKilled == Spec => []CleanIsSorted
<1>1. Inv => CleanIsSorted
  BY DEF Inv
<1> QED BY <1>1, Invariant, PTL

(* dbQuery::find: in a sorted table a search finds all entries whose field *)
(* begins with what was typed, in capitals or not, and no others, however  *)
(* many entries there are and whatever strings of a record they hold.      *)
THEOREM SearchFindsAll == Spec => []FoundAll
<1>1. Inv => FoundAll
  BY FoundAllHolds DEF Inv
<1> QED BY <1>1, Invariant, PTL

(* dbQuery's groups and makeEntries: a group of a sorted table that is     *)
(* added brings every entry that was found with its field.                 *)
THEOREM GroupIsAdded == Spec => []GroupAdded
<1>1. Inv => GroupAdded
  BY GroupAddedHolds DEF Inv
<1> QED BY <1>1, Invariant, PTL

-----------------------------------------------------------------------------
(* The tag readers, for any files.  What the frames up to the k-th say of  *)
(* each field, over what the tag at the end of the file says.              *)
Frames == file.v2.frames

FirstTags ==
  IF file.v1 = NoTag THEN NoFields
  ELSE [f \in DOMAIN file.v1 |-> IF f = "genre" THEN file.v1[f] ELSE Clip(file.v1[f])]

NamingTo(k, f) ==
  {i \in 1 .. k : Frames[i].id \in DOMAIN FrameField /\ FrameField[Frames[i].id] = f}

TagsTo(k) ==
  [f \in DOMAIN FirstTags \union {g \in TagFields : NamingTo(k, g) # {}} |->
     IF NamingTo(k, f) # {} THEN FrameText(Frames[Max(NamingTo(k, f))].data)
     ELSE FirstTags[f]]

(* The loop is behind the k-th frame, and none up to there was empty. *)
ReadTo(k) ==
  /\ fpos = FrameEnds(Frames)[k]
  /\ \A j \in 1 .. k : Frames[j].data # <<>>
  /\ Mpeg => tags = TagsTo(k)

TagLength == IF IsCut THEN 0 ELSE ID3size(file.v2.size)

(* How far the readers are, from the first byte of the file on. *)
ReaderInv ==
  /\ file \in Files
  /\ stage \in {"open", "v1", "v2", "frames", "mpeg", "flac", "done", "wild"}
  /\ {"rate", "bits", "channels", "isAudio"} \subseteq DOMAIN info
  /\ stage \in {"v1", "mpeg"} => Mpeg
  /\ stage = "flac" => file.mime = "audio/flac"
  /\ stage \in {"v2", "frames"} => Mpeg \/ file.mime = "audio/flac"
  /\ stage \in {"open", "v1", "v2"} => fpos = 0
  /\ stage \in {"open", "v1", "v2", "frames"} => pos = 1
  /\ stage \in {"open", "v1"} => tags = NoFields
  /\ stage \in {"frames", "mpeg", "flac"} =>
       r2 = IF HasV2 THEN 10 + TagLength ELSE Refusal(file.v2)

TagsInv ==
  /\ stage = "v2" /\ Mpeg => tags = FirstTags
  /\ stage = "frames" =>
       /\ HasV2 /\ length2 = TagLength
       /\ ~LongV4 => \E k \in 0 .. file.v2.onDisk : ReadTo(k)
  /\ stage \in {"mpeg", "done"} /\ Mpeg /\ ~LongV4 => tags = Expected

(* The music that MpegRead is about, and where the search is before it. *)
MusicFirst ==
  /\ Mpeg /\ Len(file.audio) >= 4
  /\ file.audio[1] = 255 /\ file.audio[2] >= 224 /\ (file.audio[2] \div 8) % 4 # 1
  /\ (file.audio[3] \div 4) % 4 # 3

(* The bytes the search meets before the music, and that none is an FF. *)
Before == Len(Scanned) - Len(file.audio)
NoFF == \A i \in 1 .. Before : Scanned[i] # 255

SearchInv ==
  stage = "mpeg" /\ MusicFirst /\ NoFF => pos = 1 \/ pos \in 1 .. Before + 1

FilesInv == ReaderInv /\ TagsInv /\ StaysInTag /\ SearchInv /\ HeaderRead

(* Where the frames of a tag end.                                          *)
AnyFrame == [id : STRING, data : Seq(Byte)]

LEMMA EndsAre ==
  ASSUME NEW frames \in Seq(AnyFrame)
  PROVE  LET n == Len(frames)  end == FrameEnds(frames) IN
         /\ end[0] = 0
         /\ \A k \in 1 .. n : end[k] = end[k - 1] + 10 + Len(frames[k].data)
         /\ \A k \in 0 .. n : end[k] \in Nat
         /\ \A i, j \in 0 .. n : i < j => end[i] + 10 <= end[j]
<1> DEFINE n == Len(frames)
           long == [k \in 1 .. n |-> Len(frames[k].data)]
           step == [p \in (1 .. n) \X Nat |-> p[2] + 10 + long[p[1]]]
           Made(f) == f = [k \in 0 .. n |-> IF k = 0 THEN 0 ELSE f[k - 1] + 10 + Len(frames[k].data)]
           end == CHOOSE f : Made(f)
<1>1. n \in Nat /\ \A k \in 1 .. n : long[k] \in Nat /\ long[k] = Len(frames[k].data)
  <2>1. n \in Nat /\ \A k \in 1 .. n : frames[k] \in AnyFrame
    BY ElementOfSeq
  <2>2. \A x \in AnyFrame : Len(x.data) \in Nat
    BY DEF AnyFrame
  <2> QED BY <2>1, <2>2
<1>2. FrameEnds(frames) = end
  BY DEF FrameEnds
<1> HIDE DEF n, long
<1>3. step \in [(1 .. n) \X Nat -> Nat]
  BY <1>1
<1>4. PICK f \in [0 .. n -> Nat] : f[0] = 0 /\ \A k \in 1 .. n : f[k] = step[<<k, f[k - 1]>>]
  <2> HIDE DEF step
  <2>1. \E f \in [0 .. n -> Nat] : Steps(f, n, 0, step)
    BY <1>1, <1>3, StepByStep
  <2> QED BY <2>1 DEF Steps
<1>5. Made(f)
  <2>1. ASSUME NEW k \in 0 .. n
        PROVE  f[k] = IF k = 0 THEN 0 ELSE f[k - 1] + 10 + Len(frames[k].data)
    <3>1. CASE k = 0
      BY <1>4, <3>1
    <3>2. CASE k # 0
      <4>1. k \in 1 .. n /\ f[k - 1] \in Nat
        BY <1>1, <3>2
      <4>2. step[<<k, f[k - 1]>>] = f[k - 1] + 10 + Len(frames[k].data)
        BY <1>1, <4>1
      <4> HIDE DEF step
      <4> QED BY <1>4, <3>2, <4>1, <4>2
    <3> QED BY <3>1, <3>2
  <2> HIDE DEF step
  <2> QED BY <2>1
<1>6. Made(end)
  <2> HIDE DEF Made
  <2> QED BY <1>5
<1> HIDE DEF end
<1>7. \A k \in 0 .. n : end[k] = IF k = 0 THEN 0 ELSE end[k - 1] + 10 + Len(frames[k].data)
  BY <1>6
<1>8. end[0] = 0 /\ \A k \in 1 .. n : end[k] = end[k - 1] + 10 + Len(frames[k].data)
  BY <1>1, <1>7
<1> DEFINE T == {m \in Nat : m <= n => /\ \A i \in 0 .. m : end[i] \in Nat
                                      /\ \A i \in 0 .. m - 1 : end[i] + 10 <= end[m]}
<1>9. 0 \in T
  BY <1>8
<1>10. ASSUME NEW m \in Nat, m \in T PROVE m + 1 \in T
  <2> SUFFICES ASSUME m + 1 <= n
               PROVE  /\ \A i \in 0 .. m + 1 : end[i] \in Nat
                      /\ \A i \in 0 .. m : end[i] + 10 <= end[m + 1]
    OBVIOUS
  <2>1. /\ m + 1 \in 1 .. n /\ (m + 1) - 1 = m
        /\ \A i \in 0 .. m : end[i] \in Nat
        /\ \A i \in 0 .. m - 1 : end[i] + 10 <= end[m]
    BY <1>1, <1>10
  <2>2. end[m + 1] = end[m] + 10 + long[m + 1] /\ long[m + 1] \in Nat
    BY <1>1, <1>8, <2>1
  <2>3. end[m + 1] \in Nat /\ end[m] + 10 <= end[m + 1]
    BY <2>1, <2>2
  <2>4. ASSUME NEW i \in 0 .. m PROVE end[i] + 10 <= end[m + 1]
    <3>1. CASE i = m
      BY <2>3, <3>1
    <3>2. CASE i # m
      <4>1. i \in 0 .. m - 1 /\ end[i] \in Nat /\ end[m] \in Nat /\ end[i] + 10 <= end[m]
        BY <2>1, <3>2
      <4> QED BY <2>3, <4>1
    <3> QED BY <3>1, <3>2
  <2>5. ASSUME NEW i \in 0 .. m + 1 PROVE end[i] \in Nat
    <3>1. i = m + 1 \/ i \in 0 .. m
      OBVIOUS
    <3> QED BY <2>1, <2>3, <3>1
  <2> QED BY <2>4, <2>5
<1>11. Nat \subseteq T
  <2> HIDE DEF T
  <2> QED BY <1>9, <1>10, NumbersFromZero
<1>12. n \in T
  BY <1>1, <1>11
<1>13. \A k \in 0 .. n : end[k] \in Nat
  BY <1>1, <1>12
<1>14. ASSUME NEW i \in 0 .. n, NEW j \in 0 .. n, i < j PROVE end[i] + 10 <= end[j]
  <2>1. j \in T /\ i \in 0 .. j - 1 /\ j <= n
    BY <1>1, <1>11, <1>14
  <2> QED BY <2>1
<1> QED BY <1>2, <1>8, <1>13, <1>14 DEF n

(* The largest of a set of positions. *)
LEMMA LargestIs ==
  ASSUME NEW k \in Nat, NEW S, S \subseteq 1 .. k, S # {}
  PROVE  Max(S) \in S /\ \A y \in S : y <= Max(S)
<1> DEFINE R == {k - x : x \in S}
<1>1. R \subseteq Nat /\ R # {}
  <2>1. \A x \in S : k - x \in Nat
    OBVIOUS
  <2>2. PICK x \in S : TRUE
    OBVIOUS
  <2>3. k - x \in R
    OBVIOUS
  <2> QED BY <2>1, <2>3
<1>2. PICK m \in R : \A r \in R : m <= r
  <2> HIDE DEF R
  <2> QED BY <1>1, LeastNumber
<1>3. PICK x \in S : m = k - x
  BY <1>2
<1>4. \A y \in S : k - x <= k - y
  BY <1>2, <1>3
<1>5. \A y \in S : x >= y
  BY <1>4
<1>6. Max(S) \in S /\ \A y \in S : Max(S) >= y
  BY <1>5 DEF Max
<1> QED BY <1>6

(* The frames of the tag of a file, and where they end. *)
LEMMA FramesAre ==
  ASSUME file \in Files, HasV2
  PROVE  LET n == Len(Frames)  end == FrameEnds(Frames) IN
         /\ n \in Nat /\ file.v2.onDisk \in 0 .. n
         /\ file.v2.version \in Nat /\ file.v2.pad \in Nat /\ file.v2.stuffed \in Nat
         /\ \A k \in 1 .. n : /\ Len(Frames[k].data) \in Nat
                              /\ Frames[k].data # <<>> => Len(Frames[k].data) > 0
         /\ end[0] = 0
         /\ \A k \in 1 .. n : end[k] = end[k - 1] + 10 + Len(Frames[k].data)
         /\ \A k \in 0 .. n : end[k] \in Nat
         /\ \A i, j \in 0 .. n : i < j => end[i] + 10 <= end[j]
         /\ ID3size(file.v2.size) = end[n] + file.v2.pad + file.v2.stuffed
<1>1. IsTag(file.v2) /\ Refusal(file.v2) = 0
  BY FilesAssumption DEF IsFile, HasV2
<1>2. Frames \in Seq(AnyFrame)
  BY <1>1 DEF IsTag, AnyFrame, Frames
<1>3. Len(Frames) \in Nat /\ \A k \in 1 .. Len(Frames) : Frames[k] \in AnyFrame
  BY <1>2, ElementOfSeq
<1>4. \A x \in AnyFrame : Len(x.data) \in Nat /\ (x.data # <<>> => Len(x.data) > 0)
  <2> SUFFICES ASSUME NEW x \in AnyFrame
               PROVE  Len(x.data) \in Nat /\ (x.data # <<>> => Len(x.data) > 0)
    OBVIOUS
  <2>1. x.data \in Seq(Byte)
    BY DEF AnyFrame
  <2> QED BY <2>1, EmptySeq
<1>5. /\ file.v2.onDisk \in 0 .. Len(Frames)
      /\ file.v2.version \in Nat /\ file.v2.pad \in Nat /\ file.v2.stuffed \in Nat
      /\ ID3size(file.v2.size) = FrameEnds(Frames)[Len(Frames)] + file.v2.pad + file.v2.stuffed
  BY <1>1 DEF IsTag, Frames
<1> QED BY <1>2, <1>3, <1>4, <1>5, EndsAre

(* What the first tag says of a file, and one frame more. *)
LEMMA FirstTagsAre ==
  ASSUME file \in Files
  PROVE  /\ DOMAIN FirstTags \subseteq TagFields
         /\ FirstTags = [f \in DOMAIN FirstTags |-> FirstTags[f]]
         /\ DOMAIN FirstTags = IF file.v1 = NoTag THEN {} ELSE DOMAIN file.v1
         /\ \A f \in DOMAIN FirstTags :
              FirstTags[f] = IF f = "genre" THEN file.v1[f] ELSE Clip(file.v1[f])
<1>1. file.v1 # NoTag => DOMAIN file.v1 \subseteq TagFields
  BY FilesAssumption DEF IsFile
<1>2. CASE file.v1 = NoTag
  BY <1>2 DEF FirstTags, NoFields
<1>3. CASE file.v1 # NoTag
  BY <1>1, <1>3 DEF FirstTags
<1> QED BY <1>2, <1>3

LEMMA FieldsOfFrames ==
  \A id \in DOMAIN FrameField : FrameField[id] \in TagFields
BY DEF FrameField, TagFields

LEMMA NoneRead ==
  ASSUME file \in Files
  PROVE  TagsTo(0) = FirstTags
<1>1. \A f : NamingTo(0, f) = {}
  BY DEF NamingTo
<1>2. {g \in TagFields : NamingTo(0, g) # {}} = {}
  BY <1>1
<1>3. TagsTo(0) = [f \in DOMAIN FirstTags |-> FirstTags[f]]
  BY <1>1, <1>2 DEF TagsTo
<1> QED BY <1>3, FirstTagsAre

(* A frame for no field leaves the tags, one for a field is its last. *)
LEMMA OneMore ==
  ASSUME file \in Files, NEW k \in Nat
  PROVE  TagsTo(k + 1) =
           IF Frames[k + 1].id \in DOMAIN FrameField
           THEN With(TagsTo(k), FrameField[Frames[k + 1].id], FrameText(Frames[k + 1].data))
           ELSE TagsTo(k)
<1> DEFINE id == Frames[k + 1].id
           Names(f) == id \in DOMAIN FrameField /\ FrameField[id] = f
<1>1. \A f : NamingTo(k + 1, f) = NamingTo(k, f) \union (IF Names(f) THEN {k + 1} ELSE {})
  <2> SUFFICES ASSUME NEW f, NEW i
               PROVE  i \in NamingTo(k + 1, f)
                        <=> i \in NamingTo(k, f) \union (IF Names(f) THEN {k + 1} ELSE {})
    BY Zenon
  <2>1. i \in 1 .. k + 1 <=> i \in 1 .. k \/ i = k + 1
    OBVIOUS
  <2> QED BY <2>1 DEF NamingTo
<1>2. \A f : NamingTo(k, f) \subseteq 1 .. k
  BY DEF NamingTo
<1>3. ASSUME NEW f, Names(f)
      PROVE  NamingTo(k + 1, f) # {} /\ Max(NamingTo(k + 1, f)) = k + 1
  <2>1. k + 1 \in NamingTo(k + 1, f) /\ NamingTo(k + 1, f) \subseteq 1 .. k + 1
    BY <1>1, <1>2, <1>3
  <2>2. /\ Max(NamingTo(k + 1, f)) \in 1 .. k + 1
        /\ k + 1 <= Max(NamingTo(k + 1, f))
    BY <2>1, LargestIs
  <2> QED BY <2>1, <2>2
<1>4. ASSUME NEW f, ~ Names(f) PROVE NamingTo(k + 1, f) = NamingTo(k, f)
  BY <1>1, <1>4
<1> DEFINE Text(j, f) == IF NamingTo(j, f) # {} THEN FrameText(Frames[Max(NamingTo(j, f))].data)
                         ELSE FirstTags[f]
           Dom(j) == DOMAIN FirstTags \union {g \in TagFields : NamingTo(j, g) # {}}
<1>5. \A j : TagsTo(j) = [f \in Dom(j) |-> Text(j, f)]
  BY DEF TagsTo
<1>6. \A f : Text(k + 1, f) = IF Names(f) THEN FrameText(Frames[k + 1].data) ELSE Text(k, f)
  BY <1>3, <1>4
<1>7. CASE id \in DOMAIN FrameField
  <2> DEFINE g == FrameField[id]
  <2>1. g \in TagFields /\ \A f : Names(f) <=> f = g
    BY <1>7, FieldsOfFrames
  <2>2. Dom(k + 1) = Dom(k) \union {g}
    BY <1>3, <1>4, <2>1
  <2> HIDE DEF Names, Text, Dom, g
  <2>3. TagsTo(k + 1) = [f \in Dom(k) \union {g} |->
                           IF f = g THEN FrameText(Frames[k + 1].data) ELSE TagsTo(k)[f]]
    BY <1>5, <1>6, <2>1, <2>2
  <2>4. DOMAIN TagsTo(k) = Dom(k)
    BY <1>5
  <2> QED BY <1>7, <2>3, <2>4 DEF With, g
<1>8. CASE id \notin DOMAIN FrameField
  <2>1. \A f : NamingTo(k + 1, f) = NamingTo(k, f)
    BY <1>4, <1>8
  <2>2. TagsTo(k + 1) = TagsTo(k)
    BY <2>1 DEF TagsTo
  <2> QED BY <1>8, <2>2
<1> QED BY <1>7, <1>8

(* Behind the last frame that can be read, the tags are as expected. *)
LEMMA AllRead ==
  ASSUME file \in Files, HasV2, NEW k \in 0 .. file.v2.onDisk,
         \A j \in 1 .. k : Frames[j].data # <<>>,
         k = file.v2.onDisk \/ Frames[k + 1].data = <<>>
  PROVE  TagsTo(k) = Expected
<1>1. file.v2.onDisk \in Nat
  BY FramesAre DEF HasV2
<1>2. Readable = 1 .. k
  <2>1. ASSUME NEW i \in 1 .. k PROVE i \in Readable
    BY <1>1 DEF Readable, Frames
  <2>2. ASSUME NEW i \in Readable PROVE i \in 1 .. k
    <3>1. i \in 1 .. file.v2.onDisk /\ \A j \in 1 .. i : Frames[j].data # <<>>
      BY DEF Readable, Frames
    <3> QED BY <1>1, <3>1
  <2> QED BY <2>1, <2>2
<1>3. \A f : Naming(f) = NamingTo(k, f)
  BY <1>2 DEF Naming, NamingTo, Frames
<1> QED BY <1>3, FirstTagsAre DEF TagsTo, Expected, Frames

LEMMA NoFrames ==
  ASSUME file \in Files, ~ HasV2
  PROVE  FirstTags = Expected
<1>1. \A f : Naming(f) = {}
  BY DEF Naming
<1> QED BY <1>1, FirstTagsAre DEF Expected

(* What is told from the file alone does not change. *)
LEMMA SameFile ==
  ASSUME file' = file
  PROVE  /\ Frames' = Frames /\ HasV2' = HasV2 /\ LongV4' = LongV4 /\ IsCut' = IsCut
         /\ TagLength' = TagLength /\ Mpeg' = Mpeg
         /\ MusicFirst' = MusicFirst /\ FirstTags' = FirstTags /\ Expected' = Expected
         /\ \A k : TagsTo(k)' = TagsTo(k)
         /\ r2' = r2 => Scanned' = Scanned /\ Before' = Before /\ NoFF' = NoFF
<1>1. Frames' = Frames
  BY DEF Frames
<1>2. HasV2' = HasV2
  BY DEF HasV2, Refusal
<1>3. IsCut' = IsCut /\ Mpeg' = Mpeg
  BY DEF IsCut, Mpeg
<1>4. LongV4' = LongV4
  BY <1>2 DEF LongV4
<1>5. TagLength' = TagLength
  BY <1>3 DEF TagLength
<1>6. ASSUME r2' = r2 PROVE Scanned' = Scanned /\ Before' = Before /\ NoFF' = NoFF
  <2>1. Scanned' = Scanned
    BY <1>6 DEF Scanned, Bytes
  <2>2. Before' = Before
    BY <2>1 DEF Before
  <2> QED BY <2>1, <2>2 DEF NoFF
<1>7. MusicFirst' = MusicFirst
  BY <1>3 DEF MusicFirst
<1>8. FirstTags' = FirstTags
  BY DEF FirstTags
<1>9. \A k, f : NamingTo(k, f)' = NamingTo(k, f)
  BY <1>1 DEF NamingTo
<1>10. \A k : TagsTo(k)' = TagsTo(k)
  BY <1>1, <1>8, <1>9 DEF TagsTo
<1>11. Readable' = Readable
  BY DEF Readable
<1>12. \A f : Naming(f)' = Naming(f)
  BY <1>2, <1>11 DEF Naming
<1>13. Expected' = Expected
  BY <1>12 DEF Expected
<1> QED BY <1>1, <1>2, <1>3, <1>4, <1>5, <1>6, <1>7, <1>8, <1>10, <1>13

LEMMA TagLengthIs ==
  ASSUME file \in Files, HasV2
  PROVE  TagLength \in Nat /\ (~ IsCut => TagLength = ID3size(file.v2.size))
<1>1. /\ Len(Frames) \in Nat /\ \A k \in 0 .. Len(Frames) : FrameEnds(Frames)[k] \in Nat
      /\ file.v2.pad \in Nat /\ file.v2.stuffed \in Nat
      /\ ID3size(file.v2.size) = FrameEnds(Frames)[Len(Frames)] + file.v2.pad + file.v2.stuffed
  BY FramesAre DEF HasV2
<1>2. FrameEnds(Frames)[Len(Frames)] \in Nat
  BY <1>1
<1>3. ID3size(file.v2.size) \in Nat
  BY <1>1, <1>2
<1> QED BY <1>3 DEF TagLength

LEMMA FilesInit == ReadInit => FilesInv
<1> SUFFICES ASSUME ReadInit PROVE FilesInv
  OBVIOUS
<1> QED BY DEF ReadInit, NoInfo, FilesInv, ReaderInv, TagsInv, StaysInTag, SearchInv, HeaderRead,
              MpegRead, FlacRead

(* Before the music is searched, and when nothing was found, nothing is    *)
(* said of it.                                                             *)
LEMMA OpenKeeps ==
  ASSUME FilesInv, Open
  PROVE  FilesInv'
<1>1. /\ stage = "open" /\ file' = file /\ fpos' = fpos /\ pos' = pos /\ tags' = tags
      /\ stage' = CASE Mpeg -> "v1" [] file.mime = "audio/flac" -> "v2" [] OTHER -> "done"
  BY DEF Open, Mpeg
<1>2. \/ stage' = "v1" /\ Mpeg
      \/ stage' = "v2" /\ ~ Mpeg /\ file.mime = "audio/flac"
      \/ stage' = "done" /\ ~ Mpeg /\ file.mime # "audio/flac"
  BY <1>1 DEF Mpeg
<1>3. Mpeg' = Mpeg
  BY <1>1 DEF Mpeg
<1>4. ReaderInv'
  BY <1>1, <1>2, <1>3 DEF FilesInv, ReaderInv, Open
<1>5. TagsInv' /\ StaysInTag' /\ SearchInv' /\ HeaderRead'
  BY <1>1, <1>2, <1>3 DEF TagsInv, StaysInTag, SearchInv, HeaderRead, MpegRead, FlacRead
<1> QED BY <1>4, <1>5 DEF FilesInv

LEMMA ReadV1Keeps ==
  ASSUME FilesInv, ReadV1
  PROVE  FilesInv'
<1>1. /\ stage = "v1" /\ stage' = "v2" /\ file' = file /\ fpos' = fpos /\ pos' = pos
      /\ file \in Files /\ Mpeg /\ tags = NoFields /\ fpos = 0 /\ pos = 1 /\ info' = info
  BY DEF ReadV1, FilesInv, ReaderInv
<1>2. tags' = FirstTags
  BY <1>1 DEF ReadV1, FirstTags
<1>3. Mpeg' = Mpeg /\ FirstTags' = FirstTags
  BY <1>1, SameFile
<1>4. ReaderInv'
  BY <1>1, <1>3 DEF FilesInv, ReaderInv
<1>5. TagsInv' /\ StaysInTag' /\ SearchInv' /\ HeaderRead'
  BY <1>1, <1>2, <1>3 DEF TagsInv, StaysInTag, SearchInv, HeaderRead, MpegRead, FlacRead
<1> QED BY <1>4, <1>5 DEF FilesInv

(* From a tag, or what is none, to the music: what was read is all there   *)
(* is to be read of the file.                                              *)
LEMMA MusicIsNext ==
  ASSUME ReaderInv, stage \in {"v2", "frames"},
         stage' = AfterTags, file' = file, pos' = pos, tags' = tags, info' = info,
         r2' = IF HasV2 THEN 10 + TagLength ELSE Refusal(file.v2),
         Mpeg /\ ~ LongV4 => tags = Expected
  PROVE  FilesInv'
<1>1. \/ stage' = "flac" /\ ~ Mpeg /\ file.mime = "audio/flac"
      \/ stage' = "mpeg" /\ Mpeg /\ file.mime # "audio/flac"
  BY DEF AfterTags, ReaderInv, Mpeg
<1>2. /\ Mpeg' = Mpeg /\ HasV2' = HasV2 /\ TagLength' = TagLength
      /\ LongV4' = LongV4 /\ Expected' = Expected
  BY SameFile
<1>3. ReaderInv'
  BY <1>1, <1>2 DEF ReaderInv
<1>4. TagsInv' /\ StaysInTag' /\ SearchInv' /\ HeaderRead'
  BY <1>1, <1>2 DEF ReaderInv, TagsInv, StaysInTag, SearchInv, HeaderRead, MpegRead, FlacRead
<1> QED BY <1>3, <1>4 DEF FilesInv

LEMMA ReadV2Keeps ==
  ASSUME FilesInv, ReadV2
  PROVE  FilesInv'
<1>1. /\ stage = "v2" /\ file' = file /\ fpos' = fpos /\ pos' = pos /\ tags' = tags /\ info' = info
      /\ file \in Files /\ fpos = 0 /\ pos = 1 /\ (Mpeg => tags = FirstTags)
      /\ Mpeg \/ file.mime = "audio/flac"
  BY DEF ReadV2, FilesInv, ReaderInv, TagsInv
<1>2. CASE Refusal(file.v2) # 0
  <2>1. ~ HasV2 /\ r2' = Refusal(file.v2) /\ stage' = AfterTags
    BY <1>2 DEF HasV2, ReadV2
  <2>2. Mpeg => tags = Expected
    BY <1>1, <2>1, NoFrames
  <2> QED BY <1>1, <2>1, <2>2, MusicIsNext DEF FilesInv
<1>3. CASE Refusal(file.v2) = 0
  <2>1. HasV2
    BY <1>3 DEF HasV2, Refusal
  <2>2. /\ r2' = 10 + TagLength /\ length2' = r2' - 10
        /\ stage' = IF length2' = 0 /\ 7 \in file.v2.flags THEN "wild" ELSE "frames"
    BY <1>3 DEF ReadV2, TagLength
  <2>3. length2' = TagLength
    BY <1>1, <2>1, <2>2, TagLengthIs
  <2>4. /\ Mpeg' = Mpeg /\ HasV2' = HasV2 /\ TagLength' = TagLength /\ Frames' = Frames
        /\ TagsTo(0)' = TagsTo(0)
    BY <1>1, SameFile
  <2>5. ReaderInv'
    BY <1>1, <2>1, <2>2, <2>4 DEF FilesInv, ReaderInv
  <2>6. StaysInTag' /\ SearchInv' /\ HeaderRead'
    BY <2>2 DEF StaysInTag, SearchInv, HeaderRead, MpegRead, FlacRead
  <2>7. FrameEnds(Frames)[0] = 0 /\ 0 \in 0 .. file.v2.onDisk
    BY <1>1, <2>1, FramesAre DEF HasV2
  <2>8. ReadTo(0)'
    <3>1. \A j \in 1 .. 0 : FALSE
      OBVIOUS
    <3>2. Mpeg => tags = TagsTo(0)
      BY <1>1, NoneRead
    <3> QED BY <1>1, <2>4, <2>7, <3>1, <3>2 DEF ReadTo
  <2>9. TagsInv'
    BY <1>1, <2>1, <2>2, <2>3, <2>4, <2>7, <2>8 DEF TagsInv
  <2> QED BY <2>5, <2>6, <2>9 DEF FilesInv
<1> QED BY <1>2, <1>3

(* Where the loop is among the frames, however long a tag it believes in. *)
LEMMA FramesHold ==
  ASSUME FilesInv, stage = "frames"
  PROVE  /\ file \in Files /\ HasV2 /\ length2 = TagLength /\ TagLength \in Nat /\ ReaderInv
         /\ r2 = IF HasV2 THEN 10 + TagLength ELSE Refusal(file.v2)
         /\ ~ LongV4 => \E k \in 0 .. file.v2.onDisk : ReadTo(k)
BY TagLengthIs DEF FilesInv, ReaderInv, TagsInv

(* A loop that goes on at a frame goes on at the next one. *)
LEMMA AtNextFrame ==
  ASSUME file \in Files, HasV2, NEW k \in 0 .. file.v2.onDisk, ReadTo(k), NEW i \in AtFrame
  PROVE  i = k + 1
<1> DEFINE n == Len(Frames)  end == FrameEnds(Frames)
<1>1. /\ n \in Nat /\ file.v2.onDisk \in 0 .. n /\ \A j \in 0 .. n : end[j] \in Nat
      /\ \A a, b \in 0 .. n : a < b => end[a] + 10 <= end[b]
  BY FramesAre DEF HasV2
<1>2. i \in 1 .. file.v2.onDisk /\ end[i - 1] = end[k]
  BY DEF AtFrame, FrameStart, ReadTo, Frames
<1> HIDE DEF n, end
<1>3. i - 1 \in 0 .. n /\ k \in 0 .. n
  BY <1>1, <1>2
<1>4. ~ (i - 1 < k) /\ ~ (k < i - 1)
  BY <1>1, <1>2, <1>3
<1> QED BY <1>2, <1>3, <1>4

LEMMA ReadFrameKeeps ==
  ASSUME FilesInv, ReadFrame
  PROVE  FilesInv'
<1>1. /\ stage = "frames" /\ stage' = "frames" /\ file' = file /\ r2' = r2
      /\ length2' = length2 /\ pos' = pos /\ info' = info
  BY DEF ReadFrame
<1>2. /\ file \in Files /\ HasV2 /\ length2 = TagLength
      /\ r2 = IF HasV2 THEN 10 + TagLength ELSE Refusal(file.v2)
      /\ ~ LongV4 => \E k \in 0 .. file.v2.onDisk : ReadTo(k)
  BY <1>1, FramesHold
<1>3. /\ Mpeg' = Mpeg /\ HasV2' = HasV2 /\ TagLength' = TagLength /\ Frames' = Frames
      /\ LongV4' = LongV4 /\ \A k : TagsTo(k)' = TagsTo(k)
  BY <1>1, SameFile
<1>4. ReaderInv'
  BY <1>1, <1>3 DEF FilesInv, ReaderInv
<1>5. StaysInTag' /\ SearchInv' /\ HeaderRead'
  BY <1>1 DEF StaysInTag, SearchInv, HeaderRead, MpegRead, FlacRead
<1>6. ASSUME ~ LongV4 PROVE \E k \in 0 .. file.v2.onDisk : ReadTo(k)'
  <2>1. PICK k \in 0 .. file.v2.onDisk : ReadTo(k)
    BY <1>2, <1>6
  <2>2. PICK i \in AtFrame :
          /\ Frames[i].data # <<>>
          /\ fpos' = fpos + 10 + SizeRead(Len(Frames[i].data))
          /\ tags' = IF Frames[i].id \in DOMAIN FrameField
                     THEN With(tags, FrameField[Frames[i].id], FrameText(Taken(Frames[i].data)))
                     ELSE tags
    BY DEF ReadFrame, Frames
  <2>3. i = k + 1
    BY <1>2, <2>1, AtNextFrame
  <2>4. /\ Len(Frames) \in Nat /\ file.v2.onDisk \in 0 .. Len(Frames)
        /\ file.v2.version \in Nat
        /\ \A j \in 1 .. Len(Frames) : Len(Frames[j].data) \in Nat
        /\ \A j \in 1 .. Len(Frames) :
             FrameEnds(Frames)[j] = FrameEnds(Frames)[j - 1] + 10 + Len(Frames[j].data)
    BY <1>2, FramesAre DEF HasV2
  <2>5. i \in 1 .. file.v2.onDisk /\ i \in 1 .. Len(Frames) /\ i - 1 = k /\ k \in Nat
    BY <2>3, <2>4 DEF AtFrame
  <2> DEFINE size == Len(Frames[i].data)
  <2>6. size \in Nat /\ (file.v2.version = 4 => size < 128)
    <3>1. size \in Nat
      BY <2>4, <2>5
    <3>2. file.v2.version = 4 => ~ (size >= 128)
      BY <1>2, <1>6, <2>5 DEF LongV4, Frames
    <3> HIDE DEF size
    <3> QED BY <3>1, <3>2
  <2>7. SizeRead(size) = size /\ Taken(Frames[i].data) = Frames[i].data
    <3>1. SizeRead(size) = size
      <4> HIDE DEF size
      <4>1. size < 128 => size \div 128 = 0 /\ size % 128 = size
        BY <2>6
      <4> QED BY <2>6, <4>1 DEF SizeRead
    <3> QED BY <2>6, <3>1 DEF Taken
  <2>8. fpos' = FrameEnds(Frames)[i]
    <3>1. fpos = FrameEnds(Frames)[i - 1]
      BY <2>1, <2>5 DEF ReadTo
    <3> QED BY <2>2, <2>4, <2>5, <2>7, <3>1
  <2>9. Mpeg => tags' = TagsTo(i)
    <3>1. Mpeg => tags = TagsTo(k)
      BY <2>1 DEF ReadTo
    <3> QED BY <1>2, <2>2, <2>3, <2>5, <2>7, <3>1, OneMore
  <2>10. \A j \in 1 .. i : Frames[j].data # <<>>
    <3>1. \A j \in 1 .. i : j \in 1 .. k \/ j = i
      BY <2>5
    <3> QED BY <2>1, <2>2, <3>1 DEF ReadTo
  <2>11. ReadTo(i)'
    BY <1>3, <2>8, <2>9, <2>10 DEF ReadTo
  <2> QED BY <2>5, <2>11
<1>7. TagsInv'
  BY <1>1, <1>2, <1>3, <1>6 DEF TagsInv
<1> QED BY <1>4, <1>5, <1>7 DEF FilesInv

(* A loop that ends has read every frame that can be read. *)
LEMMA LoopEnds ==
  ASSUME FilesInv, stage = "frames", stage' = AfterTags,
         UNCHANGED <<file, tags, r1, r2, fpos, length2, pos, version, info>>,
         NEW k \in 0 .. file.v2.onDisk, ReadTo(k),
         k = file.v2.onDisk \/ Frames[k + 1].data = <<>>
  PROVE  FilesInv'
<1>1. /\ file \in Files /\ HasV2 /\ ReaderInv
      /\ r2 = IF HasV2 THEN 10 + TagLength ELSE Refusal(file.v2)
  BY FramesHold
<1>2. Mpeg => tags = Expected
  BY <1>1, AllRead DEF ReadTo
<1> QED BY <1>1, <1>2, MusicIsNext

(* A tag with long frames of version 4 is not said to be read right. *)
LEMMA LongLoopEnds ==
  ASSUME FilesInv, stage = "frames", stage' = AfterTags, LongV4,
         UNCHANGED <<file, tags, r1, r2, fpos, length2, pos, version, info>>
  PROVE  FilesInv'
BY FramesHold, MusicIsNext

LEMMA ZeroFrameKeeps ==
  ASSUME FilesInv, ZeroFrame
  PROVE  FilesInv'
<1>1. /\ stage = "frames" /\ stage' = AfterTags
      /\ UNCHANGED <<file, tags, r1, r2, fpos, length2, pos, version, info>>
  BY DEF ZeroFrame
<1>2. CASE LongV4
  BY <1>1, <1>2, LongLoopEnds
<1>3. CASE ~ LongV4
  <2>1. file \in Files /\ HasV2
    BY <1>1, FramesHold
  <2>2. PICK k \in 0 .. file.v2.onDisk : ReadTo(k)
    BY <1>1, <1>3, FramesHold
  <2> DEFINE n == Len(Frames)  end == FrameEnds(Frames)
  <2>3. /\ n \in Nat /\ file.v2.onDisk \in 0 .. n /\ \A j \in 0 .. n : end[j] \in Nat
        /\ \A a, b \in 0 .. n : a < b => end[a] + 10 <= end[b]
    BY <2>1, FramesAre DEF HasV2
  <2>4. fpos = end[k]
    BY <2>2 DEF ReadTo
  <2>5. CASE AtPadding
    <3>1. ~ (file.v2.onDisk < n) /\ fpos >= end[n]
      BY <2>5 DEF AtPadding, IsCut, FramesEnd, Frames
    <3> HIDE DEF n, end
    <3>2. k \in 0 .. n /\ n \in 0 .. n /\ file.v2.onDisk = n
      BY <2>3, <3>1
    <3>3. ~ (k < n)
      BY <2>3, <2>4, <3>1, <3>2
    <3>4. k = file.v2.onDisk
      BY <2>3, <3>2, <3>3
    <3> QED BY <1>1, <2>2, <3>4, LoopEnds
  <2>6. CASE \E i \in AtFrame : Frames[i].data = <<>>
    <3>1. PICK i \in AtFrame : Frames[i].data = <<>>
      BY <2>6
    <3>2. i = k + 1
      BY <2>1, <2>2, AtNextFrame
    <3> QED BY <1>1, <2>2, <3>1, <3>2, LoopEnds
  <2> QED BY <2>5, <2>6 DEF ZeroFrame, Frames
<1> QED BY <1>2, <1>3

(* Where there is no frame, they are behind. *)
LEMMA NoFrameLeft ==
  ASSUME file \in Files, HasV2, NEW k \in 0 .. file.v2.onDisk, ReadTo(k), AtFrame = {}
  PROVE  k = file.v2.onDisk
<1>1. file.v2.onDisk \in Nat
  BY FramesAre DEF HasV2
<1> SUFFICES ASSUME k # file.v2.onDisk PROVE FALSE
  OBVIOUS
<1>2. k + 1 \in 1 .. file.v2.onDisk /\ (k + 1) - 1 = k
  BY <1>1
<1>3. FrameStart(k + 1) = fpos
  BY <1>2 DEF FrameStart, ReadTo, Frames
<1> QED BY <1>2, <1>3 DEF AtFrame

LEMMA ReadBeyondKeeps ==
  ASSUME FilesInv, ReadBeyond
  PROVE  FilesInv'
<1>1. /\ stage = "frames" /\ stage' \in {AfterTags, "wild"} /\ InTag /\ AtFrame = {} /\ ~ AtPadding
      /\ UNCHANGED <<file, tags, r1, r2, fpos, length2, pos, version, info>>
  BY DEF ReadBeyond
<1>2. /\ file \in Files /\ HasV2 /\ length2 = TagLength /\ TagLength \in Nat /\ ReaderInv
      /\ ~ LongV4 => \E k \in 0 .. file.v2.onDisk : ReadTo(k)
  BY <1>1, FramesHold
<1>3. CASE stage' = AfterTags
  <2>1. CASE LongV4
    BY <1>1, <1>3, <2>1, LongLoopEnds
  <2>2. CASE ~ LongV4
    <3>1. PICK k \in 0 .. file.v2.onDisk : ReadTo(k)
      BY <1>2, <2>2
    <3>2. k = file.v2.onDisk
      BY <1>1, <1>2, <3>1, NoFrameLeft
    <3> QED BY <1>1, <1>3, <3>1, <3>2, LoopEnds
  <2> QED BY <2>1, <2>2
<1>4. CASE stage' = "wild"
  <2>1. LongV4' = LongV4 /\ IsCut' = IsCut
    BY <1>1, SameFile
  <2>2. ReaderInv' /\ TagsInv' /\ SearchInv' /\ HeaderRead'
    BY <1>1, <1>2, <1>4 DEF ReaderInv, TagsInv, SearchInv, HeaderRead, MpegRead, FlacRead
  <2>3. ASSUME ~ IsCut, ~ LongV4, ~ (file.v2.stuffed > 0), ~ (length2 < 5)
        PROVE  file.v2.pad \in {6, 7}
    <3>1. PICK k \in 0 .. file.v2.onDisk : ReadTo(k)
      BY <1>2, <2>3
    <3>2. k = file.v2.onDisk
      BY <1>1, <1>2, <3>1, NoFrameLeft
    <3> DEFINE n == Len(Frames)  end == FrameEnds(Frames)[n]  pad == file.v2.pad
    <3>3. /\ n \in Nat /\ file.v2.onDisk \in 0 .. n /\ end \in Nat /\ pad \in Nat
          /\ file.v2.stuffed \in Nat
          /\ ID3size(file.v2.size) = end + pad + file.v2.stuffed
      <4>1. n \in Nat /\ \A j \in 0 .. n : FrameEnds(Frames)[j] \in Nat
        BY <1>2, FramesAre DEF HasV2
      <4>2. end \in Nat
        BY <4>1
      <4> QED BY <1>2, <4>2, FramesAre DEF HasV2
    <3>4. k = n
      BY <2>3, <3>2, <3>3 DEF IsCut, Frames
    <3>5. fpos = end
      BY <3>1, <3>4 DEF ReadTo
    <3>6. length2 = end + pad
      BY <1>2, <2>3, <3>3, TagLengthIs
    <3>7. ~ (fpos >= end /\ fpos + 8 <= end + pad)
      BY <1>1, <2>3 DEF AtPadding, FramesEnd, Frames
    <3>8. fpos < length2 - 5
      BY <1>1, <2>3 DEF InTag
    <3> HIDE DEF end, pad
    <3>9. pad \in {6, 7}
      BY <3>3, <3>5, <3>6, <3>7, <3>8
    <3> QED BY <3>9 DEF pad
  <2>4. StaysInTag'
    BY <1>1, <2>1, <2>3 DEF StaysInTag
  <2> QED BY <2>2, <2>4 DEF FilesInv
<1> QED BY <1>1, <1>3, <1>4

(* The loop ends five bytes before the tag, so that a frame is not missed. *)
LEMMA FramesDoneKeeps ==
  ASSUME FilesInv, FramesDone
  PROVE  FilesInv'
<1>1. /\ stage = "frames" /\ stage' = AfterTags /\ ~ InTag
      /\ UNCHANGED <<file, tags, r1, r2, fpos, length2, pos, version, info>>
  BY DEF FramesDone
<1>2. CASE LongV4
  BY <1>1, <1>2, LongLoopEnds
<1>3. CASE ~ LongV4
  <2>1. file \in Files /\ HasV2 /\ length2 = TagLength
    BY <1>1, FramesHold
  <2>2. PICK k \in 0 .. file.v2.onDisk : ReadTo(k)
    BY <1>1, <1>3, FramesHold
  <2> DEFINE n == Len(Frames)  end == FrameEnds(Frames)
  <2>3. /\ n \in Nat /\ file.v2.onDisk \in 0 .. n /\ \A j \in 0 .. n : end[j] \in Nat
        /\ \A a, b \in 0 .. n : a < b => end[a] + 10 <= end[b]
        /\ file.v2.pad \in Nat /\ file.v2.stuffed \in Nat
        /\ ID3size(file.v2.size) = end[n] + file.v2.pad + file.v2.stuffed
    BY <2>1, FramesAre DEF HasV2
  <2>4. fpos = end[k] /\ ~ (length2 < 5) /\ ~ (fpos < length2 - 5)
    BY <1>1, <2>2 DEF ReadTo, InTag
  <2>5. ~ IsCut
    BY <2>1, <2>4 DEF TagLength
  <2>6. file.v2.onDisk = n
    BY <2>3, <2>5 DEF IsCut, Frames
  <2>7. length2 = end[n] + file.v2.pad + file.v2.stuffed
    BY <2>1, <2>3, <2>5, TagLengthIs
  <2> HIDE DEF n, end
  <2>8. k \in 0 .. n /\ n \in 0 .. n /\ end[k] \in Nat /\ end[n] \in Nat
    BY <2>3, <2>6
  <2>9. ~ (k < n)
    <3> SUFFICES ASSUME k < n PROVE FALSE
      OBVIOUS
    <3>1. end[k] + 10 <= end[n]
      BY <2>3, <2>8
    <3> QED BY <2>3, <2>4, <2>7, <2>8, <3>1
  <2>10. k = file.v2.onDisk
    BY <2>6, <2>8, <2>9
  <2> QED BY <1>1, <2>2, <2>10, LoopEnds
<1> QED BY <1>2, <1>3

(* The version bits of a header whose version is not the reserved one.     *)
LEMMA VersionIs ==
  ASSUME NEW b \in Byte, (b \div 8) % 4 # 1
  PROVE  VersionOf(b) \in {1, 2, 4} /\ VersionOf(b)' = VersionOf(b)
<1> DEFINE q == (b \div 8) % 4
<1>1. q \in {0, 2, 3}
  BY DEF Byte
<1> HIDE DEF q
<1>2. \A v : /\ <<4, v, 2, 1>>[1] = 4 /\ <<4, v, 2, 1>>[3] = 2 /\ <<4, v, 2, 1>>[4] = 1
  OBVIOUS
<1>3. /\ VersionOf(b) = <<4, version, 2, 1>>[1 + q]
      /\ VersionOf(b)' = <<4, version', 2, 1>>[1 + q]
  BY DEF VersionOf, q
<1>4. 1 + 0 = 1 /\ 1 + 2 = 3 /\ 1 + 3 = 4
  OBVIOUS
<1> QED BY <1>1, <1>2, <1>3, <1>4

LEMMA RateIs ==
  ASSUME NEW v \in {1, 2, 4}, NEW b \in Byte, (b \div 4) % 4 # 3
  PROVE  RateOf(v, b) # 0
<1> DEFINE q == (b \div 4) % 4
           table == <<44100, 48000, 32000, 0>>
<1>1. q \in {0, 1, 2}
  BY DEF Byte
<1>2. table[1 + q] \in {44100, 48000, 32000}
  <2> HIDE DEF q
  <2> QED BY <1>1
<1> HIDE DEF q, table
<1>3. \A t \in {44100, 48000, 32000} : t \div v # 0
  OBVIOUS
<1>4. RateOf(v, b) = table[1 + q] \div v
  BY DEF RateOf, table, q
<1> QED BY <1>2, <1>3, <1>4

(* The search starts behind nothing or in front of the last byte of what    *)
(* was read of the tag: fseek(max(0, r2-1)).                               *)
LEMMA MaxOfTwo ==
  ASSUME NEW n \in Int
  PROVE  Max({0, n}) = IF n > 0 THEN n ELSE 0
<1> DEFINE m == IF n > 0 THEN n ELSE 0
<1>1. m \in {0, n} /\ \A y \in {0, n} : m >= y
  OBVIOUS
<1>2. \A x \in {0, n} : (\A y \in {0, n} : x >= y) => x = m
  OBVIOUS
<1> HIDE DEF m
<1>3. Max({0, n}) \in {0, n} /\ \A y \in {0, n} : Max({0, n}) >= y
  BY <1>1 DEF Max
<1> QED BY <1>2, <1>3 DEF m

TagBytes == IF file.v2 = NoTag THEN <<>> ELSE file.v2.raw

LEMMA SearchStarts ==
  ASSUME ReaderInv, stage = "mpeg"
  PROVE  /\ TagBytes \in Seq(Byte) /\ Len(TagBytes) \in Nat
         /\ Max({0, r2 - 1}) \in 0 .. Len(TagBytes)
<1>1. /\ file \in Files
      /\ r2 = IF HasV2 THEN 10 + TagLength ELSE Refusal(file.v2)
  BY DEF ReaderInv
<1>2. CASE ~ HasV2
  <2>1. r2 \in {-1, -2, -3, -4}
    BY <1>1, <1>2 DEF HasV2, Refusal
  <2>2. Max({0, r2 - 1}) = 0
    BY <2>1, MaxOfTwo
  <2>3. TagBytes \in Seq(Byte) /\ Len(TagBytes) \in Nat
    BY <1>1, FilesAssumption DEF IsFile, IsTag, TagBytes
  <2> QED BY <2>2, <2>3
<1>3. CASE HasV2
  <2>1. /\ TagBytes = file.v2.raw /\ file.v2.raw \in Seq(Byte) /\ Len(file.v2.raw) >= 10
        /\ file.v2.onDisk = Len(Frames) => Len(file.v2.raw) = 10 + ID3size(file.v2.size)
    BY <1>1, <1>3, FilesAssumption DEF IsFile, IsTag, TagBytes, HasV2, Frames
  <2>2. Len(file.v2.raw) \in Nat
    BY <2>1
  <2>3. file.v2.onDisk \in 0 .. Len(Frames) /\ Len(Frames) \in Nat
    BY <1>1, <1>3, FramesAre
  <2>4. TagLength \in Nat /\ r2 = 10 + TagLength /\ TagLength + 10 <= Len(file.v2.raw)
    <3>1. TagLength \in Nat
      BY <1>1, <1>3, TagLengthIs
    <3>2. CASE IsCut
      BY <1>1, <1>3, <2>1, <3>1, <3>2 DEF TagLength
    <3>3. CASE ~ IsCut
      <4>1. file.v2.onDisk = Len(Frames)
        BY <2>3, <3>3 DEF IsCut, Frames
      <4>2. TagLength = ID3size(file.v2.size)
        BY <3>3 DEF TagLength
      <4> QED BY <1>1, <1>3, <2>1, <2>2, <3>1, <4>1, <4>2
    <3> QED BY <3>2, <3>3
  <2>5. Max({0, r2 - 1}) = r2 - 1
    <3>1. r2 - 1 \in Int /\ r2 - 1 > 0
      BY <2>4
    <3> QED BY <3>1, MaxOfTwo
  <2> QED BY <2>1, <2>2, <2>4, <2>5
<1> QED BY <1>2, <1>3

(* The bytes the search runs over end with the music.                      *)
LEMMA ScannedIs ==
  ASSUME ReaderInv, stage = "mpeg", MusicFirst
  PROVE  /\ Len(file.audio) \in Nat /\ file.audio[2] \in Byte /\ file.audio[3] \in Byte
         /\ Before \in Nat
         /\ Len(Scanned) = Before + Len(file.audio)
         /\ \A i \in 1 .. Len(file.audio) : Scanned[Before + i] = file.audio[i]
<1> DEFINE t == TagBytes  a == file.audio  s == Max({0, r2 - 1})
<1>1. a \in Seq(Byte) /\ Len(a) \in Nat /\ Len(a) >= 4
  BY FilesAssumption DEF ReaderInv, IsFile, Mpeg, MusicFirst
<1>2. a[2] \in Byte /\ a[3] \in Byte
  <2>1. 2 \in 1 .. Len(a) /\ 3 \in 1 .. Len(a)
    BY <1>1
  <2> QED BY <1>1, <2>1, ElementOfSeq
<1>3. t \in Seq(Byte) /\ Len(t) \in Nat /\ s \in 0 .. Len(t)
  BY SearchStarts
<1>4. Bytes = t \o a /\ Scanned = SubSeq(t \o a, s + 1, Len(t \o a))
  BY DEF Scanned, Bytes, TagBytes
<1> DEFINE b == t \o a
<1> HIDE DEF t, a, s
<1>5. /\ b \in Seq(Byte) /\ Len(b) = Len(t) + Len(a)
      /\ \A i \in 1 .. Len(t) + Len(a) : b[i] = IF i <= Len(t) THEN t[i] ELSE a[i - Len(t)]
  BY <1>1, <1>3, ConcatProperties
<1> HIDE DEF b
<1>6. /\ Len(SubSeq(b, s + 1, Len(b))) = Len(b) - s
      /\ \A i \in 1 .. Len(b) - s : SubSeq(b, s + 1, Len(b))[i] = b[s + i]
  <2>1. s + 1 \in Int /\ Len(b) \in Int /\ s + 1 <= Len(b)
    BY <1>1, <1>3, <1>5
  <2>2. \A i \in s + 1 .. Len(b) : b[i] \in Byte
    <3>1. \A i \in s + 1 .. Len(b) : i \in 1 .. Len(b)
      BY <1>3, <2>1
    <3> QED BY <1>5, <3>1, ElementOfSeq
  <2>3. /\ Len(SubSeq(b, s + 1, Len(b))) = Len(b) - (s + 1) + 1
        /\ \A i \in 1 .. Len(b) - (s + 1) + 1 : SubSeq(b, s + 1, Len(b))[i] = b[(s + 1) + i - 1]
    BY <2>1, <2>2, SubSeqProperties
  <2>4. Len(b) - (s + 1) + 1 = Len(b) - s
    BY <1>3, <2>1
  <2> DEFINE u == SubSeq(b, s + 1, Len(b))
  <2>5. /\ Len(u) = Len(b) - s
        /\ \A i \in 1 .. Len(b) - s : u[i] = b[(s + 1) + i - 1]
    BY <2>3, <2>4
  <2> HIDE DEF u
  <2>6. ASSUME NEW i \in 1 .. Len(b) - s PROVE u[i] = b[s + i]
    <3>1. (s + 1) + i - 1 = s + i
      BY <1>3, <2>1
    <3> QED BY <2>5, <3>1
  <2> QED BY <2>5, <2>6 DEF u
<1>7. Len(Scanned) = Len(t) + Len(a) - s /\ Before = Len(t) - s
  BY <1>1, <1>3, <1>4, <1>5, <1>6 DEF Before, b, a
<1>8. ASSUME NEW i \in 1 .. Len(a) PROVE Scanned[Before + i] = a[i]
  <2>1. /\ Before + i \in 1 .. Len(b) - s /\ s + (Before + i) = Len(t) + i
        /\ Len(t) + i \in 1 .. Len(t) + Len(a) /\ ~ (Len(t) + i <= Len(t))
        /\ (Len(t) + i) - Len(t) = i
    BY <1>1, <1>3, <1>5, <1>7
  <2>2. Scanned[Before + i] = b[Len(t) + i]
    BY <1>4, <1>6, <2>1 DEF b
  <2> QED BY <1>5, <2>1, <2>2
<1>9. Before \in Nat /\ Len(Scanned) = Before + Len(a)
  BY <1>1, <1>3, <1>7
<1> QED BY <1>1, <1>2, <1>8, <1>9 DEF a

(* The search passes the bytes before the music one by one, and takes the  *)
(* header at the first byte of it for one.                                 *)
LEMMA SearchFinds ==
  ASSUME FilesInv, Sync, MusicFirst, NoFF
  PROVE  \/ stage' = "mpeg" /\ pos' \in 1 .. Before + 1
         \/ stage' = "done" /\ info'.rate = RateOf(VersionOf(file.audio[2]), file.audio[3])
<1> DEFINE a == file.audio
<1>1. /\ ReaderInv /\ stage = "mpeg" /\ "rate" \in DOMAIN info /\ Len(a) >= 4
      /\ a[1] = 255 /\ a[2] >= 224 /\ (a[2] \div 8) % 4 # 1 /\ (a[3] \div 4) % 4 # 3
      /\ pos = 1 \/ pos \in 1 .. Before + 1
  BY DEF Sync, FilesInv, ReaderInv, SearchInv, MusicFirst
<1>2. /\ Len(a) \in Nat /\ a[2] \in Byte /\ a[3] \in Byte
      /\ Before \in Nat /\ Len(Scanned) = Before + Len(a)
      /\ \A i \in 1 .. Len(a) : Scanned[Before + i] = a[i]
  BY <1>1, ScannedIs
<1>3. RateOf(VersionOf(a[2]), a[3]) # 0
  BY <1>1, <1>2, VersionIs, RateIs
<1>4. PICK b1 \in ByteAt(pos), b2 \in ByteAt(pos + 1), b3 \in ByteAt(pos + 2) :
        LET found == b1 = 255 /\ b2 >= 224 /\ RateOf(VersionOf(b2), b3) # 0
            reads == IF b1 = 255 THEN 4 ELSE 1
            audio == r1 >= 0 \/ r2 >= 0
        IN
        /\ version' = IF b1 = 255 /\ b2 >= 224 THEN VersionOf(b2) ELSE version
        /\ pos' = pos + reads
        /\ stage' = IF found \/ pos + reads - 1 > Len(Scanned) THEN "done" ELSE "mpeg"
        /\ info' = IF found
                   THEN [info EXCEPT !.rate = RateOf(VersionOf(b2), b3), !.isAudio = audio,
                             !.secs = IF b3 \div 16 \in {0, 15} THEN "undefined" ELSE "known"]
                   ELSE [info EXCEPT !.isAudio = stage' = "done" /\ audio]
  BY Zenon DEF Sync
<1>5. CASE pos \in 1 .. Before
  <2>1. /\ pos <= Len(Scanned) /\ pos + 1 \in 1 .. Before + 1
        /\ ~ (pos + 1 - 1 > Len(Scanned))
    BY <1>1, <1>2, <1>5
  <2>2. b1 = Scanned[pos]
    BY <2>1 DEF ByteAt
  <2>3. b1 # 255
    BY <1>5, <2>2 DEF NoFF
  <2>4. pos' = pos + 1 /\ stage' = "mpeg"
    BY <1>4, <2>1, <2>3
  <2> QED BY <2>1, <2>4
<1>6. CASE pos = Before + 1
  <2>1. /\ 1 \in 1 .. Len(a) /\ 2 \in 1 .. Len(a) /\ 3 \in 1 .. Len(a)
        /\ pos + 1 = Before + 2 /\ pos + 2 = Before + 3
        /\ pos <= Len(Scanned) /\ pos + 1 <= Len(Scanned) /\ pos + 2 <= Len(Scanned)
    BY <1>1, <1>2, <1>6
  <2>2. Scanned[pos] = a[1] /\ Scanned[pos + 1] = a[2] /\ Scanned[pos + 2] = a[3]
    BY <1>2, <1>6, <2>1
  <2>3. ByteAt(pos) = {a[1]} /\ ByteAt(pos + 1) = {a[2]} /\ ByteAt(pos + 2) = {a[3]}
    BY <2>1, <2>2 DEF ByteAt
  <2>4. b1 = 255 /\ b2 = a[2] /\ b3 = a[3]
    BY <1>1, <2>3
  <2>5. stage' = "done"
    BY <1>1, <1>3, <1>4, <2>4
  <2>6. info' = [info EXCEPT !.rate = RateOf(VersionOf(a[2]), a[3]),
                             !.isAudio = r1 >= 0 \/ r2 >= 0,
                             !.secs = IF b3 \div 16 \in {0, 15} THEN "undefined" ELSE "known"]
    BY <1>1, <1>3, <1>4, <2>4
  <2> QED BY <1>1, <2>5, <2>6
<1>7. pos \in 1 .. Before \/ pos = Before + 1
  BY <1>1, <1>2
<1> QED BY <1>5, <1>6, <1>7

LEMMA SyncKeeps ==
  ASSUME FilesInv, Sync
  PROVE  FilesInv'
<1>1. /\ stage = "mpeg" /\ file' = file /\ tags' = tags /\ r2' = r2 /\ Mpeg
      /\ file \in Files /\ ReaderInv
  BY DEF Sync, FilesInv, ReaderInv
<1>2. PICK b1 \in ByteAt(pos), b2 \in ByteAt(pos + 1), b3 \in ByteAt(pos + 2) :
        LET found == b1 = 255 /\ b2 >= 224 /\ RateOf(VersionOf(b2), b3) # 0
            reads == IF b1 = 255 THEN 4 ELSE 1
            audio == r1 >= 0 \/ r2 >= 0
        IN
        /\ version' = IF b1 = 255 /\ b2 >= 224 THEN VersionOf(b2) ELSE version
        /\ pos' = pos + reads
        /\ stage' = IF found \/ pos + reads - 1 > Len(Scanned) THEN "done" ELSE "mpeg"
        /\ info' = IF found
                   THEN [info EXCEPT !.rate = RateOf(VersionOf(b2), b3), !.isAudio = audio,
                             !.secs = IF b3 \div 16 \in {0, 15} THEN "undefined" ELSE "known"]
                   ELSE [info EXCEPT !.isAudio = stage' = "done" /\ audio]
  BY Zenon DEF Sync
<1>3. stage' \in {"mpeg", "done"} /\ DOMAIN info' = DOMAIN info
  BY <1>2
<1>4. /\ Mpeg' = Mpeg /\ HasV2' = HasV2 /\ TagLength' = TagLength /\ LongV4' = LongV4
      /\ Expected' = Expected /\ MusicFirst' = MusicFirst
      /\ Scanned' = Scanned /\ Before' = Before /\ NoFF' = NoFF
  BY <1>1, SameFile
<1>5. ReaderInv'
  BY <1>1, <1>3, <1>4 DEF ReaderInv
<1>6. TagsInv' /\ StaysInTag'
  BY <1>1, <1>3, <1>4 DEF FilesInv, TagsInv, StaysInTag
<1>7. SearchInv'
  BY <1>1, <1>4, SearchFinds DEF SearchInv
<1>8. MpegRead'
  <2> SUFFICES ASSUME stage' = "done", MusicFirst, NoFF
               PROVE  info'.rate = RateOf(VersionOf(file.audio[2])', file.audio[3])
    BY <1>1, <1>4 DEF MpegRead, MusicFirst, NoFF, Before, RateOf, VersionOf
  <2>1. info'.rate = RateOf(VersionOf(file.audio[2]), file.audio[3])
    BY SearchFinds
  <2>2. VersionOf(file.audio[2])' = VersionOf(file.audio[2])
    <3>1. file.audio[2] \in Byte /\ (file.audio[2] \div 8) % 4 # 1
      BY <1>1, ScannedIs DEF MusicFirst
    <3>2. \A b \in Byte : (b \div 8) % 4 # 1 => VersionOf(b)' = VersionOf(b)
      BY VersionIs
    <3> QED BY <1>1, <3>1, <3>2 DEF VersionOf
  <2> QED BY <2>1, <2>2
<1>9. FlacRead'
  BY <1>1 DEF FlacRead, Mpeg
<1> QED BY <1>5, <1>6, <1>7, <1>8, <1>9 DEF FilesInv, HeaderRead

(* The three fields of a word, and what is left of it below them.          *)
LEMMA WordSplit ==
  ASSUME NEW w \in Nat
  PROVE  StreamRate(w) * 4096 + (StreamChannels(w) - 1) * 512 + (StreamBits(w) - 1) * 16
           = w - (w % 16)
<1> DEFINE a == w \div 16  b == a \div 32  c == b \div 8
<1>1. a \in Nat /\ w = 16 * a + (w % 16)
  OBVIOUS
<1>2. b \in Nat /\ a = 32 * b + (a % 32) /\ a % 32 \in Nat
  <2> HIDE DEF a
  <2> QED BY <1>1
<1>3. c \in Nat /\ b = 8 * c + (b % 8) /\ b % 8 \in Nat
  <2> HIDE DEF b
  <2> QED BY <1>2
<1>4. b = w \div 512 /\ c = w \div 4096
  OBVIOUS
<1>5. /\ StreamRate(w) = c /\ StreamChannels(w) = (b % 8) + 1 /\ StreamBits(w) = (a % 32) + 1
  BY <1>4 DEF StreamRate, StreamChannels, StreamBits
<1> DEFINE r == w % 16  s == a % 32  t == b % 8
<1>6. r \in Nat
  OBVIOUS
<1> HIDE DEF a, b, c, r, s, t
<1>7. c * 4096 + ((t + 1) - 1) * 512 + ((s + 1) - 1) * 16 = w - r
  BY <1>1, <1>2, <1>3, <1>6 DEF r, s, t
<1> QED BY <1>5, <1>7 DEF r, s, t

LEMMA FlacKeeps ==
  ASSUME FilesInv, Flac
  PROVE  FilesInv'
<1>1. /\ stage = "flac" /\ stage' = "done" /\ file' = file /\ tags' = tags /\ r2' = r2
      /\ file \in Files /\ file.mime = "audio/flac" /\ ~ Mpeg
      /\ {"rate", "bits", "channels", "isAudio"} \subseteq DOMAIN info
      /\ r2 = IF HasV2 THEN 10 + TagLength ELSE Refusal(file.v2)
  BY DEF Flac, FilesInv, ReaderInv, Mpeg
<1>2. /\ Mpeg' = Mpeg /\ HasV2' = HasV2 /\ IsCut' = IsCut
  BY <1>1, SameFile
<1>3. DOMAIN info' = DOMAIN info
  BY DEF Flac
<1>4. ReaderInv'
  BY <1>1, <1>3 DEF ReaderInv
<1>5. TagsInv' /\ StaysInTag' /\ SearchInv' /\ MpegRead'
  BY <1>1, <1>2 DEF TagsInv, StaysInTag, SearchInv, MpegRead
<1>6. FlacRead'
  <2> SUFFICES ASSUME file.audio.magic, file.v2 # NoTag => HasV2 /\ ~ IsCut,
                      file.audio.block = 0
               PROVE  /\ info'.isAudio
                      /\ info'.rate * 4096 + (info'.channels - 1) * 512 + (info'.bits - 1) * 16
                           = file.audio.word - (file.audio.word % 16)
    BY <1>1, <1>2 DEF FlacRead
  <2>1. file.v2 = NoTag \/ (r2 > 0 /\ ~ IsCut)
    BY <1>1, TagLengthIs
  <2>2. BlockType(file.audio.block) = 0
    BY DEF BlockType
  <2> DEFINE w == file.audio.word
  <2>3. info' = [info EXCEPT !.isAudio = TRUE, !.bits = StreamBits(w),
                             !.channels = StreamChannels(w), !.rate = StreamRate(w)]
    BY <2>1, <2>2 DEF Flac
  <2>4. w \in Nat
    BY <1>1, FilesAssumption DEF IsFile
  <2> HIDE DEF w
  <2>5. /\ info'.isAudio = TRUE /\ info'.bits = StreamBits(w)
        /\ info'.channels = StreamChannels(w) /\ info'.rate = StreamRate(w)
    BY <1>1, <2>3
  <2>6. StreamRate(w) * 4096 + (StreamChannels(w) - 1) * 512 + (StreamBits(w) - 1) * 16
          = w - (w % 16)
    BY <2>4, WordSplit
  <2> QED BY <2>5, <2>6 DEF w
<1> QED BY <1>4, <1>5, <1>6 DEF FilesInv, HeaderRead

LEMMA FilesUnchanged ==
  ASSUME FilesInv, UNCHANGED fileVars
  PROVE  FilesInv'
<1>1. /\ file' = file /\ stage' = stage /\ tags' = tags /\ r2' = r2 /\ fpos' = fpos
      /\ length2' = length2 /\ pos' = pos /\ version' = version /\ info' = info
  BY DEF fileVars
<1>2. /\ Frames' = Frames /\ HasV2' = HasV2 /\ LongV4' = LongV4 /\ IsCut' = IsCut
      /\ TagLength' = TagLength /\ Mpeg' = Mpeg
      /\ Scanned' = Scanned /\ Before' = Before /\ NoFF' = NoFF
      /\ MusicFirst' = MusicFirst /\ FirstTags' = FirstTags /\ Expected' = Expected
      /\ \A k : TagsTo(k)' = TagsTo(k)
  BY <1>1, SameFile
<1>3. ReaderInv'
  BY <1>1, <1>2 DEF FilesInv, ReaderInv
<1>4. \A k : ReadTo(k) => ReadTo(k)'
  BY <1>1, <1>2 DEF ReadTo
<1>5. TagsInv'
  BY <1>1, <1>2, <1>4 DEF FilesInv, TagsInv
<1>6. StaysInTag' /\ SearchInv'
  BY <1>1, <1>2 DEF FilesInv, StaysInTag, SearchInv
<1>7. HeaderRead'
  BY <1>1, <1>2 DEF FilesInv, HeaderRead, MpegRead, FlacRead, VersionOf, RateOf
<1> QED BY <1>3, <1>5, <1>6, <1>7 DEF FilesInv

LEMMA FilesAlways == ReadSpec => []FilesInv
<1>1. FilesInv /\ [ReadNext]_fileVars => FilesInv'
  BY OpenKeeps, ReadV1Keeps, ReadV2Keeps, ReadFrameKeeps, ZeroFrameKeeps, ReadBeyondKeeps,
     FramesDoneKeeps, SyncKeeps, FlacKeeps, FilesUnchanged DEF ReadNext
<1> QED BY <1>1, FilesInit, PTL DEF ReadSpec

(* A file that was read has the fields of its last readable frame for each *)
(* and those of its first tag for the rest, also when the tag is cut       *)
(* short: tagID3v2 and fileInfo::fileInfo.                                 *)
THEOREM TagsOfFile == ReadSpec => []TagsRight
<1>1. FilesInv => TagsRight
  BY DEF FilesInv, TagsInv, TagsRight
<1> QED BY <1>1, FilesAlways, PTL

(* The loop of tagID3v2 uses bytes that are no frame only for the files    *)
(* that are listed, whatever else is in them.                              *)
THEOREM LoopInTag == ReadSpec => []StaysInTag
<1>1. FilesInv => StaysInTag
  BY DEF FilesInv
<1> QED BY <1>1, FilesAlways, PTL

(* The header of the music is found behind any tag, also one that was      *)
(* refused or cut, when no byte the search meets before it is an FF, and   *)
(* read right: readMpegHeader and flac::parseHeader.                       *)
THEOREM HeaderFound == ReadSpec => []HeaderRead
<1>1. FilesInv => HeaderRead
  BY DEF FilesInv
<1> QED BY <1>1, FilesAlways, PTL
============================================================================
