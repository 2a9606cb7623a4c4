------------------------------ MODULE FeedProofs ------------------------------
(***************************************************************************)
(* The feed, for any instruments, any lines and any time-outs: its         *)
(* connection, what the serializer makes of the bytes, and the prices in   *)
(* the market profile.                                                     *)
(***************************************************************************)
EXTENDS FeedSource, SimpleSocket, SequenceTheorems, WellFoundedInduction, TLAPS

-----------------------------------------------------------------------------
(* Numbers.                                                                *)

LEMMA LeastNatural ==
    ASSUME NEW S, S \subseteq Nat, S # {}
    PROVE  \E i \in S : \A j \in S : i =< j
<1> DEFINE R == {p \in Nat \X Nat : p[1] < p[2]}
<1>1. IsWellFoundedOn(R, Nat)
  BY NatLessThanWellFounded DEF OpToRel
<1>2. PICK i \in S : \A j \in S : ~ (<< j, i >> \in R)
  <2> HIDE DEF R
  <2> QED
    BY <1>1, WFMin
<1>3. \A j \in S : j < i => << j, i >> \in R
  OBVIOUS
<1> HIDE DEF R
<1>4. \A j \in S : ~ (j < i)
  BY <1>2, <1>3
<1> QED
  BY <1>4

\* Induction, of a set.
LEMMA Inductive ==
    ASSUME NEW S, 0 \in S, \A m \in Nat : m \in S => m + 1 \in S
    PROVE  \A n \in Nat : n \in S
<1> SUFFICES ASSUME Nat \ S # {} PROVE FALSE
  OBVIOUS
<1>1. PICK m \in Nat \ S : \A k \in Nat \ S : m =< k
  <2>1. Nat \ S \subseteq Nat
    OBVIOUS
  <2> QED
    BY <2>1, LeastNatural
<1>2. m - 1 \in Nat /\ m - 1 \in S
  BY <1>1
<1> QED
  BY <1>1, <1>2

LEMMA MaxIs ==
    ASSUME NEW S, S \subseteq Int, NEW m \in S, \A k \in S : k =< m
    PROVE  Max(S) = m
<1>1. \A x \in S : (\A y \in S : x >= y) => x = m
  OBVIOUS
<1> QED
  BY <1>1 DEF Max

LEMMA MinIs ==
    ASSUME NEW S, S \subseteq Nat, S # {}
    PROVE  Min(S) \in S /\ \A k \in S : Min(S) =< k
<1>1. \E i \in S : \A j \in S : i =< j
  BY LeastNatural
<1> QED
  BY <1>1 DEF Min

-----------------------------------------------------------------------------
(* Deserialize: what it leaves of the bytes.                               *)

Byte == Symbols \cup Nat \cup {CR, LF, Nul}

\* What is left of the first 0, 1, ... n bytes.
Kept(h, bytes, n) ==
    /\ h = [k \in 0..n |-> h[k]]
    /\ h[0] = << >>
    /\ \A k \in 1..n : h[k] = Add(h[k - 1], bytes[k])

LEMMA KeptSteps ==
    ASSUME NEW h, NEW bytes, NEW n \in Nat, Kept(h, bytes, n)
    PROVE  /\ h[0] = << >>
           /\ \A k \in Nat : k + 1 =< n => h[k + 1] = Add(h[k], bytes[k + 1])
<1>1. h[0] = << >>
  BY Zenon DEF Kept
<1>2. ASSUME NEW k \in Nat, k + 1 =< n PROVE h[k + 1] = Add(h[k], bytes[k + 1])
  <2>1. k + 1 \in 1..n /\ k + 1 - 1 = k
    BY <1>2
  <2>2. \A j \in 1..n : h[j] = Add(h[j - 1], bytes[j])
    BY Zenon DEF Kept
  <2> QED
    BY <2>1, <2>2
<1> QED
  BY <1>1, <1>2

LEMMA KeptExists ==
    ASSUME NEW bytes, NEW n \in Nat
    PROVE  \E h : Kept(h, bytes, n)
<1> DEFINE S == {m \in Nat : \E h : Kept(h, bytes, m)}
<1>1. 0 \in S
  <2> DEFINE h == [k \in 0..0 |-> << >>]
  <2>1. Kept(h, bytes, 0)
    BY DEF Kept
  <2> QED
    BY <2>1
<1>2. ASSUME NEW m \in Nat, m \in S PROVE m + 1 \in S
  <2>1. PICK h : Kept(h, bytes, m)
    BY <1>2
  <2> DEFINE next == Add(h[m], bytes[m + 1])
             g == [k \in 0..(m + 1) |-> IF k =< m THEN h[k] ELSE next]
  <2>2. /\ \A k \in 0..m : g[k] = h[k]
        /\ g[m + 1] = next
        /\ g = [k \in 0..(m + 1) |-> g[k]]
    OBVIOUS
  <2>3. Kept(g, bytes, m + 1)
    <3> HIDE DEF g
    <3>1. g[0] = << >>
      BY <2>1, <2>2 DEF Kept
    <3>2. ASSUME NEW k \in 1..(m + 1)
          PROVE  g[k] = Add(g[k - 1], bytes[k])
      <4>0. k - 1 \in 0..m
        OBVIOUS
      <4>1. k - 1 \in 0..m /\ g[k - 1] = h[k - 1]
        BY <2>2, <4>0
      <4>2. CASE k = m + 1
        BY <2>2, <4>1, <4>2
      <4>3. CASE k \in 1..m
        <5>1. k \in 0..m
          BY <4>3
        <5>2. g[k] = h[k]
          BY <2>2, <5>1
        <5> QED
          BY <2>1, <4>1, <4>3, <5>2 DEF Kept
      <4> QED
        BY <4>2, <4>3
    <3> QED
      BY <2>2, <3>1, <3>2, Zenon DEF Kept
  <2> HIDE DEF g
  <2> QED
    BY <2>3
<1> HIDE DEF S
<1>3. n \in S
  BY <1>1, <1>2, Inductive
<1> QED
  BY <1>3 DEF S

LEMMA PrintingIsLast ==
    ASSUME NEW bytes, NEW n \in Nat, n = Len(bytes)
    PROVE  \E h : Kept(h, bytes, n) /\ Printing(bytes) = h[n]
<1> DEFINE Equation(h) == h = [k \in 0..n |->
               IF k = 0 THEN << >> ELSE Add(h[k - 1], bytes[k])]
<1>1. \E h : Equation(h)
  <2>1. PICK h : Kept(h, bytes, n)
    BY KeptExists
  <2>2. \A k \in 0..n : h[k] = IF k = 0 THEN << >> ELSE Add(h[k - 1], bytes[k])
    BY <2>1 DEF Kept
  <2>3. h = [k \in 0..n |-> h[k]]
    BY <2>1 DEF Kept
  <2> QED
    BY <2>2, <2>3, Zenon
<1>2. PICK h : Equation(h) /\ Printing(bytes) = h[n]
  BY <1>1 DEF Printing
<1>3. \A k \in 0..n : h[k] = IF k = 0 THEN << >> ELSE Add(h[k - 1], bytes[k])
  BY <1>2, Zenon
<1>4. h = [k \in 0..n |-> h[k]]
  BY <1>2, <1>3, Zenon
<1>5. Kept(h, bytes, n)
  <2>1. h[0] = << >>
    BY <1>3
  <2>2. \A k \in 1..n : h[k] = Add(h[k - 1], bytes[k])
    BY <1>3
  <2> QED
    BY <1>4, <2>1, <2>2, Zenon DEF Kept
<1> QED
  BY <1>2, <1>5

\* Numbers come in order, none twice.
Ordered(bytes) ==
    \A i, j \in DOMAIN bytes : i < j /\ bytes[i] \in Nat /\ bytes[j] \in Nat => bytes[i] < bytes[j]

\* What is left is part of the bytes, in their order.
LEMMA PrintingKeeps ==
    ASSUME NEW bytes \in Seq(Byte)
    PROVE  /\ Printing(bytes) \in Seq(Byte)
           /\ \A i \in DOMAIN Printing(bytes) : \E j \in DOMAIN bytes : Printing(bytes)[i] = bytes[j]
           /\ Ordered(bytes) => Ordered(Printing(bytes))
<1> DEFINE n == Len(bytes)
<1>1. PICK h : Kept(h, bytes, n) /\ Printing(bytes) = h[n]
  BY PrintingIsLast
<1> DEFINE Part(k) == /\ h[k] \in Seq(Byte)
                      /\ \A i \in DOMAIN h[k] : \E j \in 1..k : h[k][i] = bytes[j]
                      /\ Ordered(bytes) => Ordered(h[k])
           S == {k \in Nat : k =< n => Part(k)}
<1>2. 0 \in S
  <2>1. h[0] = << >>
    BY <1>1, KeptSteps
  <2>2. << >> \in Seq(Byte) /\ DOMAIN << >> = {}
    OBVIOUS
  <2>3. Part(0)
    BY <2>1, <2>2 DEF Ordered
  <2> HIDE DEF Part
  <2> QED
    BY <2>3
<1>3. ASSUME NEW m \in Nat, m \in S PROVE m + 1 \in S
  <2> SUFFICES ASSUME m + 1 =< n PROVE Part(m + 1)
    OBVIOUS
  <2>1. Part(m)
    BY <1>3
  <2>2. h[m + 1] = Add(h[m], bytes[m + 1])
    BY <1>1, KeptSteps
  <2>3. CASE bytes[m + 1] = Nul
    BY <2>1, <2>2, <2>3 DEF Add
  <2>4. CASE bytes[m + 1] # Nul
    <3> DEFINE a == h[m]
               b == bytes[m + 1]
    <3>1. a \in Seq(Byte) /\ b \in Byte /\ h[m + 1] = Append(a, b)
      BY <2>1, <2>2, <2>4 DEF Add
    <3>2. /\ DOMAIN a = 1..Len(a) /\ DOMAIN Append(a, b) = 1..(Len(a) + 1)
          /\ \A i \in 1..Len(a) : Append(a, b)[i] = a[i]
          /\ Append(a, b)[Len(a) + 1] = b
          /\ Append(a, b) \in Seq(Byte)
          /\ Len(a) \in Nat
      BY <3>1
    <3>3. ASSUME NEW i \in DOMAIN Append(a, b)
          PROVE  \E j \in 1..(m + 1) : Append(a, b)[i] = bytes[j]
      <4>1. CASE i = Len(a) + 1
        BY <3>2, <4>1
      <4>2. CASE i \in 1..Len(a)
        <5>1. PICK j \in 1..m : a[i] = bytes[j]
          BY <2>1, <3>2, <4>2
        <5>2. j \in 1..(m + 1)
          OBVIOUS
        <5> QED
          BY <3>2, <4>2, <5>1, <5>2
      <4> QED
        BY <3>2, <4>1, <4>2
    <3>4. ASSUME Ordered(bytes) PROVE Ordered(Append(a, b))
      <4> SUFFICES ASSUME NEW i \in DOMAIN Append(a, b), NEW j \in DOMAIN Append(a, b), i < j,
                          Append(a, b)[i] \in Nat, Append(a, b)[j] \in Nat
                   PROVE  Append(a, b)[i] < Append(a, b)[j]
        BY DEF Ordered
      <4>1. CASE j \in 1..Len(a)
        <5>1. i \in 1..Len(a)
          BY <3>2, <4>1
        <5>2. Ordered(a)
          BY <2>1, <3>4
        <5> HIDE DEF a, b
        <5> QED
          BY <3>2, <4>1, <5>1, <5>2 DEF Ordered
      <4>2. CASE j = Len(a) + 1
        <5>1. i \in 1..Len(a)
          BY <3>2, <4>2
        <5>2. PICK l \in 1..m : a[i] = bytes[l]
          BY <2>1, <3>2, <5>1
        <5>3. l \in DOMAIN bytes /\ m + 1 \in DOMAIN bytes /\ l < m + 1
          OBVIOUS
        <5>4. Append(a, b)[i] = bytes[l] /\ Append(a, b)[j] = bytes[m + 1]
          BY <3>2, <4>2, <5>1, <5>2
        <5> HIDE DEF a, b
        <5> QED
          BY <3>4, <5>3, <5>4 DEF Ordered
      <4> QED
        BY <3>2, <4>1, <4>2
    <3> HIDE DEF a, b
    <3> QED
      BY <3>1, <3>2, <3>3, <3>4
  <2> QED
    BY <2>3, <2>4
<1> HIDE DEF S
<1>4. n \in S
  <2>1. \A k \in Nat : k \in S
    BY <1>2, <1>3, Inductive
  <2> QED
    BY <2>1
<1>5. Part(n)
  BY <1>4 DEF S
<1> QED
  BY <1>1, <1>5

LEMMA AddAtEnd ==
    ASSUME NEW p \in Seq(Byte), NEW q \in Seq(Byte), NEW b \in Byte
    PROVE  Add(p \o q, b) = p \o Add(q, b) /\ Add(q, b) \in Seq(Byte)
<1>1. Append(p \o q, b) = p \o Append(q, b)
  OBVIOUS
<1>2. CASE b = Nul
  BY <1>2 DEF Add
<1>3. CASE b # Nul
  <2>1. Append(q, b) \in Seq(Byte)
    OBVIOUS
  <2> QED
    BY <1>1, <1>3, <2>1, Zenon DEF Add
<1> QED
  BY <1>2, <1>3

\* It does not matter how the bytes are cut.
LEMMA PrintingParts ==
    ASSUME NEW a \in Seq(Byte), NEW b \in Seq(Byte)
    PROVE  Printing(a \o b) = Printing(a) \o Printing(b)
<1> DEFINE ab == a \o b
<1>0. PICK n \in Nat, m \in Nat :
        /\ n = Len(a) /\ m = Len(b) /\ Len(ab) = n + m
        /\ \A k \in 1..n : ab[k] = a[k] /\ a[k] \in Byte
        /\ \A k \in 1..m : ab[n + k] = b[k] /\ b[k] \in Byte
  <2>1. Len(a) \in Nat /\ Len(b) \in Nat /\ Len(ab) = Len(a) + Len(b)
    OBVIOUS
  <2>2. \A k \in 1..Len(a) : ab[k] = a[k] /\ a[k] \in Byte
    OBVIOUS
  <2>3. \A k \in 1..Len(b) : ab[Len(a) + k] = b[k] /\ b[k] \in Byte
    OBVIOUS
  <2> HIDE DEF ab
  <2> QED
    BY <2>1, <2>2, <2>3
<1> HIDE DEF ab
<1>1. PICK h : Kept(h, ab, n + m) /\ Printing(ab) = h[n + m]
  BY <1>0, PrintingIsLast
<1>2. PICK f : Kept(f, a, n) /\ Printing(a) = f[n]
  BY <1>0, PrintingIsLast
<1>3. PICK g : Kept(g, b, m) /\ Printing(b) = g[m]
  BY <1>0, PrintingIsLast
<1>4. /\ h[0] = << >> /\ f[0] = << >> /\ g[0] = << >>
      /\ \A k \in Nat : k + 1 =< n + m => h[k + 1] = Add(h[k], ab[k + 1])
      /\ \A k \in Nat : k + 1 =< n => f[k + 1] = Add(f[k], a[k + 1])
      /\ \A k \in Nat : k + 1 =< m => g[k + 1] = Add(g[k], b[k + 1])
  <2>1. n + m \in Nat
    OBVIOUS
  <2> QED
    BY <1>1, <1>2, <1>3, <2>1, KeptSteps
<1> DEFINE S == {k \in Nat : k =< n => h[k] = f[k] /\ f[k] \in Seq(Byte)}
<1>5. 0 \in S
  <2>1. << >> \in Seq(Byte)
    OBVIOUS
  <2> QED
    BY <1>4, <2>1
<1>6. ASSUME NEW k \in Nat, k \in S PROVE k + 1 \in S
  <2> SUFFICES ASSUME k + 1 =< n PROVE h[k + 1] = f[k + 1] /\ f[k + 1] \in Seq(Byte)
    OBVIOUS
  <2>1. h[k] = f[k] /\ f[k] \in Seq(Byte)
    BY <1>6
  <2>2. k + 1 \in 1..n /\ k + 1 =< n + m
    OBVIOUS
  <2>3. ab[k + 1] = a[k + 1] /\ a[k + 1] \in Byte
    BY <1>0, <2>2
  <2>4. f[k + 1] = Add(f[k], a[k + 1]) /\ h[k + 1] = Add(h[k], ab[k + 1])
    BY <1>4, <2>2
  <2>5. Add(f[k], a[k + 1]) \in Seq(Byte)
    BY <2>1, <2>3 DEF Add
  <2> QED
    BY <2>1, <2>3, <2>4, <2>5
<1>7. h[n] = f[n] /\ f[n] \in Seq(Byte)
  <2> HIDE DEF S
  <2>1. n \in S
    BY <1>5, <1>6, Inductive
  <2> QED
    BY <2>1 DEF S
<1> DEFINE Whole(k) == h[n + k] = f[n] \o g[k] /\ g[k] \in Seq(Byte)
           T == {k \in Nat : k =< m => Whole(k)}
<1>8. 0 \in T
  <2>1. n + 0 = n /\ f[n] \o << >> = f[n] /\ << >> \in Seq(Byte)
    BY <1>7
  <2>2. Whole(0)
    BY <1>7, <1>4, <2>1
  <2> HIDE DEF Whole
  <2> QED
    BY <2>2
<1>9. ASSUME NEW k \in Nat, k \in T PROVE k + 1 \in T
  <2>1. ASSUME k + 1 =< m PROVE Whole(k + 1)
    <3>1. h[n + k] = f[n] \o g[k] /\ g[k] \in Seq(Byte)
      <4>1. Whole(k)
        <5> HIDE DEF Whole
        <5> QED
          BY <1>9, <2>1
      <4> QED
        BY <4>1
    <3>2. k + 1 \in 1..m /\ n + k \in Nat /\ n + k + 1 =< n + m /\ n + k + 1 = n + (k + 1)
      BY <2>1
    <3>3. ab[n + (k + 1)] = b[k + 1] /\ b[k + 1] \in Byte
      BY <1>0, <3>2
    <3>4. g[k + 1] = Add(g[k], b[k + 1]) /\ h[n + k + 1] = Add(h[n + k], ab[n + k + 1])
      BY <1>4, <3>2, <2>1
    <3>5. /\ Add(f[n] \o g[k], b[k + 1]) = f[n] \o Add(g[k], b[k + 1])
          /\ Add(g[k], b[k + 1]) \in Seq(Byte)
      BY <1>7, <3>1, <3>3, AddAtEnd
    <3> QED
      BY <3>1, <3>2, <3>3, <3>4, <3>5
  <2> HIDE DEF Whole
  <2> QED
    BY <2>1
<1>10. h[n + m] = f[n] \o g[m]
  <2> HIDE DEF T
  <2>1. m \in T
    BY <1>8, <1>9, Inductive
  <2>2. Whole(m)
    <3> HIDE DEF Whole
    <3> QED
      BY <2>1 DEF T
  <2> QED
    BY <2>2
<1> QED
  BY <1>1, <1>2, <1>3, <1>10 DEF ab

-----------------------------------------------------------------------------
(* HandleData: the lines of a text, of which a part has been taken.        *)

LEMMA IndexOfIs ==
    ASSUME NEW rest \in Seq(Byte), NEW i, i = IndexOf(rest)
    PROVE  /\ i \in 1..(Len(rest) + 1)
           /\ i =< Len(rest) =>
                /\ i + 1 =< Len(rest) /\ rest[i] = CR /\ rest[i + 1] = LF
                /\ \A k \in 1..(i - 1) : rest[k] # CR
           /\ i > Len(rest) =>
                \A k \in 1..(Len(rest) - 1) : rest[k] = CR /\ rest[k + 1] = LF =>
                    \E m \in 1..(k - 1) : rest[m] = CR /\ rest[m + 1] # LF
<1> DEFINE n == Len(rest)
           S == {k \in 1..n : rest[k] = CR} \cup {n + 1}
           m == Min(S)
<1>1. n \in Nat
  OBVIOUS
<1>2. m \in S /\ \A k \in S : m =< k
  <2>1. S \subseteq Nat /\ S # {}
    BY <1>1
  <2> HIDE DEF S
  <2> QED
    BY <2>1, MinIs
<1>3. i = IF m < n /\ rest[m + 1] = LF THEN m ELSE n + 1
  BY DEF IndexOf
<1> HIDE DEF m
<1>4. m \in 1..(n + 1) /\ \A k \in 1..n : rest[k] = CR => m =< k
  BY <1>1, <1>2
<1>5. m =< n => rest[m] = CR
  BY <1>1, <1>2
<1> HIDE DEF S, n
<1>6. i \in 1..(n + 1)
  BY <1>1, <1>3, <1>4
<1>7. ASSUME i =< n
      PROVE  i + 1 =< n /\ rest[i] = CR /\ rest[i + 1] = LF /\ \A k \in 1..(i - 1) : rest[k] # CR
  <2>1. i = m /\ m < n /\ rest[m + 1] = LF
    BY <1>1, <1>3, <1>4, <1>7
  <2> QED
    BY <1>1, <1>4, <1>5, <2>1
<1>8. ASSUME i > n, NEW k \in 1..(n - 1), rest[k] = CR, rest[k + 1] = LF
      PROVE  \E j \in 1..(k - 1) : rest[j] = CR /\ rest[j + 1] # LF
  <2>1. m =< k
    BY <1>1, <1>4, <1>8
  <2>2. rest[m] = CR /\ rest[m + 1] # LF
    BY <1>1, <1>3, <1>4, <1>5, <1>8, <2>1
  <2>3. m \in 1..(k - 1)
    BY <1>1, <1>4, <1>8, <2>1, <2>2
  <2> QED
    BY <2>2, <2>3
<1> QED
  BY <1>6, <1>7, <1>8 DEF n

LEMMA EndIs ==
    ASSUME NEW text \in Seq(Byte), NEW e \in Ends(text)
    PROVE  /\ e \in Nat /\ 1 =< e /\ e + 1 =< Len(text)
           /\ text[e] = CR /\ text[e + 1] = LF
           /\ \A i \in 1..e : text[i] = CR => text[i + 1] = LF
  BY DEF Ends

LEMMA BeginIs ==
    ASSUME NEW text \in Seq(Byte), NEW b \in Begins(text)
    PROVE  b \in Nat /\ (b = 1 \/ b - 2 \in Ends(text))
<1>1. CASE b = 1
  BY <1>1
<1>2. CASE b # 1
  <2>1. PICK e \in Ends(text) : b = e + 2
    BY <1>2 DEF Begins
  <2> QED
    BY <2>1, EndIs
<1> QED
  BY <1>1, <1>2

LEMMA BeginOf ==
    ASSUME NEW text \in Seq(Byte), NEW e \in Nat, NEW m \in Begins(text), m =< e,
           \A b \in Begins(text) : b =< e => b =< m
    PROVE  Begin(text, e) = m
<1> DEFINE S == {b \in Begins(text) : b =< e}
<1>1. S \subseteq Int
  BY BeginIs
<1>2. m \in S /\ \A k \in S : k =< m
  OBVIOUS
<1>3. Begin(text, e) = Max(S)
  BY Zenon DEF Begin
<1> HIDE DEF S
<1> QED
  BY <1>1, <1>2, <1>3, MaxIs

\* No line ends where one begins, or just before.
LEMMA EndBefore ==
    ASSUME NEW text \in Seq(Byte), NEW c \in Nat, c + 1 \in Begins(text), NEW e \in Ends(text)
    PROVE  e =< c => e < c
<1> SUFFICES ASSUME e = c PROVE FALSE
  BY EndIs
<1>1. text[c] = CR /\ c >= 1
  BY EndIs
<1>2. c + 1 - 2 \in Ends(text)
  BY <1>1, BeginIs
<1>3. text[c + 1 - 2 + 1] = LF /\ c + 1 - 2 + 1 = c
  BY <1>2, EndIs
<1> QED
  BY <1>1, <1>3, FeedAssumption DEF FeedAssumption

\* What is left of the text once part has been taken.
Left(text, rest, c) ==
    /\ c \in Nat
    /\ Len(text) = c + Len(rest)
    /\ \A i \in 1..Len(rest) : rest[i] = text[c + i]

\* HandleData looks for the next line where it begins, and finds where it ends.
LEMMA NextLine ==
    ASSUME NEW text \in Seq(Byte), NEW rest \in Seq(Byte), NEW c \in Nat, Left(text, rest, c),
           c + 1 \in Begins(text), NEW i, i = IndexOf(rest)
    PROVE  /\ i > Len(rest) => \A e \in Ends(text) : e =< c
           /\ i =< Len(rest) =>
                /\ i \in Nat /\ i >= 1 /\ i + 1 =< Len(rest)
                /\ c + i \in Ends(text)
                /\ c + i + 2 \in Begins(text)
                /\ \A e \in Ends(text) : e =< c \/ e >= c + i
                /\ \A e \in Ends(text) : e =< c + i + 1 => e =< c + i
                /\ Body(text, c + i) = SubSeq(rest, 1, i - 1)
<1> DEFINE n == Len(rest)
<1>0. n \in Nat
  OBVIOUS
<1>1. Len(text) = c + n /\ \A k \in 1..n : rest[k] = text[c + k]
  BY DEF Left
<1>2. /\ i \in 1..(n + 1)
      /\ i =< n => i + 1 =< n /\ rest[i] = CR /\ rest[i + 1] = LF /\ \A k \in 1..(i - 1) : rest[k] # CR
      /\ i > n => \A k \in 1..(n - 1) : rest[k] = CR /\ rest[k + 1] = LF =>
                      \E m \in 1..(k - 1) : rest[m] = CR /\ rest[m + 1] # LF
  BY IndexOfIs
<1>3. ASSUME i > n, NEW e \in Ends(text), e > c PROVE FALSE
  <2>1. /\ e \in Nat /\ e + 1 =< Len(text) /\ text[e] = CR /\ text[e + 1] = LF
        /\ \A k \in 1..e : text[k] = CR => text[k + 1] = LF
    BY EndIs
  <2> HIDE DEF n
  <2>2. e - c \in 1..(n - 1) /\ e - c + 1 \in 1..n /\ c + (e - c) = e /\ c + (e - c + 1) = e + 1
    BY <1>0, <1>1, <1>3, <2>1
  <2>3. rest[e - c] = CR /\ rest[e - c + 1] = LF
    <3>1. e - c \in 1..n
      BY <1>0, <2>2
    <3>2. rest[e - c] = text[c + (e - c)] /\ rest[e - c + 1] = text[c + (e - c + 1)]
      BY <1>1, <2>2, <3>1
    <3> QED
      BY <2>1, <2>2, <3>2
  <2>4. PICK m \in 1..(e - c - 1) : rest[m] = CR /\ rest[m + 1] # LF
    BY <1>2, <1>3, <2>2, <2>3
  <2>5. m \in 1..n /\ m + 1 \in 1..n /\ c + m \in 1..e /\ c + (m + 1) = c + m + 1
    BY <1>0, <1>1, <2>1, <2>2
  <2>6. text[c + m] = CR /\ text[c + m + 1] # LF
    <3>1. rest[m] = text[c + m] /\ rest[m + 1] = text[c + (m + 1)]
      BY <1>1, <2>5
    <3> QED
      BY <2>4, <2>5, <3>1
  <2> QED
    BY <2>1, <2>5, <2>6
<1>4. ASSUME i =< n
      PROVE  /\ i \in Nat /\ i >= 1 /\ i + 1 =< n
             /\ c + i \in Ends(text)
             /\ c + i + 2 \in Begins(text)
             /\ \A e \in Ends(text) : e =< c \/ e >= c + i
             /\ \A e \in Ends(text) : e =< c + i + 1 => e =< c + i
             /\ Body(text, c + i) = SubSeq(rest, 1, i - 1)
  <2>1. i \in Nat /\ i >= 1 /\ i + 1 =< n /\ rest[i] = CR /\ rest[i + 1] = LF
    BY <1>0, <1>2, <1>4
  <2>2. \A k \in 1..(i - 1) : rest[k] # CR
    BY <1>2, <1>4
  <2> HIDE DEF n
  <2>3. text[c + i] = CR /\ text[c + i + 1] = LF
    <3>1. i \in 1..n /\ i + 1 \in 1..n /\ c + (i + 1) = c + i + 1
      BY <1>0, <2>1
    <3>2. rest[i] = text[c + i] /\ rest[i + 1] = text[c + (i + 1)]
      BY <1>1, <3>1
    <3> QED
      BY <2>1, <3>1, <3>2
  <2>4. \A k \in (c + 1)..(c + i - 1) : text[k] # CR
    <3> TAKE k \in (c + 1)..(c + i - 1)
    <3>1. k - c \in 1..(i - 1) /\ k - c \in 1..n /\ c + (k - c) = k
      BY <1>0, <2>1
    <3>2. rest[k - c] = text[c + (k - c)]
      BY <1>1, <3>1
    <3> QED
      BY <2>2, <3>1, <3>2
  <2>5. \A k \in 1..c : text[k] = CR => text[k + 1] = LF
    <3> SUFFICES ASSUME NEW k \in 1..c, text[k] = CR PROVE text[k + 1] = LF
      OBVIOUS
    <3>1. c >= 1 /\ c + 1 # 1
      OBVIOUS
    <3>2. c + 1 - 2 \in Ends(text)
      BY <3>1, BeginIs
    <3>3. text[c + 1 - 2 + 1] = LF /\ c + 1 - 2 + 1 = c
      BY <3>2, EndIs
    <3>4. k # c
      BY <3>3, FeedAssumption DEF FeedAssumption
    <3>5. k \in 1..(c + 1 - 2)
      BY <3>4
    <3> QED
      BY <3>2, <3>5, EndIs
  <2>6. c + i \in Ends(text)
    <3>1. c + i \in 1..(Len(text) - 1)
      BY <1>0, <1>1, <2>1
    <3>2. ASSUME NEW k \in 1..(c + i), text[k] = CR PROVE text[k + 1] = LF
      <4>1. k \in 1..c \/ k \in (c + 1)..(c + i - 1) \/ k = c + i
        BY <2>1
      <4> QED
        BY <2>3, <2>4, <2>5, <3>2, <4>1
    <3> QED
      BY <2>3, <3>1, <3>2 DEF Ends
  <2>7. c + i + 2 \in Begins(text)
    BY <2>6 DEF Begins
  <2>8. ASSUME NEW e \in Ends(text) PROVE e =< c \/ e >= c + i
    <3>1. e \in Nat /\ text[e] = CR
      BY EndIs
    <3>2. e \notin (c + 1)..(c + i - 1)
      BY <2>4, <3>1
    <3> QED
      BY <2>1, <3>1, <3>2
  <2>9. ASSUME NEW e \in Ends(text) PROVE e =< c + i + 1 => e =< c + i
    <3>1. e \in Nat
      BY EndIs
    <3>2. e # c + i + 1
      <4>1. text[e] = CR
        BY EndIs
      <4> QED
        BY <2>3, <4>1, FeedAssumption DEF FeedAssumption
    <3>3. i \in Nat
      BY <2>1
    <3> QED
      BY <3>1, <3>2, <3>3
  <2>10. Begin(text, c + i) = c + 1
    <3>1. ASSUME NEW b \in Begins(text), b =< c + i PROVE b =< c + 1
      <4>1. b \in Nat /\ (b = 1 \/ b - 2 \in Ends(text))
        BY BeginIs
      <4>2. CASE b = 1
        BY <4>2
      <4>3. CASE b - 2 \in Ends(text)
        <5>1. b - 2 =< c
          <6>1. b - 2 =< c \/ b - 2 >= c + i
            BY <2>8, <4>3
          <6>2. i \in Nat
            BY <2>1
          <6> QED
            BY <3>1, <4>1, <6>1, <6>2
        <5>2. b - 2 < c
          BY <4>3, <5>1, EndBefore
        <5> QED
          BY <4>1, <5>2
      <4> QED
        BY <4>1, <4>2, <4>3
    <3>2. c + 1 =< c + i /\ c + i \in Nat
      BY <2>1
    <3> QED
      BY <3>1, <3>2, BeginOf
  <2>11. SubSeq(text, c + 1, c + i - 1) = SubSeq(rest, 1, i - 1)
    <3> DEFINE p == SubSeq(text, c + 1, c + i - 1)
               q == SubSeq(rest, 1, i - 1)
    <3>1. /\ Len(p) = i - 1 /\ p \in Seq(Byte)
          /\ \A k \in 1..(i - 1) : p[k] = text[c + 1 + k - 1]
      <4>1. i - 1 \in Nat /\ Len(text) = c + n
        BY <1>1, <2>1
      <4>2. c + 1 \in 1..(Len(text) + 1) /\ c + i - 1 \in (c + 1 - 1)..Len(text)
        BY <1>0, <2>1, <4>1
      <4>3. c + i - 1 - (c + 1) + 1 = i - 1
        BY <2>1
      <4> QED
        BY <4>1, <4>2, <4>3, SubSeqProperties
    <3>2. /\ Len(q) = i - 1 /\ q \in Seq(Byte)
          /\ \A k \in 1..(i - 1) : q[k] = rest[1 + k - 1]
      BY <1>0, <2>1 DEF n
    <3>3. ASSUME NEW k \in 1..(i - 1) PROVE p[k] = q[k]
      <4>1. k \in 1..n /\ 1 + k - 1 = k /\ c + 1 + k - 1 = c + k
        BY <1>0, <2>1
      <4>2. rest[k] = text[c + k]
        BY <1>1, <4>1
      <4> QED
        BY <3>1, <3>2, <4>1, <4>2
    <3> HIDE DEF p, q
    <3>4. p = q
      BY <3>1, <3>2, <3>3, SeqEqual
    <3> QED
      BY <3>4 DEF p, q
  <2>12. Body(text, c + i) = SubSeq(rest, 1, i - 1)
    <3>1. Body(text, c + i) = SubSeq(text, Begin(text, c + i), (c + i) - 1)
      BY Zenon DEF Body
    <3>2. (c + i) - 1 = c + i - 1
      BY <2>1
    <3> QED
      BY <2>10, <2>11, <3>1, <3>2
  <2> QED
    BY <2>1, <2>6, <2>7, <2>8, <2>9, <2>12, Zenon
<1> QED
  <2>1. \A e \in Ends(text) : e \in Nat
    BY EndIs
  <2> QED
    BY <1>0, <1>2, <1>3, <1>4, <2>1

\* The last line that begins before a byte.
LEMMA BeginIn ==
    ASSUME NEW text \in Seq(Byte), NEW e \in Nat, 1 =< e
    PROVE  /\ Begin(text, e) \in Begins(text) /\ Begin(text, e) =< e
           /\ \A b \in Begins(text) : b =< e => b =< Begin(text, e)
<1> DEFINE S == {b \in Begins(text) : b =< e}
           D == {k \in Nat : e - k \in S}
<1>1. e - 1 \in D
  <2>1. 1 \in Begins(text) /\ e - 1 \in Nat /\ e - (e - 1) = 1
    BY DEF Begins
  <2> QED
    BY <2>1
<1>2. PICK k \in D : \A j \in D : k =< j
  <2>1. D \subseteq Nat /\ D # {}
    BY <1>1
  <2> HIDE DEF D
  <2> QED
    BY <2>1, LeastNatural
<1>3. ASSUME NEW b \in Begins(text), b =< e PROVE b =< e - k
  <2>1. b \in Nat
    BY BeginIs
  <2>2. e - b \in Nat /\ e - (e - b) = b
    BY <1>3, <2>1
  <2>3. e - b \in D
    BY <1>3, <2>2
  <2>4. k =< e - b /\ k \in Nat
    BY <1>2, <2>3
  <2> QED
    BY <2>1, <2>4
<1>4. e - k \in Begins(text) /\ e - k =< e
  BY <1>2
<1>5. Begin(text, e) = e - k
  <2> HIDE DEF D, S
  <2> QED
    BY <1>3, <1>4, BeginOf
<1> QED
  <2> HIDE DEF D, S
  <2> QED
    BY <1>3, <1>4, <1>5

LEMMA SamePart ==
    ASSUME NEW p \in Seq(Byte), NEW q \in Seq(Byte), NEW m \in Int, NEW n \in Int,
           \A k \in m..n : p[k] = q[k] /\ q[k] \in Byte
    PROVE  SubSeq(p, m, n) = SubSeq(q, m, n)
<1> DEFINE s == SubSeq(p, m, n)
           t == SubSeq(q, m, n)
<1>1. /\ s \in Seq(Byte) /\ Len(s) = IF m =< n THEN n - m + 1 ELSE 0
      /\ \A k \in 1..(n - m + 1) : s[k] = p[m + k - 1]
  BY SubSeqProperties
<1>2. /\ t \in Seq(Byte) /\ Len(t) = IF m =< n THEN n - m + 1 ELSE 0
      /\ \A k \in 1..(n - m + 1) : t[k] = q[m + k - 1]
  BY SubSeqProperties
<1> HIDE DEF s, t
<1>3. ASSUME NEW k \in 1..Len(s) PROVE s[k] = t[k]
  <2>1. k \in 1..(n - m + 1) /\ m + k - 1 \in m..n
    BY <1>1
  <2> QED
    BY <1>1, <1>2, <2>1
<1>4. s = t
  BY <1>1, <1>2, <1>3, SeqEqual
<1> QED
  BY <1>4 DEF s, t

\* More bytes leave the lines that have been taken as they were.
LEMMA LongerLines ==
    ASSUME NEW text \in Seq(Byte), NEW more \in Seq(Byte), NEW longer, longer = text \o more,
           NEW c \in Nat, c =< Len(text), c + 1 \in Begins(text)
    PROVE  /\ c + 1 \in Begins(longer)
           /\ \A e \in Ends(text) : e =< c => e \in Ends(longer)
           /\ \A e \in Ends(longer) : e =< c => e \in Ends(text)
           /\ \A e \in Ends(text) : e =< c => Body(longer, e) = Body(text, e)
<1>1. /\ longer \in Seq(Byte) /\ Len(text) \in Nat /\ Len(more) \in Nat
      /\ Len(longer) = Len(text) + Len(more)
      /\ \A k \in 1..Len(text) : longer[k] = text[k]
  OBVIOUS
<1>2. ASSUME NEW e \in Ends(text), e =< c PROVE e \in Ends(longer)
  <2>1. /\ e \in Nat /\ 1 =< e /\ e + 1 =< Len(text)
        /\ text[e] = CR /\ \A i \in 1..e : text[i] = CR => text[i + 1] = LF
    BY EndIs
  <2>2. e \in 1..(Len(longer) - 1) /\ longer[e] = CR
    BY <1>1, <2>1
  <2>3. ASSUME NEW i \in 1..e, longer[i] = CR PROVE longer[i + 1] = LF
    <3>1. i \in 1..Len(text) /\ i + 1 \in 1..Len(text)
      BY <1>1, <2>1
    <3> QED
      BY <1>1, <2>1, <2>3, <3>1
  <2> QED
    BY <2>2, <2>3 DEF Ends
<1>3. c + 1 \in Begins(longer)
  <2>1. CASE c = 0
    BY <2>1 DEF Begins
  <2>2. CASE c # 0
    <3>1. c + 1 - 2 \in Ends(text) /\ c + 1 - 2 =< c
      BY <2>2, BeginIs
    <3>2. c + 1 - 2 \in Ends(longer)
      BY <1>2, <3>1
    <3>3. c + 1 = (c + 1 - 2) + 2
      OBVIOUS
    <3> QED
      BY <3>2, <3>3 DEF Begins
  <2> QED
    BY <2>1, <2>2
<1>4. ASSUME NEW e \in Ends(longer), e =< c PROVE e \in Ends(text)
  <2>1. /\ e \in Nat /\ 1 =< e /\ longer[e] = CR
        /\ \A i \in 1..e : longer[i] = CR => longer[i + 1] = LF
    BY <1>1, EndIs
  <2>2. e < c
    BY <1>1, <1>3, <1>4, EndBefore
  <2>3. e \in 1..(Len(text) - 1) /\ text[e] = CR
    BY <1>1, <2>1, <2>2
  <2>4. ASSUME NEW i \in 1..e, text[i] = CR PROVE text[i + 1] = LF
    <3>1. i \in 1..Len(text) /\ i + 1 \in 1..Len(text)
      BY <1>1, <2>1, <2>2
    <3> QED
      BY <1>1, <2>1, <2>4, <3>1
  <2> QED
    BY <2>3, <2>4 DEF Ends
<1>5. ASSUME NEW e \in Ends(text), e =< c PROVE Body(longer, e) = Body(text, e)
  <2>1. e \in Nat /\ 1 =< e /\ e + 1 =< Len(text)
    BY EndIs
  <2> DEFINE b == Begin(text, e)
  <2>2. b \in Begins(text) /\ b =< e /\ \A d \in Begins(text) : d =< e => d =< b
    BY <2>1, BeginIn
  <2>3. b \in Nat /\ (b = 1 \/ b - 2 \in Ends(text))
    BY <2>2, BeginIs
  <2>4. 1 =< b
    <3>1. b # 1 => b - 2 >= 1
      BY <2>3, EndIs
    <3> HIDE DEF b
    <3> QED
      BY <2>3, <3>1
  <2> HIDE DEF b
  <2>5. b \in Begins(longer)
    <3>1. CASE b = 1
      BY <3>1 DEF Begins
    <3>2. CASE b # 1
      <4>1. b - 2 \in Ends(longer)
        BY <1>2, <1>5, <2>1, <2>2, <2>3, <3>2
      <4>2. b = (b - 2) + 2
        BY <2>3
      <4> QED
        BY <4>1, <4>2 DEF Begins
    <3> QED
      BY <3>1, <3>2
  <2>6. ASSUME NEW d \in Begins(longer), d =< e PROVE d =< b
    <3>1. d \in Nat /\ (d = 1 \/ d - 2 \in Ends(longer))
      BY <1>1, BeginIs
    <3>2. CASE d = 1
      BY <2>3, <2>4, <3>2
    <3>3. CASE d - 2 \in Ends(longer)
      <4>1. d - 2 \in Ends(text)
        BY <1>4, <1>5, <2>1, <2>6, <3>1, <3>3
      <4>2. d = (d - 2) + 2
        BY <3>1
      <4>3. d \in Begins(text)
        BY <4>1, <4>2 DEF Begins
      <4> QED
        BY <2>2, <2>6, <4>3
    <3> QED
      BY <3>1, <3>2, <3>3
  <2>7. Begin(longer, e) = b
    BY <1>1, <2>1, <2>2, <2>5, <2>6, BeginOf
  <2>8. SubSeq(longer, b, e - 1) = SubSeq(text, b, e - 1)
    <3>1. \A k \in b..(e - 1) : longer[k] = text[k] /\ text[k] \in Byte
      BY <1>1, <2>1, <2>3, <2>4
    <3> QED
      <4>1. b \in Int /\ e - 1 \in Int /\ longer \in Seq(Byte)
        BY <1>1, <2>1, <2>3
      <4> QED
        BY <3>1, <4>1, SamePart
  <2> QED
    BY <2>7, <2>8 DEF Body, b
<1> QED
  BY <1>2, <1>3, <1>4, <1>5

-----------------------------------------------------------------------------
(* The serializer.                                                         *)

\* The quotes are those of the lines of the text as far as it has been taken, and no line
\* there was unreadable.
TakenAt(at, text, c, quotes) ==
    /\ at \in [DOMAIN quotes -> Quotes(text)]
    /\ \A k, m \in DOMAIN quotes : k < m => at[k] < at[m]
    /\ \A k \in DOMAIN quotes : quotes[k] = Body(text, at[k])
    /\ \A e \in Quotes(text) : e =< c <=> \E k \in DOMAIN quotes : at[k] = e

FramedTo(text, c, quotes) ==
    /\ c + 1 \in Begins(text)
    /\ \A e \in Ends(text) : e =< c => ~ IsUnreadable(Body(text, e))
    /\ \E at : TakenAt(at, text, c, quotes)

\* Read: more bytes make the text and what is left of it longer.
LEMMA LongerLeft ==
    ASSUME NEW text \in Seq(Byte), NEW rest \in Seq(Byte), NEW more \in Seq(Byte), NEW c,
           Left(text, rest, c)
    PROVE  Left(text \o more, rest \o more, c)
<1>1. /\ c \in Nat /\ Len(text) = c + Len(rest)
      /\ \A i \in 1..Len(rest) : rest[i] = text[c + i]
  BY DEF Left
<1> DEFINE t == text \o more
           r == rest \o more
<1>2. /\ Len(text) \in Nat /\ Len(rest) \in Nat /\ Len(more) \in Nat
      /\ Len(t) = Len(text) + Len(more) /\ Len(r) = Len(rest) + Len(more)
      /\ \A i \in 1..Len(text) : t[i] = text[i]
      /\ \A i \in 1..Len(rest) : r[i] = rest[i]
      /\ \A i \in 1..Len(more) : t[Len(text) + i] = more[i]
      /\ \A i \in 1..Len(more) : r[Len(rest) + i] = more[i]
  OBVIOUS
<1> HIDE DEF t, r
<1>3. ASSUME NEW i \in 1..Len(r) PROVE r[i] = t[c + i]
  <2>1. CASE i \in 1..Len(rest)
    <3>1. c + i \in 1..Len(text)
      BY <1>1, <1>2, <2>1
    <3> QED
      BY <1>1, <1>2, <2>1, <3>1
  <2>2. CASE i \notin 1..Len(rest)
    <3> DEFINE j == i - Len(rest)
    <3>1. j \in 1..Len(more) /\ i = Len(rest) + j /\ c + i = Len(text) + j
      BY <1>1, <1>2, <2>2
    <3> HIDE DEF j
    <3> QED
      BY <1>2, <3>1
  <2> QED
    BY <2>1, <2>2
<1> QED
  BY <1>1, <1>2, <1>3 DEF Left, t, r

LEMMA LongerFramed ==
    ASSUME NEW text \in Seq(Byte), NEW more \in Seq(Byte), NEW quotes \in Seq(Seq(Byte)),
           NEW c \in Nat, c =< Len(text), FramedTo(text, c, quotes)
    PROVE  FramedTo(text \o more, c, quotes)
<1>1. PICK longer : longer = text \o more
  OBVIOUS
<1>2. /\ c + 1 \in Begins(text)
      /\ \A e \in Ends(text) : e =< c => ~ IsUnreadable(Body(text, e))
  BY DEF FramedTo
<1>3. PICK at : TakenAt(at, text, c, quotes)
  BY DEF FramedTo
<1>4. /\ c + 1 \in Begins(longer)
      /\ \A e \in Ends(text) : e =< c => e \in Ends(longer)
      /\ \A e \in Ends(longer) : e =< c => e \in Ends(text)
      /\ \A e \in Ends(text) : e =< c => Body(longer, e) = Body(text, e)
  BY <1>1, <1>2, LongerLines
<1>5. longer \in Seq(Byte)
  BY <1>1
<1>6. \A e \in Ends(longer) : e =< c => ~ IsUnreadable(Body(longer, e))
  BY <1>2, <1>4
<1>7. ASSUME NEW e \in Quotes(text), e =< c PROVE e \in Quotes(longer)
  <2>1. e \in Ends(text) /\ IsQuote(Body(text, e))
    BY DEF Quotes
  <2>2. e \in Ends(longer) /\ IsQuote(Body(longer, e))
    BY <1>4, <1>7, <2>1
  <2>3. ASSUME NEW d \in Ends(longer), d < e PROVE ~ IsUnreadable(Body(longer, d))
    <3>1. e \in Nat /\ d \in Nat
      BY <1>5, <2>1, EndIs
    <3>2. d =< c
      BY <1>7, <2>3, <3>1
    <3> QED
      BY <1>6, <3>2
  <2> QED
    BY <2>2, <2>3 DEF Quotes
<1>8. ASSUME NEW e \in Quotes(longer), e =< c PROVE e \in Quotes(text)
  <2>1. e \in Ends(longer) /\ IsQuote(Body(longer, e))
    BY DEF Quotes
  <2>2. e \in Ends(text) /\ IsQuote(Body(text, e))
    BY <1>4, <1>8, <2>1
  <2>3. ASSUME NEW d \in Ends(text), d < e PROVE ~ IsUnreadable(Body(text, d))
    <3>1. e \in Nat /\ d \in Nat
      BY <2>2, EndIs
    <3>2. d =< c
      BY <1>8, <2>3, <3>1
    <3> QED
      BY <1>2, <3>2
  <2> QED
    BY <2>2, <2>3 DEF Quotes
<1>9. TakenAt(at, longer, c, quotes)
  <2>1. /\ at \in [DOMAIN quotes -> Quotes(text)]
        /\ \A k, m \in DOMAIN quotes : k < m => at[k] < at[m]
        /\ \A k \in DOMAIN quotes : quotes[k] = Body(text, at[k])
        /\ \A e \in Quotes(text) : e =< c <=> \E k \in DOMAIN quotes : at[k] = e
    BY <1>3 DEF TakenAt
  <2>2. ASSUME NEW k \in DOMAIN quotes
        PROVE  /\ at[k] =< c /\ at[k] \in Quotes(text) /\ at[k] \in Ends(text)
               /\ at[k] \in Quotes(longer) /\ quotes[k] = Body(longer, at[k])
    <3>1. at[k] \in Quotes(text) /\ at[k] =< c /\ quotes[k] = Body(text, at[k])
      BY <2>1
    <3>2. at[k] \in Ends(text)
      BY <3>1 DEF Quotes
    <3> QED
      BY <1>4, <1>7, <3>1, <3>2
  <2>3. at \in [DOMAIN quotes -> Quotes(longer)]
    BY <2>1, <2>2
  <2>4. \A e \in Quotes(longer) : e =< c <=> \E k \in DOMAIN quotes : at[k] = e
    BY <1>8, <2>1, <2>2
  <2> QED
    BY <2>1, <2>2, <2>3, <2>4 DEF TakenAt
<1> QED
  BY <1>1, <1>4, <1>6, <1>9 DEF FramedTo

LEMMA QuoteIsReadable ==
    ASSUME NEW body
    PROVE  IsQuote(body) => ~ IsUnreadable(body)
  BY DEF IsQuote, IsUnreadable

\* What is left once a line has been taken.
LEMMA RestLeft ==
    ASSUME NEW text \in Seq(Byte), NEW rest \in Seq(Byte), NEW c, NEW i \in Nat,
           Left(text, rest, c), i + 1 =< Len(rest)
    PROVE  /\ SubSeq(rest, i + 2, Len(rest)) \in Seq(Byte)
           /\ Left(text, SubSeq(rest, i + 2, Len(rest)), c + i + 1)
           /\ \A k \in DOMAIN SubSeq(rest, i + 2, Len(rest)) :
                 /\ SubSeq(rest, i + 2, Len(rest))[k] = rest[i + 1 + k]
                 /\ i + 1 + k \in DOMAIN rest
<1> DEFINE r == SubSeq(rest, i + 2, Len(rest))
           n == Len(rest)
<1>1. n \in Nat /\ \A k \in (i + 2)..n : rest[k] \in Byte
  OBVIOUS
<1>2. /\ r \in Seq(Byte) /\ Len(r) = n - i - 1
      /\ \A k \in 1..(n - i - 1) : r[k] = rest[i + 1 + k]
  <2>1. i + 2 \in Int /\ n \in Int
    BY <1>1
  <2>2. /\ r \in Seq(Byte)
        /\ Len(r) = IF i + 2 =< n THEN n - (i + 2) + 1 ELSE 0
        /\ \A k \in 1..(n - (i + 2) + 1) : r[k] = rest[(i + 2) + k - 1]
    BY <1>1, <2>1, SubSeqProperties
  <2> HIDE DEF r, n
  <2>3. n - (i + 2) + 1 = n - i - 1 /\ \A k \in Int : (i + 2) + k - 1 = i + 1 + k
    BY <1>1
  <2>4. i + 1 =< n
    BY DEF n
  <2> QED
    BY <1>1, <2>2, <2>3, <2>4
<1>3. c \in Nat /\ Len(text) = c + n /\ \A k \in 1..n : rest[k] = text[c + k]
  BY DEF Left
<1>4. DOMAIN r = 1..Len(r) /\ DOMAIN rest = 1..n
  BY <1>2
<1>5. i + 1 =< n
  OBVIOUS
<1> HIDE DEF r, n
<1>6. ASSUME NEW k \in 1..Len(r) PROVE r[k] = text[(c + i + 1) + k] /\ i + 1 + k \in 1..n
  <2>1. Len(r) = n - i - 1 /\ n \in Nat /\ c \in Nat
    BY <1>1, <1>2, <1>3
  <2>2. i + 1 + k \in 1..n /\ c + (i + 1 + k) = (c + i + 1) + k /\ k \in 1..(n - i - 1)
    BY <1>5, <2>1
  <2> QED
    BY <1>2, <1>3, <2>2
<1>7. Left(text, r, c + i + 1)
  <2>1. Len(r) = n - i - 1 /\ n \in Nat /\ c \in Nat /\ Len(text) = c + n
    BY <1>1, <1>2, <1>3
  <2>2. c + i + 1 \in Nat /\ Len(text) = (c + i + 1) + Len(r)
    BY <1>5, <2>1
  <2> QED
    BY <1>6, <2>2, Zenon DEF Left
<1> QED
  <2>1. \A k \in DOMAIN r : r[k] = rest[i + 1 + k] /\ i + 1 + k \in DOMAIN rest
    BY <1>1, <1>2, <1>4, <1>6
  <2> QED
    BY <1>2, <1>7, <2>1 DEF r, n

LEMMA BetweenEnds ==
    ASSUME NEW c \in Nat, NEW i \in Nat, NEW e \in Nat, e =< c \/ e >= c + i,
           e =< c + i + 1 => e =< c + i
    PROVE  e =< c + i + 1 <=> e =< c \/ e = c + i
  OBVIOUS

\* HandleData: a line is taken, and if it is a quote, so is that.
LEMMA LineTaken ==
    ASSUME NEW text \in Seq(Byte), NEW rest \in Seq(Byte), NEW quotes \in Seq(Seq(Byte)),
           NEW c \in Nat, Left(text, rest, c), FramedTo(text, c, quotes),
           NEW i, i = IndexOf(rest), i =< Len(rest),
           NEW line, line = SubSeq(rest, 1, i - 1), line \in Seq(Byte), ~ IsUnreadable(line)
    PROVE  /\ IsQuote(line) => FramedTo(text, c + i + 1, Append(quotes, line))
           /\ ~ IsQuote(line) => FramedTo(text, c + i + 1, quotes)
<1>1. /\ c + 1 \in Begins(text)
      /\ \A e \in Ends(text) : e =< c => ~ IsUnreadable(Body(text, e))
  BY DEF FramedTo
<1>2. PICK at : TakenAt(at, text, c, quotes)
  BY DEF FramedTo
<1>3. /\ i \in Nat /\ i >= 1 /\ c + i \in Ends(text) /\ c + i + 2 \in Begins(text)
      /\ \A e \in Ends(text) : e =< c \/ e >= c + i
      /\ \A e \in Ends(text) : e =< c + i + 1 => e =< c + i
      /\ Body(text, c + i) = line
  BY <1>1, NextLine
<1>4. ASSUME NEW e \in Ends(text) PROVE e \in Nat /\ (e =< c + i + 1 <=> e =< c \/ e = c + i)
  <2>1. e \in Nat
    BY EndIs
  <2>2. e =< c \/ e >= c + i
    BY <1>3
  <2>3. e =< c + i + 1 => e =< c + i
    BY <1>3
  <2>4. i \in Nat
    BY <1>3
  <2> QED
    BY <2>1, <2>2, <2>3, <2>4, BetweenEnds
<1>5. c + i + 1 + 1 \in Begins(text)
  <2>1. c + i + 1 + 1 = c + i + 2
    BY <1>3
  <2> QED
    BY <1>3, <2>1
<1>6. \A e \in Ends(text) : e =< c + i + 1 => ~ IsUnreadable(Body(text, e))
  BY <1>1, <1>3, <1>4
<1>7. Quotes(text) \subseteq Ends(text)
  BY DEF Quotes
<1>8. /\ at \in [DOMAIN quotes -> Quotes(text)]
      /\ \A k, m \in DOMAIN quotes : k < m => at[k] < at[m]
      /\ \A k \in DOMAIN quotes : quotes[k] = Body(text, at[k])
      /\ \A e \in Quotes(text) : e =< c <=> \E k \in DOMAIN quotes : at[k] = e
  BY <1>2 DEF TakenAt
<1>9. ASSUME ~ IsQuote(line) PROVE FramedTo(text, c + i + 1, quotes)
  <2>1. c + i \notin Quotes(text)
    BY <1>3, <1>9 DEF Quotes
  <2>2. \A e \in Quotes(text) : e =< c + i + 1 <=> \E k \in DOMAIN quotes : at[k] = e
    BY <1>4, <1>7, <1>8, <2>1
  <2>3. TakenAt(at, text, c + i + 1, quotes)
    BY <1>8, <2>2 DEF TakenAt
  <2> QED
    BY <1>5, <1>6, <2>3 DEF FramedTo
<1>10. ASSUME IsQuote(line) PROVE FramedTo(text, c + i + 1, Append(quotes, line))
  <2> DEFINE n == Len(quotes)
             longer == Append(quotes, line)
             new == [k \in 1..(n + 1) |-> IF k =< n THEN at[k] ELSE c + i]
  <2>1. /\ n \in Nat /\ DOMAIN quotes = 1..n /\ DOMAIN longer = 1..(n + 1)
        /\ \A k \in 1..n : longer[k] = quotes[k]
        /\ longer[n + 1] = line
    OBVIOUS
  <2>2. c + i \in Quotes(text)
    <3>1. ASSUME NEW d \in Ends(text), d < c + i PROVE ~ IsUnreadable(Body(text, d))
      <4>1. d =< c + i + 1
        BY <1>3, <1>4, <3>1
      <4> QED
        BY <1>6, <4>1
    <3> QED
      BY <1>3, <1>10, <3>1 DEF Quotes
  <2>3. /\ DOMAIN new = 1..(n + 1)
        /\ \A k \in 1..n : new[k] = at[k]
        /\ new[n + 1] = c + i
    BY <2>1
  <2> HIDE DEF new, n, longer
  <2>4. \A k \in 1..(n + 1) : k \in 1..n \/ k = n + 1
    BY <2>1
  <2>5. new \in [DOMAIN longer -> Quotes(text)]
    <3>1. ASSUME NEW k \in 1..(n + 1) PROVE new[k] \in Quotes(text)
      BY <1>8, <2>1, <2>2, <2>3, <2>4
    <3>2. new = [k \in 1..(n + 1) |-> new[k]]
      BY DEF new
    <3> QED
      BY <2>1, <3>1, <3>2
  <2>6. ASSUME NEW k \in 1..n PROVE at[k] \in Ends(text) /\ at[k] =< c /\ at[k] \in Nat
    <3>1. at[k] \in Quotes(text) /\ at[k] =< c
      BY <1>8, <2>1
    <3> QED
      BY <1>4, <1>7, <3>1
  <2>7. ASSUME NEW k \in DOMAIN longer, NEW m \in DOMAIN longer, k < m PROVE new[k] < new[m]
    <3>1. k \in 1..n
      BY <2>1, <2>7
    <3>2. CASE m \in 1..n
      BY <1>8, <2>1, <2>3, <2>7, <3>1, <3>2
    <3>3. CASE m = n + 1
      <4>1. new[m] = c + i /\ new[k] = at[k] /\ i \in Nat /\ i >= 1
        BY <1>3, <2>3, <3>1, <3>3
      <4>2. at[k] \in Nat /\ at[k] =< c
        BY <2>6, <3>1
      <4> QED
        BY <4>1, <4>2
    <3> QED
      BY <2>1, <2>4, <3>2, <3>3
  <2>8. \A k \in DOMAIN longer : longer[k] = Body(text, new[k])
    BY <1>3, <1>8, <2>1, <2>3, <2>4
  <2>9. ASSUME NEW e \in Quotes(text)
        PROVE  e =< c + i + 1 <=> \E k \in DOMAIN longer : new[k] = e
    <3>1. e =< c + i + 1 <=> e =< c \/ e = c + i
      BY <1>4, <1>7
    <3>2. e =< c <=> \E k \in 1..n : at[k] = e
      BY <1>8, <2>1
    <3>3. (\E k \in 1..(n + 1) : new[k] = e) <=> (\E k \in 1..n : at[k] = e) \/ e = c + i
      <4>1. \A k \in 1..n : k \in 1..(n + 1)
        BY <2>1
      <4>2. n + 1 \in 1..(n + 1)
        BY <2>1
      <4> QED
        BY <2>3, <2>4, <4>1, <4>2
    <3> QED
      BY <2>1, <3>1, <3>2, <3>3
  <2>10. TakenAt(new, text, c + i + 1, longer)
    BY <2>5, <2>7, <2>8, <2>9 DEF TakenAt
  <2> QED
    BY <1>5, <1>6, <2>10 DEF FramedTo, longer
<1> QED
  BY <1>9, <1>10

-----------------------------------------------------------------------------
(* The feed.                                                               *)

FeedTypes ==
    /\ wire \in Seq(Byte) /\ buffer \in Seq(Byte) /\ read \in Seq(Byte)
    /\ quote \in Seq(Byte) /\ got \in Seq(Seq(Byte))
    /\ thread \in {"down", "read", "handle", "feed", "profile", "failed"}
    /\ feed \in [Symbols -> Nat] /\ profile \in [Symbols -> Nat] /\ cache \in [Symbols -> Nat]
    /\ batch \in [Loops -> [Symbols -> Nat]]
    /\ lines \in Nat

\* The quote in the call-back is that of the line the buffer begins with; what the
\* serializer has failed on is still there.
LineInHand ==
    /\ thread \in {"feed", "profile"} => IndexOf(buffer) =< Len(buffer) /\ quote = Line /\ IsQuote(Line)
    /\ thread = "failed" => IndexOf(buffer) =< Len(buffer) /\ IsUnreadable(Line)

\* The text read has been taken up to where a line begins, and its quotes made; after
\* the last read there is no line left.
Serialized ==
    \E c \in Nat :
        /\ Left(Printing(read), buffer, c)
        /\ FramedTo(Printing(read), c, got)
        /\ thread = "read" => \A e \in Ends(Printing(read)) : e =< c

\* Its line is the only thing a message of the bridge has a number of.
LEMMA MessageIs ==
    ASSUME NEW n \in Nat, NEW m \in Messages(n)
    PROVE  /\ m \in Seq(Byte)
           /\ \A i \in DOMAIN m : m[i] \in Nat => m[i] = n
           /\ \A i, j \in DOMAIN m : m[i] \in Nat /\ m[j] \in Nat => i = j
<1>1. /\ CR \notin Nat /\ LF \notin Nat /\ Nul \notin Nat
      /\ \A s \in Symbols : s \notin Nat
  BY FeedAssumption DEF FeedAssumption
<1>2. CASE \E s \in Symbols : m \in {<< s, n, CR, LF >>, << s, Nul, n, CR, LF >>, << s, s, CR, LF >>}
  <2>1. PICK s \in Symbols : m \in {<< s, n, CR, LF >>, << s, Nul, n, CR, LF >>, << s, s, CR, LF >>}
    BY <1>2
  <2>2. CASE m = << s, n, CR, LF >>
    BY <1>1, <2>2 DEF Byte
  <2>3. CASE m = << s, Nul, n, CR, LF >>
    BY <1>1, <2>3 DEF Byte
  <2>4. CASE m = << s, s, CR, LF >>
    BY <1>1, <2>4 DEF Byte
  <2> QED
    BY <2>1, <2>2, <2>3, <2>4
<1>3. CASE m \in {<< CR, LF >>, << CR >>}
  <2>1. CASE m = << CR, LF >>
    BY <1>1, <2>1 DEF Byte
  <2>2. CASE m = << CR >>
    BY <1>1, <2>2 DEF Byte
  <2> QED
    BY <1>3, <2>1, <2>2
<1>4. \/ \E s \in Symbols : m \in {<< s, n, CR, LF >>, << s, Nul, n, CR, LF >>, << s, s, CR, LF >>}
      \/ m \in {<< CR, LF >>, << CR >>}
  <2> DEFINE T(s) == {<< s, n, CR, LF >>, << s, Nul, n, CR, LF >>, << s, s, CR, LF >>}
             U == {<< CR, LF >>, << CR >>}
  <2>1. m \in U \cup (UNION {T(s) : s \in Symbols})
    BY Zenon DEF Messages
  <2> HIDE DEF T, U
  <2>2. (\E s \in Symbols : m \in T(s)) \/ m \in U
    BY <2>1
  <2> QED
    BY <2>2 DEF T, U
<1> QED
  BY <1>2, <1>3, <1>4, Zenon

LEMMA LinesAreBytes ==
    ASSUME FeedTypes, IndexOf(buffer) =< Len(buffer)
    PROVE  /\ Line \in Seq(Byte) /\ Rest \in Seq(Byte)
           /\ IndexOf(buffer) \in Nat /\ IndexOf(buffer) >= 1 /\ IndexOf(buffer) + 1 =< Len(buffer)
           /\ \A k \in DOMAIN Line : Line[k] = buffer[k] /\ k \in DOMAIN buffer
           /\ \A k \in DOMAIN Rest : /\ Rest[k] = buffer[IndexOf(buffer) + 1 + k]
                                     /\ IndexOf(buffer) + 1 + k \in DOMAIN buffer
<1> DEFINE i == IndexOf(buffer)
<1>1. buffer \in Seq(Byte)
  BY DEF FeedTypes
<1>2. i \in Nat /\ i >= 1 /\ i + 1 =< Len(buffer)
  BY <1>1, IndexOfIs
<1> HIDE DEF i
<1>3. /\ SubSeq(buffer, 1, i - 1) \in Seq(Byte)
      /\ \A k \in DOMAIN SubSeq(buffer, 1, i - 1) :
            SubSeq(buffer, 1, i - 1)[k] = buffer[k] /\ k \in DOMAIN buffer
  BY <1>1, <1>2
<1>4. Left(buffer, buffer, 0)
  BY <1>1 DEF Left
<1>5. /\ SubSeq(buffer, i + 2, Len(buffer)) \in Seq(Byte)
      /\ \A k \in DOMAIN SubSeq(buffer, i + 2, Len(buffer)) :
            /\ SubSeq(buffer, i + 2, Len(buffer))[k] = buffer[i + 1 + k]
            /\ i + 1 + k \in DOMAIN buffer
  BY <1>1, <1>2, <1>4, RestLeft
<1> QED
  BY <1>2, <1>3, <1>5, Zenon DEF Line, Rest, i

\* HandleData: no line, a quote, a line that cannot be read, or one that is none.
LEMMA HandleDataCases ==
    ASSUME FeedTypes, HandleData
    PROVE  /\ thread = "handle"
           /\ UNCHANGED << timer, prices, counts, wire, read, got >>
           /\ \/ /\ IndexOf(buffer) > Len(buffer)
                 /\ thread' = "read" /\ buffer' = buffer /\ quote' = quote
              \/ /\ IndexOf(buffer) =< Len(buffer)
                 /\ \/ /\ IsQuote(Line)
                       /\ thread' = "feed" /\ quote' = Line /\ buffer' = buffer
                    \/ /\ IsUnreadable(Line)
                       /\ thread' = "failed" /\ buffer' = buffer /\ quote' = quote
                    \/ /\ ~ IsQuote(Line) /\ ~ IsUnreadable(Line)
                       /\ buffer' = Rest /\ thread' = thread /\ quote' = quote
<1>1. IndexOf(buffer) \in Int /\ Len(buffer) \in Nat
  <2>1. buffer \in Seq(Byte)
    BY DEF FeedTypes
  <2>2. IndexOf(buffer) \in 1..(Len(buffer) + 1)
    BY <2>1, IndexOfIs
  <2> QED
    BY <2>1, <2>2
<1>2. ~ (IndexOf(buffer) > Len(buffer)) => IndexOf(buffer) =< Len(buffer)
  BY <1>1
<1>3. ~ (IsQuote(Line) /\ IsUnreadable(Line))
  BY QuoteIsReadable
<1>4. CASE IndexOf(buffer) > Len(buffer)
  BY <1>4 DEF HandleData
<1>5. CASE ~ (IndexOf(buffer) > Len(buffer))
  <2>1. CASE IsQuote(Line)
    BY <1>2, <1>3, <1>5, <2>1 DEF HandleData
  <2>2. CASE IsUnreadable(Line)
    BY <1>2, <1>3, <1>5, <2>2 DEF HandleData
  <2>3. CASE ~ IsQuote(Line) /\ ~ IsUnreadable(Line)
    BY <1>2, <1>5, <2>3 DEF HandleData
  <2> QED
    BY <2>1, <2>2, <2>3
<1> QED
  BY <1>4, <1>5

\* What Read puts into the buffer.
LEMMA ReadCut ==
    ASSUME FeedTypes, NEW n \in 1..Len(wire)
    PROVE  /\ SubSeq(wire, 1, n) \in Seq(Byte) /\ SubSeq(wire, n + 1, Len(wire)) \in Seq(Byte)
           /\ \A k \in DOMAIN SubSeq(wire, 1, n) :
                 SubSeq(wire, 1, n)[k] = wire[k] /\ k \in DOMAIN wire /\ k =< n
           /\ \A k \in DOMAIN SubSeq(wire, n + 1, Len(wire)) :
                 /\ SubSeq(wire, n + 1, Len(wire))[k] = wire[n + k]
                 /\ n + k \in DOMAIN wire /\ k >= 1
<1>1. wire \in Seq(Byte) /\ n \in Nat /\ Len(wire) \in Nat /\ n =< Len(wire) /\ n >= 1
  BY DEF FeedTypes
<1>2. /\ SubSeq(wire, 1, n) \in Seq(Byte)
      /\ \A k \in DOMAIN SubSeq(wire, 1, n) :
            SubSeq(wire, 1, n)[k] = wire[k] /\ k \in DOMAIN wire /\ k =< n
  BY <1>1
<1>3. PICK i \in Nat : n = i + 1
  <2>1. n - 1 \in Nat /\ n = (n - 1) + 1
    BY <1>1
  <2> QED
    BY <2>1
<1>4. /\ SubSeq(wire, n + 1, Len(wire)) \in Seq(Byte)
      /\ \A k \in DOMAIN SubSeq(wire, n + 1, Len(wire)) :
            SubSeq(wire, n + 1, Len(wire))[k] = wire[n + k] /\ n + k \in DOMAIN wire
  <2>1. Left(wire, wire, 0)
    BY <1>1 DEF Left
  <2>2. n + 1 = i + 2 /\ i + 1 =< Len(wire)
    BY <1>1, <1>3
  <2> QED
    BY <1>1, <1>3, <2>1, <2>2, RestLeft
<1>5. \A k \in DOMAIN SubSeq(wire, n + 1, Len(wire)) : k >= 1
  BY <1>4
<1> QED
  BY <1>2, <1>4, <1>5

\* The steps of the timer leave the connection alone.
TimerStep == \E l \in Loops : StartFeed(l) \/ LoopStep(l)

LEMMA TimerApart ==
    ASSUME TimerStep
    PROVE  /\ wire' = wire /\ buffer' = buffer /\ thread' = thread /\ quote' = quote
           /\ read' = read /\ got' = got /\ lines' = lines /\ profile' = profile
<1>1. UNCHANGED link /\ UNCHANGED counts /\ profile' = profile
  BY DEF TimerStep, LoopStep, StartFeed, Elapse, Execute, EndExecute, Publish, prices
<1> QED
  BY <1>1 DEF link, counts

LEMMA FeedSteps ==
    ASSUME [FeedNext]_feedVars
    PROVE  \/ Send \/ Connected \/ Lose \/ Read \/ HandleData \/ CallBackFeed \/ CallBackProfile
           \/ TimerStep \/ UNCHANGED feedVars
  BY DEF FeedNext, SocketStep, TimerStep

LEMMA FeedTypesKept ==
    ASSUME FeedTypes, LineInHand, [FeedNext]_feedVars
    PROVE  FeedTypes'
<1> USE DEF FeedTypes
<1>1. CASE Send
  <2>1. PICK m \in Messages(lines + 1) : wire' = wire \o m
    BY <1>1 DEF Send
  <2>2. m \in Seq(Byte)
    <3>1. lines + 1 \in Nat
      OBVIOUS
    <3> QED
      BY <3>1, MessageIs
  <2>3. wire' \in Seq(Byte)
    BY <2>1, <2>2
  <2>4. lines' \in Nat
    BY <1>1 DEF Send
  <2>5. UNCHANGED << prices, buffer, thread, quote, read, got >>
    BY <1>1 DEF Send
  <2> QED
    BY <2>3, <2>4, <2>5 DEF prices
<1>2. CASE Connected
  BY <1>2 DEF Connected, prices, counts
<1>3. CASE Lose
  BY <1>3 DEF Lose, prices
<1>4. CASE Read
  <2>1. PICK n \in 1..Len(wire) :
          /\ buffer' = buffer \o Printing(SubSeq(wire, 1, n))
          /\ read' = read \o SubSeq(wire, 1, n)
          /\ wire' = SubSeq(wire, n + 1, Len(wire))
    BY <1>4 DEF Read
  <2>2. SubSeq(wire, 1, n) \in Seq(Byte) /\ SubSeq(wire, n + 1, Len(wire)) \in Seq(Byte)
    BY ReadCut
  <2>3. Printing(SubSeq(wire, 1, n)) \in Seq(Byte)
    BY <2>2, PrintingKeeps
  <2>4. wire' \in Seq(Byte) /\ buffer' \in Seq(Byte) /\ read' \in Seq(Byte)
    BY <2>1, <2>2, <2>3
  <2>5. thread' = "handle" /\ UNCHANGED << prices, counts, quote, got >>
    BY <1>4 DEF Read
  <2> QED
    BY <2>4, <2>5 DEF prices, counts
<1>5. CASE HandleData
  <2>1. UNCHANGED << prices, counts, wire, read, got >>
    BY <1>5 DEF HandleData
  <2>2. thread' \in {"handle", "read", "feed", "failed"} /\ buffer' \in Seq(Byte) /\ quote' \in Seq(Byte)
    BY <1>5, HandleDataCases, LinesAreBytes
  <2> QED
    BY <2>1, <2>2 DEF prices, counts
<1>6. CASE CallBackFeed
  <2>1. quote[1] \in Symbols /\ quote[2] \in Nat
    BY <1>6 DEF CallBackFeed, LineInHand, IsQuote
  <2> QED
    BY <1>6, <2>1 DEF CallBackFeed, counts
<1>7. CASE CallBackProfile
  <2>1. quote[1] \in Symbols /\ quote[2] \in Nat /\ IndexOf(buffer) =< Len(buffer)
    BY <1>7 DEF CallBackProfile, LineInHand, IsQuote
  <2>2. Rest \in Seq(Byte)
    BY <2>1, LinesAreBytes
  <2>3. profile' \in [Symbols -> Nat] /\ got' \in Seq(Seq(Byte)) /\ quote' \in Seq(Byte)
    BY <1>7, <2>1 DEF CallBackProfile, NoQuote
  <2> QED
    BY <1>7, <2>2, <2>3 DEF CallBackProfile, counts
<1>8. CASE TimerStep
  <2>1. PICK l \in Loops : StartFeed(l) \/ LoopStep(l)
    BY <1>8 DEF TimerStep
  <2>2. /\ feed' \in [Symbols -> Nat] /\ cache' \in [Symbols -> Nat]
        /\ batch' \in [Loops -> [Symbols -> Nat]]
    <3>1. CASE StartFeed(l) \/ Elapse(l) \/ EndExecute(l)
      BY <3>1 DEF StartFeed, Elapse, EndExecute, prices
    <3>2. CASE Execute(l)
      BY <3>2 DEF Execute, NoPrices
    <3>3. CASE \E s \in Symbols : Publish(l, s)
      BY <3>3 DEF Publish
    <3> QED
      BY <2>1, <3>1, <3>2, <3>3 DEF LoopStep
  <2> QED
    BY <1>8, <2>2, TimerApart
<1>9. CASE UNCHANGED feedVars
  BY <1>9 DEF feedVars, link, counts, prices
<1> QED
  BY <1>1, <1>2, <1>3, <1>4, <1>5, <1>6, <1>7, <1>8, <1>9, FeedSteps

LEMMA LineInHandKept ==
    ASSUME FeedTypes, LineInHand, [FeedNext]_feedVars
    PROVE  LineInHand'
<1>1. CASE Send
  BY <1>1 DEF Send, LineInHand, Line
<1>2. CASE Connected
  BY <1>2 DEF Connected, LineInHand
<1>3. CASE Lose
  BY <1>3 DEF Lose, LineInHand
<1>4. CASE Read
  BY <1>4 DEF Read, LineInHand
<1>5. CASE HandleData
  BY <1>5, HandleDataCases DEF LineInHand, Line
<1>6. CASE CallBackFeed
  BY <1>6 DEF CallBackFeed, LineInHand, Line
<1>7. CASE CallBackProfile
  BY <1>7 DEF CallBackProfile, LineInHand
<1>8. CASE TimerStep
  BY <1>8, TimerApart DEF LineInHand, Line
<1>9. CASE UNCHANGED feedVars
  BY <1>9 DEF feedVars, link, LineInHand, Line
<1> QED
  BY <1>1, <1>2, <1>3, <1>4, <1>5, <1>6, <1>7, <1>8, <1>9, FeedSteps

\* A connection begins with nothing.
LEMMA NothingSerialized ==
    /\ Left(Printing(<< >>), << >>, 0) /\ FramedTo(Printing(<< >>), 0, << >>)
    /\ Ends(Printing(<< >>)) = {}
<1> DEFINE no == << >>
<1>1. Printing(no) = no
  <2>1. PICK h : Kept(h, no, 0) /\ Printing(no) = h[0]
    BY PrintingIsLast
  <2> QED
    BY <2>1, KeptSteps
<1>2. Left(no, no, 0)
  BY DEF Left
<1>3. Ends(no) = {} /\ Quotes(no) = {} /\ 0 + 1 \in Begins(no)
  BY DEF Ends, Quotes, Begins
<1>4. TakenAt([k \in {} |-> 0], no, 0, no)
  <2>1. DOMAIN no = {}
    OBVIOUS
  <2> HIDE DEF no
  <2> QED
    BY <1>3, <2>1 DEF TakenAt
<1>5. FramedTo(no, 0, no)
  BY <1>3, <1>4, Zenon DEF FramedTo
<1> QED
  BY <1>1, <1>2, <1>3, <1>5

LEMMA SerializedInit == FeedInit => Serialized
<1> SUFFICES ASSUME FeedInit PROVE Serialized
  OBVIOUS
<1>1. read = << >> /\ buffer = << >> /\ got = << >>
  BY DEF FeedInit
<1> QED
  BY <1>1, NothingSerialized DEF Serialized

LEMMA SerializedKept ==
    ASSUME FeedTypes, LineInHand, Serialized, [FeedNext]_feedVars
    PROVE  Serialized'
<1>1. PICK c \in Nat :
        /\ Left(Printing(read), buffer, c)
        /\ FramedTo(Printing(read), c, got)
        /\ thread = "read" => \A e \in Ends(Printing(read)) : e =< c
  BY DEF Serialized
<1>2. /\ wire \in Seq(Byte) /\ buffer \in Seq(Byte) /\ read \in Seq(Byte)
      /\ got \in Seq(Seq(Byte))
  BY DEF FeedTypes
<1>3. Printing(read) \in Seq(Byte)
  BY <1>2, PrintingKeeps
<1>4. c + 1 \in Begins(Printing(read))
  BY <1>1 DEF FramedTo
\* Most steps leave what has been read, taken and made as it was.
<1>5. ASSUME read' = read, buffer' = buffer, got' = got, thread' = "read" => thread = "read"
      PROVE  Serialized'
  BY <1>1, <1>5 DEF Serialized
<1>6. CASE Send
  BY <1>5, <1>6 DEF Send
<1>7. CASE Connected
  <2>1. read' = << >> /\ buffer' = << >> /\ got' = << >>
    BY <1>7 DEF Connected
  <2> QED
    BY <2>1, NothingSerialized DEF Serialized
<1>8. CASE Lose
  BY <1>5, <1>8 DEF Lose
<1>9. CASE Read
  <2>1. PICK n \in 1..Len(wire) :
          /\ buffer' = buffer \o Printing(SubSeq(wire, 1, n))
          /\ read' = read \o SubSeq(wire, 1, n)
    BY <1>9 DEF Read
  <2>2. PICK more : more = Printing(SubSeq(wire, 1, n))
    OBVIOUS
  <2>3. SubSeq(wire, 1, n) \in Seq(Byte)
    BY ReadCut
  <2>4. more \in Seq(Byte)
    BY <2>2, <2>3, PrintingKeeps
  <2>5. Printing(read') = Printing(read) \o more
    BY <1>2, <2>1, <2>2, <2>3, PrintingParts
  <2>6. Left(Printing(read'), buffer', c)
    BY <1>1, <1>2, <1>3, <2>1, <2>2, <2>4, <2>5, LongerLeft
  <2>7. c =< Len(Printing(read))
    <3>1. Len(Printing(read)) = c + Len(buffer) /\ Len(buffer) \in Nat
      BY <1>1, <1>2 DEF Left
    <3> QED
      BY <3>1
  <2>8. FramedTo(Printing(read'), c, got)
    BY <1>1, <1>2, <1>3, <2>4, <2>5, <2>7, LongerFramed
  <2>9. thread' = "handle" /\ got' = got
    BY <1>9 DEF Read
  <2> QED
    BY <2>6, <2>8, <2>9 DEF Serialized
\* A line has been dealt with.
<1>10. ASSUME IndexOf(buffer) =< Len(buffer), ~ IsUnreadable(Line), read' = read, buffer' = Rest,
              got' = IF IsQuote(Line) THEN Append(got, Line) ELSE got, thread' = "handle"
       PROVE  Serialized'
  <2>1. Line \in Seq(Byte) /\ IndexOf(buffer) \in Nat /\ IndexOf(buffer) + 1 =< Len(buffer)
    BY <1>10, LinesAreBytes
  <2>2. Left(Printing(read'), buffer', c + IndexOf(buffer) + 1)
    BY <1>1, <1>2, <1>3, <1>10, <2>1, RestLeft DEF Rest
  <2>3. FramedTo(Printing(read'), c + IndexOf(buffer) + 1, got')
    <3>1. Line = SubSeq(buffer, 1, IndexOf(buffer) - 1)
      BY DEF Line
    <3>2. /\ IsQuote(Line) => FramedTo(Printing(read), c + IndexOf(buffer) + 1, Append(got, Line))
          /\ ~ IsQuote(Line) => FramedTo(Printing(read), c + IndexOf(buffer) + 1, got)
      BY <1>1, <1>2, <1>3, <1>10, <2>1, <3>1, LineTaken
    <3> QED
      BY <1>10, <3>2
  <2>4. c + IndexOf(buffer) + 1 \in Nat
    BY <2>1
  <2> QED
    BY <1>10, <2>2, <2>3, <2>4 DEF Serialized
<1>11. CASE HandleData
  <2>1. read' = read /\ got' = got /\ thread = "handle"
    BY <1>11, HandleDataCases
  <2>2. CASE IndexOf(buffer) > Len(buffer)
    <3>1. buffer' = buffer
      <4>1. ~ (IndexOf(buffer) =< Len(buffer))
        BY <1>2, <2>2, IndexOfIs
      <4> QED
        BY <1>11, <4>1, HandleDataCases
    <3>2. \A e \in Ends(Printing(read)) : e =< c
      BY <1>1, <1>2, <1>3, <1>4, <2>2, NextLine
    <3> QED
      BY <1>1, <2>1, <3>1, <3>2 DEF Serialized
  <2>3. CASE IndexOf(buffer) =< Len(buffer) /\ thread' \in {"feed", "failed"} /\ buffer' = buffer
    BY <1>5, <2>1, <2>3
  <2>4. CASE /\ IndexOf(buffer) =< Len(buffer) /\ ~ IsQuote(Line) /\ ~ IsUnreadable(Line)
             /\ buffer' = Rest /\ thread' = thread
    BY <1>10, <2>1, <2>4
  <2> QED
    BY <1>11, <2>2, <2>3, <2>4, HandleDataCases
<1>12. CASE CallBackFeed
  BY <1>5, <1>12 DEF CallBackFeed
<1>13. CASE CallBackProfile
  <2>1. IndexOf(buffer) =< Len(buffer) /\ quote = Line /\ IsQuote(Line) /\ ~ IsUnreadable(Line)
    BY <1>13, QuoteIsReadable DEF CallBackProfile, LineInHand
  <2>2. read' = read /\ buffer' = Rest /\ got' = Append(got, quote) /\ thread' = "handle"
    BY <1>13 DEF CallBackProfile
  <2> QED
    BY <1>10, <2>1, <2>2
<1>14. CASE TimerStep
  BY <1>5, <1>14, TimerApart
<1>15. CASE UNCHANGED feedVars
  BY <1>5, <1>15 DEF feedVars, link
<1> QED
  BY <1>6, <1>7, <1>8, <1>9, <1>11, <1>12, <1>13, <1>14, <1>15, FeedSteps

\* The quotes made are then those that are due.
LEMMA SerializedFramed ==
    ASSUME FeedTypes, LineInHand, Serialized
    PROVE  Framed
<1>1. PICK c \in Nat :
        /\ Left(Printing(read), buffer, c)
        /\ FramedTo(Printing(read), c, got)
        /\ thread = "read" => \A e \in Ends(Printing(read)) : e =< c
  BY DEF Serialized
<1>2. buffer \in Seq(Byte) /\ read \in Seq(Byte)
  BY DEF FeedTypes
<1>3. PICK text \in Seq(Byte) : text = Printing(read)
  BY <1>2, PrintingKeeps
<1>4. PICK at : TakenAt(at, text, c, got)
  BY <1>1, <1>3 DEF FramedTo
<1>5. /\ at \in [DOMAIN got -> Quotes(text)]
      /\ \A k, m \in DOMAIN got : k < m => at[k] < at[m]
      /\ \A k \in DOMAIN got : got[k] = Body(text, at[k])
      /\ \A e \in Quotes(text) : e =< c <=> \E k \in DOMAIN got : at[k] = e
  BY <1>4 DEF TakenAt
<1>6. ASSUME NEW e \in Quotes(text) PROVE e \in Ends(text) /\ e \in Nat
  <2>1. e \in Ends(text)
    BY DEF Quotes
  <2> QED
    BY <2>1, EndIs
<1>7. ASSUME thread = "failed", NEW e \in Quotes(text) PROVE e =< c
  <2> DEFINE i == IndexOf(buffer)
  <2>1. i =< Len(buffer) /\ IsUnreadable(Line)
    BY <1>7 DEF LineInHand
  <2>2. c + 1 \in Begins(text)
    BY <1>1, <1>3 DEF FramedTo
  <2>3. /\ i \in Nat /\ c + i \in Ends(text) /\ Body(text, c + i) = Line
        /\ \A d \in Ends(text) : d =< c \/ d >= c + i
    BY <1>1, <1>2, <1>3, <2>1, <2>2, NextLine DEF Line
  <2> HIDE DEF i
  <2>4. e # c + i
    BY <2>1, <2>3, QuoteIsReadable DEF Quotes
  <2>5. ~ (c + i < e)
    BY <2>1, <2>3 DEF Quotes
  <2>6. e \in Nat /\ (e =< c \/ e >= c + i)
    BY <1>6, <2>3
  <2> QED
    BY <2>3, <2>4, <2>5, <2>6
<1>8. ASSUME NEW e \in Quotes(text),
             thread \in {"read", "failed"} \/ (\E k \in DOMAIN got : e < at[k])
      PROVE  \E k \in DOMAIN got : at[k] = e
  <2>1. CASE thread = "read"
    BY <1>1, <1>3, <1>5, <1>6, <2>1
  <2>2. CASE thread = "failed"
    BY <1>5, <1>7, <2>2
  <2>3. CASE \E k \in DOMAIN got : e < at[k]
    <3>1. PICK k \in DOMAIN got : e < at[k]
      BY <2>3
    <3>2. at[k] \in Quotes(text) /\ at[k] =< c
      BY <1>5
    <3>3. e \in Nat /\ at[k] \in Nat
      BY <1>6, <3>2
    <3>4. e =< c
      BY <3>1, <3>2, <3>3
    <3> QED
      BY <1>5, <3>4
  <2> QED
    BY <1>8, <2>1, <2>2, <2>3
<1> QED
  BY <1>3, <1>5, <1>8, Zenon DEF Framed

-----------------------------------------------------------------------------
(* The prices.                                                             *)

\* None of the numbers a connection still holds is below one that has come out.
NoNewer(p) ==
    /\ p =< lines
    /\ \A k \in DOMAIN buffer : buffer[k] \in Nat => p =< buffer[k]
    /\ \A j \in DOMAIN wire : wire[j] \in Nat => p =< wire[j]

InOrder ==
    /\ Ordered(buffer) /\ Ordered(wire)
    /\ \A k \in DOMAIN buffer : buffer[k] \in Nat => buffer[k] =< lines
    /\ \A j \in DOMAIN wire : wire[j] \in Nat => wire[j] =< lines
    /\ \A k \in DOMAIN buffer : \A j \in DOMAIN wire :
          buffer[k] \in Nat /\ wire[j] \in Nat => buffer[k] < wire[j]

\* A price noted, taken and published: each is at least as old as the one before.
PricesInOrder ==
    \A s \in Symbols :
        /\ NoNewer(feed[s]) /\ NoNewer(cache[s])
        /\ feed[s] # 0 => cache[s] =< feed[s]
        /\ \A l \in Loops : /\ NoNewer(batch[l][s])
                            /\ feed[s] # 0 => batch[l][s] =< feed[s]
                            /\ batch[l][s] # 0 => cache[s] =< batch[l][s]

\* The timer is started once.
OneLoop ==
    /\ loop \in [Loops -> {"new", "check", "execute", "pause"}]
    /\ \A l, m \in Loops : loop[l] # "new" /\ loop[m] # "new" => l = m
    /\ \A l \in Loops : /\ loop[l] # "new" => working
                        /\ loop[l] # "execute" => batch[l] = NoPrices

LEMMA OneLoopKept ==
    ASSUME FeedTypes, OneLoop, [FeedNext]_feedVars
    PROVE  OneLoop'
<1>1. CASE Send \/ Connected \/ Lose \/ Read \/ HandleData \/ CallBackFeed \/ CallBackProfile
           \/ UNCHANGED feedVars
  <2>1. UNCHANGED timer /\ batch' = batch
    BY <1>1 DEF Send, Connected, Lose, Read, HandleData, CallBackFeed, CallBackProfile, feedVars, prices
  <2> QED
    BY <2>1 DEF OneLoop, timer, NoPrices
<1>2. CASE TimerStep
  <2>1. PICK l \in Loops : StartFeed(l) \/ LoopStep(l)
    BY <1>2 DEF TimerStep
  <2> USE DEF OneLoop, NoPrices, GoLoop
  <2>2. CASE StartFeed(l)
    BY <2>2 DEF StartFeed, Start, prices
  <2>3. CASE Elapse(l)
    BY <2>3 DEF Elapse, Elapsed, prices
  <2>4. CASE Execute(l)
    BY <2>4 DEF Execute, Check, FeedTypes
  <2>5. CASE EndExecute(l)
    BY <2>5 DEF EndExecute, Executed, prices
  <2>6. CASE \E s \in Symbols : Publish(l, s)
    BY <2>6 DEF Publish, timer, FeedTypes
  <2> QED
    BY <2>1, <2>2, <2>3, <2>4, <2>5, <2>6 DEF LoopStep
<1> QED
  BY <1>1, <1>2, FeedSteps

\* Bytes move from the bridge to the wire, to the buffer and out, and stay in order.
LEMMA InOrderKept ==
    ASSUME FeedTypes, LineInHand, InOrder, [FeedNext]_feedVars
    PROVE  /\ InOrder'
           /\ \A p \in Nat : NoNewer(p) => NoNewer(p)'
<1> DEFINE Fine == InOrder' /\ \A p \in Nat : NoNewer(p) => NoNewer(p)'
<1>0. /\ wire \in Seq(Byte) /\ buffer \in Seq(Byte) /\ lines \in Nat
  BY DEF FeedTypes
<1>1. CASE wire' = wire /\ buffer' = buffer /\ lines' = lines
  BY <1>1 DEF InOrder, NoNewer, Ordered
<1>2. ASSUME wire' = wire, lines' = lines, IndexOf(buffer) =< Len(buffer), buffer' = Rest
      PROVE  Fine
  <2> DEFINE i == IndexOf(buffer)
  <2>1. /\ i \in Nat /\ Rest \in Seq(Byte)
        /\ \A k \in DOMAIN Rest : Rest[k] = buffer[i + 1 + k] /\ i + 1 + k \in DOMAIN buffer
    BY <1>2, LinesAreBytes
  <2> HIDE DEF i
  <2>2. ASSUME NEW k \in DOMAIN Rest, NEW j \in DOMAIN Rest, k < j PROVE i + 1 + k < i + 1 + j
    BY <2>1, <2>2
  <2>3. Ordered(Rest)
    BY <2>1, <2>2 DEF InOrder, Ordered
  <2>4. InOrder'
    BY <1>2, <2>1, <2>3 DEF InOrder
  <2>5. \A p \in Nat : NoNewer(p) => NoNewer(p)'
    BY <1>2, <2>1 DEF NoNewer
  <2> QED
    BY <2>4, <2>5
<1>3. CASE Send
  <2>1. PICK m \in Messages(lines + 1) : wire' = wire \o m
    BY <1>3 DEF Send
  <2>2. buffer' = buffer /\ lines' = lines + 1 /\ lines + 1 \in Nat
    BY <1>0, <1>3 DEF Send
  <2>3. /\ m \in Seq(Byte)
        /\ \A k \in DOMAIN m : m[k] \in Nat => m[k] = lines + 1
        /\ \A k, j \in DOMAIN m : m[k] \in Nat /\ m[j] \in Nat => k = j
    BY <2>2, MessageIs
  <2> DEFINE n == Len(wire)
             long == wire \o m
  <2>4. /\ n \in Nat /\ Len(m) \in Nat /\ DOMAIN wire = 1..n /\ DOMAIN m = 1..Len(m)
        /\ DOMAIN long = 1..(n + Len(m))
        /\ \A k \in 1..n : long[k] = wire[k]
        /\ \A k \in 1..Len(m) : long[n + k] = m[k]
    BY <1>0, <2>3
  <2> HIDE DEF n, long
  <2>5. ASSUME NEW k \in DOMAIN long
        PROVE  \/ k \in DOMAIN wire /\ long[k] = wire[k]
               \/ k - n \in DOMAIN m /\ long[k] = m[k - n] /\ k > n
    <3>1. CASE k =< n
      BY <2>4, <3>1
    <3>2. CASE ~ (k =< n)
      <4>1. k - n \in 1..Len(m) /\ n + (k - n) = k
        BY <2>4, <3>2
      <4> QED
        BY <2>4, <3>2, <4>1
    <3> QED
      BY <3>1, <3>2
  <2>6. ASSUME NEW k \in DOMAIN long, long[k] \in Nat
        PROVE  \/ k \in DOMAIN wire /\ long[k] = wire[k] /\ wire[k] =< lines
               \/ k - n \in DOMAIN m /\ long[k] = m[k - n] /\ long[k] = lines + 1 /\ k > n
    BY <2>3, <2>5, <2>6 DEF InOrder
  <2>7. Ordered(long)
    <3> SUFFICES ASSUME NEW k \in DOMAIN long, NEW j \in DOMAIN long, k < j,
                        long[k] \in Nat, long[j] \in Nat
                 PROVE  long[k] < long[j]
      BY DEF Ordered
    <3>1. CASE j \in DOMAIN wire
      <4>1. k \in DOMAIN wire
        BY <2>4, <3>1
      <4>2. long[k] = wire[k] /\ long[j] = wire[j]
        BY <2>4, <3>1, <4>1
      <4> QED
        BY <3>1, <4>1, <4>2 DEF InOrder, Ordered
    <3>2. CASE j - n \in DOMAIN m /\ long[j] = m[j - n] /\ long[j] = lines + 1
      <4>1. CASE k \in DOMAIN wire /\ long[k] = wire[k] /\ wire[k] =< lines
        BY <1>0, <3>2, <4>1
      <4>2. CASE k - n \in DOMAIN m /\ long[k] = m[k - n]
        <5>1. k - n = j - n
          BY <2>3, <3>2, <4>2
        <5> QED
          BY <2>4, <5>1
      <4> QED
        BY <2>6, <4>1, <4>2
    <3> QED
      BY <2>6, <3>1, <3>2
  <2>8. \A k \in DOMAIN long : long[k] \in Nat => long[k] =< lines + 1
    BY <1>0, <2>6
  <2>9. wire' = long
    BY <2>1 DEF long
  <2>10. \A k \in DOMAIN buffer : buffer[k] \in Nat => buffer[k] =< lines + 1
    BY <1>0 DEF InOrder
  <2>11. ASSUME NEW k \in DOMAIN buffer, NEW j \in DOMAIN long, buffer[k] \in Nat, long[j] \in Nat
         PROVE  buffer[k] < long[j]
    <3>1. buffer[k] =< lines
      BY <2>11 DEF InOrder
    <3>2. CASE j \in DOMAIN wire /\ long[j] = wire[j]
      BY <2>11, <3>2 DEF InOrder
    <3>3. CASE long[j] = lines + 1
      BY <1>0, <2>11, <3>1, <3>3
    <3> QED
      BY <2>6, <2>11, <3>2, <3>3
  <2>12. InOrder'
    BY <2>2, <2>7, <2>8, <2>9, <2>10, <2>11 DEF InOrder
  <2>13. ASSUME NEW p \in Nat, NoNewer(p) PROVE NoNewer(p)'
    <3>1. p =< lines + 1
      BY <1>0, <2>13 DEF NoNewer
    <3>2. ASSUME NEW k \in DOMAIN long, long[k] \in Nat PROVE p =< long[k]
      BY <2>6, <2>13, <3>1, <3>2 DEF NoNewer
    <3> QED
      BY <2>2, <2>9, <2>13, <3>1, <3>2 DEF NoNewer
  <2> QED
    BY <2>12, <2>13
<1>4. CASE Connected
  <2>1. wire' = << >> /\ buffer' = << >> /\ lines' = lines
    BY <1>4 DEF Connected, counts
  <2> QED
    BY <2>1 DEF InOrder, NoNewer, Ordered
<1>5. CASE Lose
  BY <1>1, <1>5 DEF Lose
<1>6. CASE Read
  <2>1. PICK n \in 1..Len(wire) :
          /\ buffer' = buffer \o Printing(SubSeq(wire, 1, n))
          /\ wire' = SubSeq(wire, n + 1, Len(wire))
    BY <1>6 DEF Read
  <2>2. lines' = lines /\ n \in Nat
    BY <1>0, <1>6 DEF Read, counts
  <2> DEFINE cut == SubSeq(wire, 1, n)
             left == SubSeq(wire, n + 1, Len(wire))
             more == Printing(cut)
             long == buffer \o more
             b == Len(buffer)
  <2>3. /\ cut \in Seq(Byte) /\ left \in Seq(Byte)
        /\ \A k \in DOMAIN cut : cut[k] = wire[k] /\ k \in DOMAIN wire /\ k =< n
        /\ \A k \in DOMAIN left : left[k] = wire[n + k] /\ n + k \in DOMAIN wire /\ k >= 1
    BY ReadCut
  <2>4. Ordered(cut)
    <3> HIDE DEF cut
    <3> QED
      BY <2>3 DEF InOrder, Ordered
  <2>5. /\ more \in Seq(Byte) /\ Ordered(more)
        /\ \A k \in DOMAIN more : \E j \in DOMAIN cut : more[k] = cut[j]
    <3> HIDE DEF cut
    <3> QED
      BY <2>3, <2>4, PrintingKeeps
  <2> HIDE DEF cut, left, more
  <2>6. \A k \in DOMAIN more : \E j \in DOMAIN wire : more[k] = wire[j] /\ j =< n
    BY <2>3, <2>5
  <2>7. /\ b \in Nat /\ Len(more) \in Nat /\ DOMAIN buffer = 1..b /\ DOMAIN more = 1..Len(more)
        /\ DOMAIN long = 1..(b + Len(more))
        /\ \A k \in 1..b : long[k] = buffer[k]
        /\ \A k \in 1..Len(more) : long[b + k] = more[k]
    BY <1>0, <2>5
  <2> HIDE DEF long, b
  <2>8. ASSUME NEW k \in DOMAIN long
        PROVE  \/ k \in DOMAIN buffer /\ long[k] = buffer[k]
               \/ k - b \in DOMAIN more /\ long[k] = more[k - b] /\ k > b
    <3>1. CASE k =< b
      BY <2>7, <3>1
    <3>2. CASE ~ (k =< b)
      <4>1. k - b \in 1..Len(more) /\ b + (k - b) = k
        BY <2>7, <3>2
      <4> QED
        BY <2>7, <3>2, <4>1
    <3> QED
      BY <3>1, <3>2
  <2>9. ASSUME NEW k \in DOMAIN long
        PROVE  \/ \E j \in DOMAIN buffer : long[k] = buffer[j]
               \/ \E j \in DOMAIN wire : long[k] = wire[j] /\ j =< n
    BY <2>6, <2>8
  <2>10. Ordered(long)
    <3> SUFFICES ASSUME NEW k \in DOMAIN long, NEW j \in DOMAIN long, k < j,
                        long[k] \in Nat, long[j] \in Nat
                 PROVE  long[k] < long[j]
      BY DEF Ordered
    <3>1. CASE j \in DOMAIN buffer
      <4>1. k \in DOMAIN buffer /\ long[k] = buffer[k] /\ long[j] = buffer[j]
        BY <2>7, <3>1
      <4> QED
        BY <3>1, <4>1 DEF InOrder, Ordered
    <3>2. CASE j - b \in DOMAIN more /\ long[j] = more[j - b]
      <4>1. CASE k \in DOMAIN buffer /\ long[k] = buffer[k]
        <5>1. PICK w \in DOMAIN wire : long[j] = wire[w]
          BY <2>6, <3>2
        <5> QED
          BY <4>1, <5>1 DEF InOrder
      <4>2. CASE k - b \in DOMAIN more /\ long[k] = more[k - b]
        <5>1. k - b < j - b
          BY <2>7
        <5> QED
          BY <2>5, <3>2, <4>2, <5>1 DEF Ordered
      <4> QED
        BY <2>8, <4>1, <4>2
    <3> QED
      BY <2>8, <3>1, <3>2
  <2>11. ASSUME NEW k \in DOMAIN left, NEW j \in DOMAIN left, k < j PROVE n + k < n + j
    BY <2>2, <2>3, <2>11
  <2>12. Ordered(left)
    BY <2>3, <2>11 DEF InOrder, Ordered
  <2>13. ASSUME NEW k \in DOMAIN long, NEW j \in DOMAIN left, long[k] \in Nat, left[j] \in Nat
         PROVE  long[k] < left[j]
    <3>1. left[j] = wire[n + j] /\ n + j \in DOMAIN wire /\ j \in Nat /\ j >= 1
      BY <2>3
    <3>2. CASE \E i \in DOMAIN buffer : long[k] = buffer[i]
      BY <2>13, <3>1, <3>2 DEF InOrder
    <3>3. CASE \E i \in DOMAIN wire : long[k] = wire[i] /\ i =< n
      <4>1. PICK i \in DOMAIN wire : long[k] = wire[i] /\ i =< n
        BY <3>3
      <4>2. i \in Nat /\ i < n + j
        BY <1>0, <2>2, <3>1, <4>1
      <4> QED
        BY <2>13, <3>1, <4>1, <4>2 DEF InOrder, Ordered
    <3> QED
      BY <2>9, <3>2, <3>3
  <2>14. buffer' = long /\ wire' = left
    BY <2>1 DEF long, more, cut, left
  <2>15. \A k \in DOMAIN long : long[k] \in Nat => long[k] =< lines
    BY <2>9 DEF InOrder
  <2>16. \A k \in DOMAIN left : left[k] \in Nat => left[k] =< lines
    BY <2>3 DEF InOrder
  <2>17. InOrder'
    BY <2>2, <2>10, <2>12, <2>13, <2>14, <2>15, <2>16 DEF InOrder
  <2>18. ASSUME NEW p \in Nat, NoNewer(p) PROVE NoNewer(p)'
    BY <2>2, <2>3, <2>9, <2>14, <2>18 DEF NoNewer
  <2> QED
    BY <2>17, <2>18
<1>7. CASE HandleData
  <2>1. wire' = wire /\ lines' = lines
    BY <1>7, HandleDataCases DEF counts
  <2>2. buffer' = buffer \/ (IndexOf(buffer) =< Len(buffer) /\ buffer' = Rest)
    BY <1>7, HandleDataCases
  <2> QED
    BY <1>1, <1>2, <2>1, <2>2
<1>8. CASE CallBackFeed
  BY <1>1, <1>8 DEF CallBackFeed, counts
<1>9. CASE CallBackProfile
  BY <1>2, <1>9 DEF CallBackProfile, counts, LineInHand
<1>10. CASE TimerStep
  BY <1>1, <1>10, TimerApart
<1>11. CASE UNCHANGED feedVars
  BY <1>1, <1>11 DEF feedVars, link, counts
<1> QED
  BY <1>1, <1>3, <1>4, <1>5, <1>6, <1>7, <1>8, <1>9, <1>10, <1>11, FeedSteps

LEMMA PricesInOrderKept ==
    ASSUME FeedTypes, LineInHand, InOrder, OneLoop, PricesInOrder, [FeedNext]_feedVars
    PROVE  PricesInOrder' /\ \A s \in Symbols : cache'[s] >= cache[s]
<1>1. \A p \in Nat : NoNewer(p) => NoNewer(p)'
  BY InOrderKept
<1>2. /\ feed \in [Symbols -> Nat] /\ cache \in [Symbols -> Nat]
      /\ batch \in [Loops -> [Symbols -> Nat]]
  BY DEF FeedTypes
<1>3. ASSUME NEW s \in Symbols
      PROVE  /\ feed[s] \in Nat /\ cache[s] \in Nat
             /\ NoNewer(feed[s]) /\ NoNewer(cache[s])
             /\ feed[s] # 0 => cache[s] =< feed[s]
             /\ \A l \in Loops : /\ batch[l][s] \in Nat
                                 /\ NoNewer(batch[l][s])
                                 /\ feed[s] # 0 => batch[l][s] =< feed[s]
                                 /\ batch[l][s] # 0 => cache[s] =< batch[l][s]
  BY <1>2 DEF PricesInOrder
\* A step that leaves the prices alone.
<1>4. CASE UNCHANGED << feed, batch, cache >>
  <2>1. ASSUME NEW s \in Symbols
        PROVE  NoNewer(feed[s])' /\ NoNewer(cache[s])' /\ \A l \in Loops : NoNewer(batch[l][s])'
    BY <1>1, <1>3, <1>4 DEF NoNewer
  <2>2. PricesInOrder'
    BY <1>3, <1>4, <2>1 DEF PricesInOrder
  <2> QED
    BY <1>3, <1>4, <2>2
<1>5. CASE CallBackFeed
  <2>1. /\ IndexOf(buffer) =< Len(buffer) /\ quote = Line /\ Len(Line) = 2
        /\ Line[1] \in Symbols /\ Line[2] \in Nat
    BY <1>5 DEF CallBackFeed, LineInHand, IsQuote
  <2>2. PICK n \in Nat, t \in Symbols : n = Line[2] /\ t = Line[1]
    BY <2>1
  <2>3. /\ buffer \in Seq(Byte) /\ wire \in Seq(Byte) /\ lines \in Nat
    BY DEF FeedTypes
  <2>4. 1 \in DOMAIN buffer /\ 2 \in DOMAIN buffer /\ buffer[1] = t /\ buffer[2] = n
    <3>1. Line \in Seq(Byte) /\ \A k \in DOMAIN Line : Line[k] = buffer[k] /\ k \in DOMAIN buffer
      BY <2>1, LinesAreBytes
    <3>2. 1 \in DOMAIN Line /\ 2 \in DOMAIN Line
      BY <2>1, <3>1
    <3> QED
      BY <2>2, <3>1, <3>2
  <2>5. t \notin Nat
    BY FeedAssumption DEF FeedAssumption
  <2>6. ASSUME NEW k \in DOMAIN buffer, buffer[k] \in Nat PROVE n =< buffer[k]
    <3>1. k # 1 /\ k \in Nat /\ k >= 1
      BY <2>3, <2>4, <2>5, <2>6
    <3>2. CASE k = 2
      BY <2>4, <3>2
    <3>3. CASE 2 < k
      <4>1. buffer[2] < buffer[k]
        BY <2>4, <2>6, <3>3 DEF InOrder, Ordered
      <4> QED
        BY <2>4, <2>6, <4>1
    <3> QED
      BY <3>1, <3>2, <3>3
  <2>7. ASSUME NEW j \in DOMAIN wire, wire[j] \in Nat PROVE n =< wire[j]
    <3>1. buffer[2] < wire[j]
      BY <2>4, <2>7 DEF InOrder
    <3> QED
      BY <2>4, <2>7, <3>1
  <2>8. n =< lines
    BY <2>4 DEF InOrder
  <2>9. NoNewer(n)
    BY <2>6, <2>7, <2>8 DEF NoNewer
  <2>10. /\ feed' = [feed EXCEPT ![t] = n] /\ batch' = batch /\ cache' = cache
         /\ buffer' = buffer /\ wire' = wire /\ lines' = lines
    BY <1>5, <2>1, <2>2 DEF CallBackFeed, counts
  <2>11. ASSUME NEW p \in Nat, NoNewer(p) PROVE p =< n
    BY <2>4, <2>11 DEF NoNewer
  <2>12. ASSUME NEW s \in Symbols
         PROVE  /\ NoNewer(feed[s])' /\ NoNewer(cache[s])'
                /\ feed'[s] # 0 => cache'[s] =< feed'[s]
                /\ \A l \in Loops : /\ NoNewer(batch[l][s])'
                                    /\ feed'[s] # 0 => batch'[l][s] =< feed'[s]
                                    /\ batch'[l][s] # 0 => cache'[s] =< batch'[l][s]
    <3>1. NoNewer(cache[s])' /\ \A l \in Loops : NoNewer(batch[l][s])'
      BY <1>3, <2>10 DEF NoNewer
    <3>2. CASE s = t
      <4>1. feed'[s] = n
        BY <1>2, <2>10, <3>2
      <4>2. cache[s] =< n /\ \A l \in Loops : batch[l][s] =< n
        BY <1>3, <2>11
      <4>3. NoNewer(feed[s])'
        BY <2>9, <2>10, <4>1 DEF NoNewer
      <4> QED
        BY <1>3, <2>10, <3>1, <4>1, <4>2, <4>3
    <3>3. CASE s # t
      <4>1. feed'[s] = feed[s]
        BY <1>2, <2>10, <3>3
      <4>2. NoNewer(feed[s])'
        BY <1>3, <2>10, <4>1 DEF NoNewer
      <4> QED
        BY <1>3, <2>10, <3>1, <4>1, <4>2
    <3> QED
      BY <3>2, <3>3
  <2>13. PricesInOrder'
    BY <2>12 DEF PricesInOrder
  <2> QED
    BY <1>3, <2>10, <2>13
<1>6. CASE TimerStep /\ ~ UNCHANGED << feed, batch, cache >>
  <2>1. PICK l \in Loops : Execute(l) \/ \E s \in Symbols : Publish(l, s)
    BY <1>6 DEF TimerStep, LoopStep, StartFeed, Elapse, EndExecute, prices
  <2>2. buffer' = buffer /\ wire' = wire /\ lines' = lines
    BY <1>6, TimerApart
  <2>3. \A p : NoNewer(p) => p =< lines' /\ (\A k \in DOMAIN buffer' : buffer'[k] \in Nat => p =< buffer'[k])
                          /\ (\A j \in DOMAIN wire' : wire'[j] \in Nat => p =< wire'[j])
    BY <2>2 DEF NoNewer
  <2>4. NoNewer(0)
    <3>1. lines \in Nat
      BY DEF FeedTypes
    <3> QED
      BY <3>1 DEF NoNewer
  <2>5. CASE Execute(l)
    <3>1. /\ cache' = cache
          /\ batch' = [batch EXCEPT ![l] = [s \in Symbols |-> IF s \in Instruments THEN feed[s] ELSE 0]]
          /\ feed' = [s \in Symbols |-> 0]
      BY <2>5 DEF Execute, NoPrices
    <3>2. ASSUME NEW s \in Symbols
          PROVE  /\ NoNewer(feed[s])' /\ NoNewer(cache[s])'
                 /\ feed'[s] # 0 => cache'[s] =< feed'[s]
                 /\ \A m \in Loops : /\ NoNewer(batch[m][s])'
                                     /\ feed'[s] # 0 => batch'[m][s] =< feed'[s]
                                     /\ batch'[m][s] # 0 => cache'[s] =< batch'[m][s]
      <4>1. feed'[s] = 0 /\ cache'[s] = cache[s]
        BY <3>1
      <4>2. NoNewer(feed[s])' /\ NoNewer(cache[s])'
        BY <1>3, <2>3, <2>4, <4>1 DEF NoNewer
      <4>3. ASSUME NEW m \in Loops
            PROVE  NoNewer(batch[m][s])' /\ (batch'[m][s] # 0 => cache[s] =< batch'[m][s])
        <5>1. batch'[m][s] \in {0, feed[s], batch[m][s]}
          BY <1>2, <3>1
        <5>2. NoNewer(batch'[m][s])
          BY <1>3, <2>4, <5>1
        <5>3. batch'[m][s] # 0 => cache[s] =< batch'[m][s]
          BY <1>3, <5>1
        <5> QED
          BY <2>3, <5>2, <5>3 DEF NoNewer
      <4> QED
        BY <4>1, <4>2, <4>3
    <3>3. PricesInOrder'
      BY <3>2 DEF PricesInOrder
    <3> QED
      BY <1>3, <3>1, <3>3
  <2>6. CASE \E s \in Symbols : Publish(l, s)
    <3>1. PICK t \in Symbols : Publish(l, t)
      BY <2>6
    <3>2. /\ loop[l] = "execute" /\ batch[l][t] # 0
          /\ cache' = [cache EXCEPT ![t] = batch[l][t]]
          /\ batch' = [batch EXCEPT ![l][t] = 0]
          /\ feed' = feed
      BY <3>1 DEF Publish
    <3>3. \A m \in Loops : m # l => batch[m] = [s \in Symbols |-> 0]
      BY <3>2 DEF OneLoop, NoPrices
    <3>4. ASSUME NEW s \in Symbols
          PROVE  /\ NoNewer(feed[s])' /\ NoNewer(cache[s])'
                 /\ feed'[s] # 0 => cache'[s] =< feed'[s]
                 /\ \A m \in Loops : /\ NoNewer(batch[m][s])'
                                     /\ feed'[s] # 0 => batch'[m][s] =< feed'[s]
                                     /\ batch'[m][s] # 0 => cache'[s] =< batch'[m][s]
                 /\ cache'[s] >= cache[s]
      <4>1. cache'[s] = IF s = t THEN batch[l][s] ELSE cache[s]
        BY <1>2, <3>2
      <4>2. NoNewer(feed[s])' /\ NoNewer(cache[s])'
        BY <1>3, <2>3, <3>2, <4>1 DEF NoNewer
      <4>3. feed'[s] # 0 => cache'[s] =< feed'[s]
        BY <1>3, <3>2, <4>1
      <4>4. cache'[s] >= cache[s]
        BY <1>3, <3>2, <4>1
      <4>5. ASSUME NEW m \in Loops
            PROVE  /\ NoNewer(batch[m][s])'
                   /\ feed'[s] # 0 => batch'[m][s] =< feed'[s]
                   /\ batch'[m][s] # 0 => cache'[s] =< batch'[m][s]
        <5>1. CASE m = l /\ s = t
          <6>1. batch'[m][s] = 0
            BY <1>2, <3>2, <5>1
          <6> QED
            BY <1>3, <2>3, <2>4, <3>2, <6>1 DEF NoNewer
        <5>2. CASE m = l /\ s # t
          <6>1. batch'[m][s] = batch[m][s] /\ cache'[s] = cache[s]
            BY <1>2, <3>2, <4>1, <5>2
          <6> QED
            BY <1>3, <2>3, <3>2, <6>1 DEF NoNewer
        <5>3. CASE m # l
          <6>1. batch'[m][s] = batch[m][s] /\ batch[m][s] = 0
            BY <1>2, <3>2, <3>3, <5>3
          <6> QED
            BY <1>3, <2>3, <3>2, <6>1 DEF NoNewer
        <5> QED
          BY <5>1, <5>2, <5>3
      <4> QED
        BY <4>2, <4>3, <4>4, <4>5
    <3>5. PricesInOrder'
      BY <3>4 DEF PricesInOrder
    <3> QED
      BY <3>4, <3>5
  <2> QED
    BY <2>1, <2>5, <2>6
<1>7. CASE Send \/ Connected \/ Lose \/ Read \/ HandleData \/ CallBackProfile \/ UNCHANGED feedVars
  BY <1>4, <1>7 DEF Send, Connected, Lose, Read, HandleData, CallBackProfile, feedVars, prices
<1> QED
  BY <1>4, <1>5, <1>6, <1>7, FeedSteps

-----------------------------------------------------------------------------

\* All that always holds of the feed.
FeedInv == FeedTypes /\ LineInHand /\ Serialized /\ InOrder /\ OneLoop /\ PricesInOrder

LEMMA FeedInvInit == FeedInit => FeedInv
<1> SUFFICES ASSUME FeedInit PROVE FeedInv
  OBVIOUS
<1>1. FeedTypes
  BY DEF FeedInit, FeedTypes, NoPrices, NoQuote
<1>2. LineInHand
  BY DEF FeedInit, LineInHand
<1>3. InOrder
  BY DEF FeedInit, InOrder, Ordered
<1>4. OneLoop
  BY DEF FeedInit, OneLoop, TimerInit
<1>5. PricesInOrder
  BY DEF FeedInit, PricesInOrder, NoNewer, NoPrices
<1> QED
  BY <1>1, <1>2, <1>3, <1>4, <1>5, SerializedInit DEF FeedInv

LEMMA FeedInvKept == FeedInv /\ [FeedNext]_feedVars => FeedInv'
  BY FeedTypesKept, LineInHandKept, SerializedKept, InOrderKept, OneLoopKept, PricesInOrderKept
  DEF FeedInv

LEMMA FeedInvariance == FeedSpec => []FeedInv
  BY FeedInvInit, FeedInvKept, PTL DEF FeedSpec

\* Mt4BridgeQuoteSerializer: of the bytes of a connection, in whatever parts they are
\* read, it makes the quotes of their lines, in order and once, up to the first it cannot
\* read; and nothing of a connection reaches the next.
THEOREM QuotesAreFramed == FeedSpec => []Framed
<1>1. FeedInv => Framed
  BY SerializedFramed DEF FeedInv
<1> QED
  BY <1>1, FeedInvariance, PTL

\* QuoteCallBack, Execute and SetPrice, on two threads: a price in the market profile is
\* never replaced by an older one.
THEOREM PricesNeverOlder == FeedSpec => NeverOlder
<1>1. FeedInv /\ [FeedNext]_feedVars => [\A s \in Symbols : cache'[s] >= cache[s]]_feedVars
  BY PricesInOrderKept DEF FeedInv
<1> QED
  BY <1>1, FeedInvariance, PTL DEF FeedSpec, NeverOlder

-----------------------------------------------------------------------------
(* The connection.                                                         *)

\* How far the connection's silence may have gone at each point of the ping loop.
QuietAt ==
    up =>
        /\ pinger = "check" => quiet =< PingTimeOut + 1
        /\ pinger = "poll" => quiet + delay =< PingTimeOut + 1
        /\ pinger = "answer" => quiet + delay =< PingTimeOut + PacketDeliveryTimeOut + 1
        /\ quiet =< PingTimeOut + PacketDeliveryTimeOut + 1

\* While it is waited for, the answer is due in time, or has come since the ping.
AnswerInTime ==
    up /\ pinger = "answer" /\ peer = "alive" /\ reader = "read" /\ ~ disconnected =>
        \/ answer # None /\ answer + (PacketDeliveryTimeOut - AnswerTime) =< delay
        \/ answer = None /\ quiet + delay =< PacketDeliveryTimeOut

\* The types, the loops' ends, and the two facts above.
SocketInv ==
    /\ TypeOK /\ quiet \in Nat
    /\ up => reader # "done"
    /\ OneConnection /\ QuietAt /\ AnswerInTime

\* What the assumption says of each constant.
LEMMA TimeOuts ==
    /\ PingTimeOut \in Nat /\ PingTimeOut > 0
    /\ PacketDeliveryTimeOut \in Nat /\ PacketDeliveryTimeOut > 0
    /\ ReconnectTimeOut \in Nat
    /\ AnswerTime \in Nat /\ AnswerTime < PacketDeliveryTimeOut
    /\ PacketDeliveryTimeOut =< PingTimeOut
  BY TimeOutAssumption DEF TimeOutAssumption

\* No connection yet.
LEMMA SocketInvInit == Init => SocketInv
  <1> SUFFICES ASSUME Init PROVE SocketInv
    OBVIOUS
  <1>1. up \in BOOLEAN /\ disconnected \in BOOLEAN
    BY Zenon DEF Init
  <1> QED
    BY <1>1, TimeOuts DEF SocketInv, TypeOK, OneConnection, QuietAt, AnswerInTime, None, Running, Over, Init

\* The two Boolean variables, apart from the rest: they need a prover of their own.
LEMMA BooleansKept ==
  ASSUME up \in BOOLEAN, disconnected \in BOOLEAN, [Next]_vars
  PROVE  up' \in BOOLEAN /\ disconnected' \in BOOLEAN
  BY Zenon DEF Next, Client, Connect, ConnectFails, End, Receive, ReadFails, CheckQuiet, Ping,
               Answered, Poll, Die, Tick, vars

\* Every action keeps the invariant.
LEMMA SocketInvKept == SocketInv /\ [Next]_vars => SocketInv'
  <1> SUFFICES ASSUME SocketInv, [Next]_vars PROVE SocketInv'
    OBVIOUS
  <1>0. up' \in BOOLEAN /\ disconnected' \in BOOLEAN
    BY BooleansKept DEF SocketInv, TypeOK
  <1> USE TimeOuts, <1>0 DEF SocketInv, TypeOK, OneConnection, QuietAt, AnswerInTime, None, Running, Over
  <1>1. CASE Connect
    BY <1>1 DEF Connect
  <1>2. CASE ConnectFails
    BY <1>2 DEF ConnectFails
  <1>3. CASE End
    BY <1>3 DEF End
  <1>4. CASE Receive
    BY <1>4 DEF Receive
  <1>5. CASE ReadFails
    BY <1>5 DEF ReadFails
  <1>6. CASE CheckQuiet
    BY <1>6 DEF CheckQuiet, Pause
  <1>7. CASE Ping
    BY <1>7 DEF Ping, Pause
  <1>8. CASE Answered
    BY <1>8 DEF Answered, Pause
  <1>9. CASE Poll
    BY <1>9 DEF Poll
  <1>10. CASE Die
    BY <1>10 DEF Die
  <1>11. CASE Tick
    BY <1>11 DEF Tick, Due, AnswerDue, Less
  <1>12. CASE UNCHANGED vars
    BY <1>12 DEF vars
  <1> QED
    BY <1>1, <1>2, <1>3, <1>4, <1>5, <1>6, <1>7, <1>8, <1>9, <1>10, <1>11, <1>12
    DEF Next, Client

\* Hence it always holds.
LEMMA SocketInvariance == Spec => []SocketInv
  BY SocketInvInit, SocketInvKept, PTL DEF Spec

\* PingProcess: no connection stays without data for longer than the two time-outs
\* and a tick.
THEOREM QuietBounded == Spec => []DeadNoticed
  <1>1. SocketInv => DeadNoticed
    BY DEF SocketInv, QuietAt, DeadNoticed
  <1> QED
    BY <1>1, SocketInvariance, PTL

\* SocketThread, ReadThread: it never runs the loops of two connections.
THEOREM OneAtATime == Spec => []OneConnection
  <1>1. SocketInv => OneConnection
    BY DEF SocketInv
  <1> QED
    BY <1>1, SocketInvariance, PTL

\* PingProcess and ReadData: a connection that is read, and whose peer answers within
\* AnswerTime, is never given up.
THEOREM AnswersKeepConnection == Spec => HealthyKept
  <1>1. SocketInv /\ [Next]_vars =>
          [~ disconnected /\ disconnected' => peer # "alive" \/ reader = "failed"]_vars
    <2> SUFFICES ASSUME SocketInv, Next, ~ disconnected, disconnected', peer = "alive", reader # "failed"
                 PROVE FALSE
      OBVIOUS
    <2> USE TimeOuts DEF SocketInv, TypeOK, OneConnection, AnswerInTime, None, Running, Over
    <2>1. ~ Answered
      <3> SUFFICES ASSUME Answered PROVE FALSE
        OBVIOUS
      <3>1. up /\ pinger = "answer" /\ delay = 0 /\ reader = "read"
        BY DEF Answered
      <3>2. quiet =< PingTimeOut
        BY <3>1
      <3>3. ~ (quiet > PingTimeOut)
        BY <3>2
      <3>4. UNCHANGED disconnected
        BY <3>3, Zenon DEF Answered
      <3> QED
        BY <3>4
    <2>2. ~ End
      BY DEF End
    <2>3. ~ Ping
      BY DEF Ping
    <2>4. ~ (Connect \/ ConnectFails \/ Receive \/ ReadFails \/ CheckQuiet \/ Poll \/ Die \/ Tick)
      BY DEF Connect, ConnectFails, Receive, ReadFails, CheckQuiet, Poll, Die, Tick
    <2> QED
      BY <2>1, <2>2, <2>3, <2>4 DEF Next, Client
  <1> QED
    BY <1>1, SocketInvariance, PTL DEF Spec, HealthyKept

=============================================================================
