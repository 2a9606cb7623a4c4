------------------------- MODULE OrderExecutorProofs -------------------------
(***************************************************************************)
(* What holds of OrderExecutor for any number of orders, traders and       *)
(* instruments.                                                            *)
(*                                                                         *)
(* The first half is about any number of sessions, crashes included: the   *)
(* types; what every copy of an order satisfies; that no order is lost;    *)
(* the prices of matches; and the money they move.  What makes these       *)
(* inductive is that a copy, however stale, is a row some session once     *)
(* wrote, and that a match changes a copy only by what CanTrade and        *)
(* GetExchangeVolume allow.                                                *)
(*                                                                         *)
(* The second half is about one session that serves one request after      *)
(* another and is never cut short: the two tables of orders agree, and     *)
(* agree with the copies but for what is being written (TablesInv); a      *)
(* balance covers what is still to be taken from it (Solid); the loops     *)
(* leave nothing behind that could be matched (Passing); and all of a      *)
(* match, its updates and its settlement is one step of Exchange.          *)
(***************************************************************************)
EXTENDS OrderExecutor, FiniteSetTheorems, SequenceTheorems, WellFoundedInduction, TLAPS

-----------------------------------------------------------------------------
(* What the arithmetic of a match returns, for every order, volume, price. *)

\* FullVolume of a copy that has not exchanged more than its order's volume is a
\* volume again.
LEMMA OpenVolumeNat ==
    ASSUME NEW o \in TraderOrder, NEW r, r.exchanged \in Int,
           0 =< r.exchanged, r.exchanged =< o.volume
    PROVE  FullVolume(o, r) \in Nat /\ FullVolume(o, r) =< o.volume
<1>1. o.volume \in Nat
  BY DEF TraderOrder, MarketOrder, LimitOrder
<1> QED
  BY <1>1 DEF FullVolume

\* A match exchanges no more than either order has left.
LEMMA ExchangeVolumeBounds ==
    ASSUME NEW x \in Nat, NEW y \in Nat
    PROVE  /\ GetExchangeVolume(x, y) \in Nat
           /\ GetExchangeVolume(x, y) =< x
           /\ GetExchangeVolume(x, y) =< y
  BY DEF GetExchangeVolume

\* The price of a match with a limit order is the price of a limit order.
LEMMA OrderPricePositive ==
    ASSUME NEW o1 \in TraderOrder, NEW o2 \in TraderOrder, o2.kind = "Limit",
           NEW i, NEW j
    PROVE  GetOrderPrice(i, o1, j, o2) \in Nat \ {0}
<1>1. \A o \in TraderOrder : o.kind = "Limit" => o.price \in Nat \ {0}
  BY DEF TraderOrder, MarketOrder, LimitOrder
<1> QED
  BY <1>1 DEF GetOrderPrice

\* What an exchange costs in the base currency is never negative.
LEMMA BaseAmountNat ==
    ASSUME NEW o, NEW v \in Nat, NEW p \in Nat \ {0}
    PROVE  BaseAmount(o, v, p) \in Nat
<1>1. v * p \in Nat
  OBVIOUS
<1>2. v \div p \in Nat
  OBVIOUS
<1> QED
  BY <1>1, <1>2 DEF BaseAmount

\* Nor is it ever anything but an amount, whatever the volume.
LEMMA BaseAmountInt ==
    ASSUME NEW o, NEW v \in Int, NEW p \in Nat \ {0}
    PROVE  BaseAmount(o, v, p) \in Int
<1>1. v * p \in Int
  OBVIOUS
<1>2. v \div p \in Int
  OBVIOUS
<1> QED
  BY <1>1, <1>2 DEF BaseAmount

\* What a match adds to balances: two postings, to balances that exist.
LEMMA PostingsTyped ==
    ASSUME NEW o \in TraderOrder, NEW amount \in Int
    PROVE  ChangeBalance(o, amount) \in Seq(Posting) /\ Len(ChangeBalance(o, amount)) = 2
<1>1. o.trader \in Traders /\ o.asset \in Assets /\ o.volume \in Nat
  BY DEF TraderOrder, MarketOrder, LimitOrder
<1>2. BaseOf[o.asset] \in Currencies /\ QuotingOf[o.asset] \in Currencies
  BY <1>1, InstrumentAssumption
<1>3. \A c \in Currencies, d \in Int : Post(o.trader, c, d) \in Posting
  BY <1>1 DEF Post, Posting
<1>4. CASE o.action = "Buy"
  <2>1. ChangeBalance(o, amount) = << Post(o.trader, QuotingOf[o.asset], o.volume),
                                      Post(o.trader, BaseOf[o.asset], -amount) >>
    BY <1>4 DEF ChangeBalance
  <2>2. /\ Post(o.trader, QuotingOf[o.asset], o.volume) \in Posting
        /\ Post(o.trader, BaseOf[o.asset], -amount) \in Posting
    BY <1>1, <1>2, <1>3
  <2> QED
    BY <2>1, <2>2
<1>5. CASE o.action # "Buy"
  <2>1. ChangeBalance(o, amount) = << Post(o.trader, QuotingOf[o.asset], -o.volume),
                                      Post(o.trader, BaseOf[o.asset], amount) >>
    BY <1>5 DEF ChangeBalance
  <2>2. /\ Post(o.trader, QuotingOf[o.asset], -o.volume) \in Posting
        /\ Post(o.trader, BaseOf[o.asset], amount) \in Posting
    BY <1>1, <1>2, <1>3
  <2> QED
    BY <2>1, <2>2
<1> QED
  BY <1>4, <1>5

\* The same volume at a higher price costs more, where volumes are read against
\* the base currency.
LEMMA BaseAmountMonotone ==
    ASSUME NEW o, o.ccy = BaseOf[o.asset], NEW v \in Nat, NEW p \in Nat, NEW q \in Nat, p =< q
    PROVE  BaseAmount(o, v, p) =< BaseAmount(o, v, q)
<1>1. v * p =< v * q
  OBVIOUS
<1> QED
  BY <1>1 DEF BaseAmount

\* Only orders of two traders, on the two sides of one instrument, trade.
LEMMA TradersDiffer ==
    ASSUME NEW o, NEW l, CanTrade(o, l)
    PROVE  o # l /\ o.trader # l.trader /\ o.action # l.action /\ l.kind = "Limit"
  BY DEF CanTrade

-----------------------------------------------------------------------------
(* Sums over finite sets, which is how much money there is.  A sum is a    *)
(* fold, a function defined by recursion over sets; what it computes is    *)
(* shown with the smallest set it would be wrong for.                      *)

\* The one of a set's elements that a fold takes first.
Choice(U) == CHOOSE x \in U : TRUE

LEMMA LeastNatural ==
    ASSUME NEW S, S \subseteq Nat, S # {}
    PROVE  \E i \in S : \A j \in S : i =< j
<1> DEFINE R == {p \in Nat \X Nat : p[1] < p[2]}
<1>1. IsWellFoundedOn(R, Nat)
  BY NatLessThanWellFounded DEF OpToRel
<1>2. PICK i \in S : \A j \in S : ~ (<< j, i >> \in R)
  <2> HIDE DEF R
  <2> QED
    BY <1>1, WFMin
<1>3. \A j \in S : j < i => << j, i >> \in R
  OBVIOUS
<1> HIDE DEF R
<1>4. \A j \in S : ~ (j < i)
  BY <1>2, <1>3
<1> QED
  BY <1>4

\* A set of finite sets that is not empty has a smallest member.
LEMMA SmallestSet ==
    ASSUME NEW S, IsFiniteSet(S), NEW Bad, Bad \subseteq SUBSET S, Bad # {}
    PROVE  \E U \in Bad : \A V \in SUBSET U : V # U => V \notin Bad
<1> DEFINE Sizes == {Cardinality(U) : U \in Bad}
<1>1. \A U \in SUBSET S : IsFiniteSet(U) /\ Cardinality(U) \in Nat
  BY FS_Subset, FS_CardinalityType
<1>2. Sizes \subseteq Nat /\ Sizes # {}
  BY <1>1
<1>3. PICK n \in Sizes : \A k \in Sizes : n =< k
  <2> HIDE DEF Sizes
  <2> QED
    BY <1>2, LeastNatural
<1>4. PICK U \in Bad : Cardinality(U) = n
  OBVIOUS
<1>5. ASSUME NEW V \in SUBSET U, V # U PROVE V \notin Bad
  <2>1. Cardinality(V) < Cardinality(U) /\ Cardinality(V) \in Nat /\ Cardinality(U) \in Nat
    BY <1>1, <1>5, FS_Subset
  <2>2. V \in Bad => n =< Cardinality(V)
    BY <1>3
  <2> QED
    BY <1>4, <2>1, <2>2
<1> QED
  BY <1>5

LEMMA Without ==
    ASSUME NEW S, IsFiniteSet(S), NEW x \in S
    PROVE  /\ S \ {x} \in SUBSET S /\ S \ {x} # S /\ IsFiniteSet(S \ {x})
           /\ Cardinality(S) \in Nat /\ Cardinality(S \ {x}) = Cardinality(S) - 1
  BY FS_RemoveElement, FS_CardinalityType

LEMMA Choosing ==
    ASSUME NEW U, U # {}
    PROVE  Choice(U) \in U
  BY DEF Choice

\* What a fold of the sum over S computes on the way, for every subset.
Sums(f, h, D) ==
    \A U \in D : h[U] = IF U = {} THEN 0 ELSE f[Choice(U)] + h[U \ {Choice(U)}]

LEMMA SumsExist ==
    ASSUME NEW S, IsFiniteSet(S), NEW f, \A x \in S : f[x] \in Int
    PROVE  \E h \in [SUBSET S -> Int] : Sums(f, h, SUBSET S)
<1> DEFINE Upto(n) == {U \in SUBSET S : Cardinality(U) =< n}
           Bad == {n \in Nat : ~ \E h \in [SUBSET S -> Int] : Sums(f, h, Upto(n))}
<1>1. \A U \in SUBSET S : IsFiniteSet(U) /\ Cardinality(U) \in Nat
  BY FS_Subset, FS_CardinalityType
<1>2. ASSUME NEW U \in SUBSET S, U # {}
      PROVE  /\ Choice(U) \in U /\ f[Choice(U)] \in Int
             /\ U \ {Choice(U)} \in SUBSET S
             /\ Cardinality(U \ {Choice(U)}) = Cardinality(U) - 1
  <2>1. Choice(U) \in U
    BY <1>2, Choosing
  <2> QED
    BY <1>1, <2>1, Without
<1>3. \A U \in SUBSET S : Cardinality(U) = 0 => U = {}
  BY <1>1, FS_EmptySet
<1>4. 0 \notin Bad
  <2> DEFINE h0 == [U \in SUBSET S |-> 0]
  <2>1. h0 \in [SUBSET S -> Int]
    OBVIOUS
  <2>2. \A U \in Upto(0) : U = {} /\ h0[U] = 0
    BY <1>1, <1>3
  <2>3. Sums(f, h0, Upto(0))
    BY <2>2 DEF Sums
  <2> QED
    BY <2>1, <2>3
<1>5. ASSUME NEW n \in Nat, n \notin Bad PROVE n + 1 \notin Bad
  <2>1. PICK h \in [SUBSET S -> Int] : Sums(f, h, Upto(n))
    BY <1>5
  <2> DEFINE h1 == [U \in SUBSET S |-> IF Cardinality(U) =< n THEN h[U]
                                       ELSE f[Choice(U)] + h[U \ {Choice(U)}]]
  <2>2. h1 \in [SUBSET S -> Int]
    <3>1. ASSUME NEW U \in SUBSET S, ~ (Cardinality(U) =< n) PROVE f[Choice(U)] + h[U \ {Choice(U)}] \in Int
      <4>1. U # {}
        <5>1. Cardinality({}) =< n
          BY FS_EmptySet
        <5> QED
          BY <3>1, <5>1
      <4>2. f[Choice(U)] \in Int /\ U \ {Choice(U)} \in SUBSET S
        BY <1>2, <4>1
      <4> QED
        BY <4>2
    <3> QED
      BY <3>1
  <2>3. ASSUME NEW U \in Upto(n + 1)
        PROVE  h1[U] = IF U = {} THEN 0 ELSE f[Choice(U)] + h1[U \ {Choice(U)}]
    <3>1. CASE U = {}
      <4>1. Cardinality(U) = 0
        BY <3>1, FS_EmptySet
      <4> QED
        BY <2>1, <3>1, <4>1 DEF Sums
    <3>2. CASE U # {}
      <4> DEFINE V == U \ {Choice(U)}
      <4>1. V \in SUBSET S /\ Cardinality(V) =< n /\ Cardinality(U) \in Nat
        BY <1>1, <1>2, <3>2
      <4>2. h1[V] = h[V]
        BY <4>1
      <4>3. h1[U] = f[Choice(U)] + h[V]
        BY <2>1, <3>2 DEF Sums
      <4> QED
        BY <3>2, <4>2, <4>3
    <3> QED
      BY <3>1, <3>2
  <2>4. Sums(f, h1, Upto(n + 1))
    <3> HIDE DEF h1
    <3> QED
      BY <2>3 DEF Sums
  <2> HIDE DEF h1
  <2> QED
    BY <2>2, <2>4
<1>6. Bad = {}
  <2> SUFFICES ASSUME Bad # {} PROVE FALSE
    OBVIOUS
  <2>1. PICK n \in Bad : \A k \in Bad : n =< k
    <3>1. Bad \subseteq Nat
      OBVIOUS
    <3> HIDE DEF Bad
    <3> QED
      BY <3>1, LeastNatural
  <2>2. n \in Nat /\ n # 0
    BY <1>4, <2>1
  <2>3. n - 1 \in Nat /\ n - 1 \notin Bad
    <3>1. n - 1 \in Bad => n =< n - 1
      BY <2>1
    <3> HIDE DEF Bad
    <3> QED
      BY <2>2, <3>1
  <2>4. n - 1 + 1 \notin Bad
    BY <1>5, <2>3
  <2> HIDE DEF Bad
  <2> QED
    BY <2>1, <2>2, <2>4
<1>7. Cardinality(S) \in Nat
  BY FS_CardinalityType
<1>8. PICK h \in [SUBSET S -> Int] : Sums(f, h, Upto(Cardinality(S)))
  BY <1>6, <1>7
<1>9. Upto(Cardinality(S)) = SUBSET S
  BY FS_Subset
<1> QED
  BY <1>8, <1>9

\* They are what they are by their equation.
LEMMA SumsUnique ==
    ASSUME NEW S, IsFiniteSet(S), NEW f, NEW g, NEW h,
           Sums(f, g, SUBSET S), Sums(f, h, SUBSET S)
    PROVE  g[S] = h[S]
<1> DEFINE Bad == {U \in SUBSET S : g[U] # h[U]}
<1>1. Bad = {}
  <2> SUFFICES ASSUME Bad # {} PROVE FALSE
    OBVIOUS
  <2>1. PICK U \in Bad : \A V \in SUBSET U : V # U => V \notin Bad
    <3>1. Bad \subseteq SUBSET S
      OBVIOUS
    <3> HIDE DEF Bad
    <3> QED
      BY <3>1, SmallestSet
  <2>2. U # {}
    BY <2>1 DEF Sums
  <2>3. Choice(U) \in U
    BY <2>2, Choosing
  <2>4. U \ {Choice(U)} \notin Bad /\ U \ {Choice(U)} \in SUBSET S
    BY <2>1, <2>3
  <2>5. g[U \ {Choice(U)}] = h[U \ {Choice(U)}]
    BY <2>4
  <2> QED
    BY <2>1, <2>2, <2>5 DEF Sums
<1> QED
  BY <1>1

\* SumFunctionOnSet is the last of them.
LEMMA SumIsLast ==
    ASSUME NEW S, IsFiniteSet(S), NEW f, \A x \in S : f[x] \in Int,
           NEW h, Sums(f, h, SUBSET S)
    PROVE  SumFunctionOnSet(f, S) = h[S]
<1> DEFINE Equation(g) == g = [s \in SUBSET S |-> IF s = {} THEN 0
                                ELSE f[CHOOSE x \in s : TRUE] + g[s \ {CHOOSE x \in s : TRUE}]]
<1>1. PICK g0 \in [SUBSET S -> Int] : Sums(f, g0, SUBSET S)
  BY SumsExist
<1>2. Equation(g0)
  BY <1>1 DEF Sums, Choice
<1>3. PICK g : Equation(g) /\ SumFunctionOnSet(f, S) = g[S]
  BY <1>2 DEF SumFunctionOnSet, FoldFunctionOnSet, MapThenFoldSet
<1>4. Sums(f, g, SUBSET S)
  <2>1. \A s \in SUBSET S : g[s] = IF s = {} THEN 0
                                ELSE f[CHOOSE x \in s : TRUE] + g[s \ {CHOOSE x \in s : TRUE}]
    BY <1>3
  <2> QED
    BY <2>1 DEF Sums, Choice
<1> QED
  BY <1>3, <1>4, SumsUnique

\* The sum of nothing; the sum of one element and the rest.
LEMMA SumFacts ==
    ASSUME NEW S, IsFiniteSet(S), NEW f, \A x \in S : f[x] \in Int
    PROVE  /\ SumFunctionOnSet(f, S) \in Int
           /\ S = {} => SumFunctionOnSet(f, S) = 0
           /\ \A x \in S : SumFunctionOnSet(f, S) = f[x] + SumFunctionOnSet(f, S \ {x})
<1>1. PICK h \in [SUBSET S -> Int] : Sums(f, h, SUBSET S)
  BY SumsExist
<1>2. ASSUME NEW U \in SUBSET S PROVE SumFunctionOnSet(f, U) = h[U]
  <2>1. Sums(f, h, SUBSET U) /\ IsFiniteSet(U)
    BY <1>1, FS_Subset DEF Sums
  <2> QED
    BY <2>1, SumIsLast
<1> DEFINE Bad == {U \in SUBSET S : \E x \in U : h[U] # f[x] + h[U \ {x}]}
<1>3. Bad = {}
  <2> SUFFICES ASSUME Bad # {} PROVE FALSE
    OBVIOUS
  <2>1. PICK U \in Bad : \A V \in SUBSET U : V # U => V \notin Bad
    <3>1. Bad \subseteq SUBSET S
      OBVIOUS
    <3> HIDE DEF Bad
    <3> QED
      BY <3>1, SmallestSet
  <2>2. PICK x \in U : h[U] # f[x] + h[U \ {x}]
    BY <2>1
  <2> DEFINE c == Choice(U)
  <2>3. c \in U
    BY Choosing
  <2>4. h[U] = f[c] + h[U \ {c}]
    BY <1>1, <2>3 DEF Sums
  <2>5. c # x
    BY <2>2, <2>4
  <2>6. U \ {c} \notin Bad /\ U \ {x} \notin Bad
    BY <2>1, <2>2, <2>3
  <2> DEFINE rest == h[(U \ {c}) \ {x}]
  <2>7. (U \ {c}) \ {x} = (U \ {x}) \ {c}
    OBVIOUS
  <2>8. h[U \ {c}] = f[x] + rest /\ h[U \ {x}] = f[c] + rest
    BY <2>1, <2>2, <2>3, <2>5, <2>6, <2>7
  <2>9. rest \in Int /\ f[x] \in Int /\ f[c] \in Int
    BY <2>1, <2>2, <2>3
  <2> HIDE DEF Bad, c, rest
  <2>10. h[U] = f[c] + (f[x] + rest)
    BY <2>4, <2>8
  <2>11. f[x] + h[U \ {x}] = f[x] + (f[c] + rest)
    BY <2>8
  <2> QED
    BY <2>2, <2>9, <2>10, <2>11
<1>4. ASSUME NEW x \in S PROVE h[S] = f[x] + h[S \ {x}]
  BY <1>3
<1>5. SumFunctionOnSet(f, S) = h[S] /\ \A x \in S : SumFunctionOnSet(f, S \ {x}) = h[S \ {x}]
  BY <1>2
<1>6. h[S] \in Int /\ (S = {} => h[S] = 0)
  BY <1>1 DEF Sums
<1> QED
  BY <1>4, <1>5, <1>6

\* The sum depends on the values on the set and on nothing else.
LEMMA SumSame ==
    ASSUME NEW S, IsFiniteSet(S), NEW f, NEW g, \A x \in S : f[x] \in Int /\ g[x] = f[x]
    PROVE  SumFunctionOnSet(g, S) = SumFunctionOnSet(f, S)
<1>1. PICK h \in [SUBSET S -> Int] : Sums(f, h, SUBSET S)
  BY SumsExist
<1>2. Sums(g, h, SUBSET S)
  <2>1. \A U \in SUBSET S : U # {} => Choice(U) \in S
    BY Choosing
  <2> QED
    BY <1>1, <2>1 DEF Sums
<1>3. \A x \in S : g[x] \in Int
  OBVIOUS
<1> QED
  BY <1>1, <1>2, <1>3, SumIsLast

\* A change of one value changes the sum by as much.
LEMMA SumChange ==
    ASSUME NEW S, IsFiniteSet(S), NEW f, NEW g, NEW x \in S,
           \A y \in S : f[y] \in Int /\ g[y] \in Int,
           \A y \in S \ {x} : g[y] = f[y]
    PROVE  SumFunctionOnSet(g, S) = SumFunctionOnSet(f, S) + g[x] - f[x]
<1>1. IsFiniteSet(S \ {x})
  BY Without
<1>2. SumFunctionOnSet(g, S \ {x}) = SumFunctionOnSet(f, S \ {x})
  BY <1>1, SumSame
<1>3. SumFunctionOnSet(g, S) = g[x] + SumFunctionOnSet(g, S \ {x})
  BY SumFacts
<1>4. SumFunctionOnSet(f, S) = f[x] + SumFunctionOnSet(f, S \ {x})
  BY SumFacts
<1>5. SumFunctionOnSet(f, S \ {x}) \in Int
  BY <1>1, SumFacts
<1> QED
  BY <1>2, <1>3, <1>4, <1>5

\* A change of two values changes the sum by as much.
LEMMA SumChangeTwo ==
    ASSUME NEW S, IsFiniteSet(S), NEW f, NEW g, NEW x \in S, NEW y \in S, x # y,
           \A z \in S : f[z] \in Int /\ g[z] \in Int,
           \A z \in S \ {x, y} : g[z] = f[z]
    PROVE  SumFunctionOnSet(g, S) = SumFunctionOnSet(f, S) + (g[x] - f[x]) + (g[y] - f[y])
<1> DEFINE h == [z \in S |-> IF z = x THEN g[x] ELSE f[z]]
<1>1. /\ \A z \in S : f[z] \in Int /\ h[z] \in Int
      /\ \A z \in S : h[z] \in Int /\ g[z] \in Int
      /\ \A z \in S \ {x} : h[z] = f[z]
      /\ \A z \in S \ {y} : g[z] = h[z]
      /\ h[x] = g[x] /\ h[y] = f[y]
  OBVIOUS
<1> HIDE DEF h
<1>2. SumFunctionOnSet(h, S) = SumFunctionOnSet(f, S) + h[x] - f[x]
  BY <1>1, SumChange
<1>3. SumFunctionOnSet(g, S) = SumFunctionOnSet(h, S) + g[y] - h[y]
  BY <1>1, SumChange
<1>4. SumFunctionOnSet(f, S) \in Int
  BY SumFacts
<1>5. f[x] \in Int /\ f[y] \in Int /\ g[x] \in Int /\ g[y] \in Int
  OBVIOUS
<1>6. SumFunctionOnSet(g, S) = (SumFunctionOnSet(f, S) + g[x] - f[x]) + g[y] - f[y]
  BY <1>1, <1>2, <1>3
<1> QED
  BY <1>4, <1>5, <1>6

\* A sum does not change when its indices all move up by one.
LEMMA SumShift ==
    ASSUME NEW S, IsFiniteSet(S), S \subseteq Nat, NEW f, NEW g,
           \A k \in S : g[k] \in Int /\ f[k + 1] = g[k]
    PROVE  SumFunctionOnSet(f, {k + 1 : k \in S}) = SumFunctionOnSet(g, S)
<1> DEFINE Up(U) == {k + 1 : k \in U}
           Bad == {U \in SUBSET S : SumFunctionOnSet(f, Up(U)) # SumFunctionOnSet(g, U)}
<1>1. ASSUME NEW U \in SUBSET S
      PROVE  /\ IsFiniteSet(U) /\ IsFiniteSet(Up(U))
             /\ \A x \in Up(U) : f[x] \in Int
             /\ \A x \in U : g[x] \in Int
  <2>1. IsFiniteSet(U)
    BY FS_Subset
  <2>2. IsFiniteSet(Up(U))
    <3> DEFINE h == [k \in U |-> k + 1]
    <3>1. h \in Surjection(U, Up(U))
      BY DEF Surjection
    <3> HIDE DEF h, Up
    <3> QED
      BY <2>1, <3>1, FS_Surjection
  <2>3. \A x \in Up(U) : f[x] \in Int
    OBVIOUS
  <2> HIDE DEF Up
  <2> QED
    BY <2>1, <2>2, <2>3
<1>2. Bad = {}
  <2> SUFFICES ASSUME Bad # {} PROVE FALSE
    OBVIOUS
  <2>1. PICK U \in Bad : \A V \in SUBSET U : V # U => V \notin Bad
    <3>1. Bad \subseteq SUBSET S
      OBVIOUS
    <3> HIDE DEF Bad
    <3> QED
      BY <3>1, SmallestSet
  <2>2. U # {}
    <3>1. SUFFICES ASSUME U = {} PROVE FALSE
      OBVIOUS
    <3>2. Up(U) = {}
      BY <3>1
    <3>3. SumFunctionOnSet(f, Up(U)) = 0 /\ SumFunctionOnSet(g, U) = 0
      BY <3>1, <3>2, <1>1, SumFacts
    <3> QED
      BY <2>1, <3>3
  <2>3. PICK x \in U : TRUE
    BY <2>2
  <2>4. U \in SUBSET S /\ U \ {x} \in SUBSET S /\ U \ {x} # U
    BY <2>1
  <2>5. SumFunctionOnSet(f, Up(U \ {x})) = SumFunctionOnSet(g, U \ {x})
    BY <2>1, <2>4
  <2>6. SumFunctionOnSet(g, U) = g[x] + SumFunctionOnSet(g, U \ {x})
    <3> HIDE DEF Bad
    <3> QED
      BY <1>1, <2>4, SumFacts
  <2>7. x + 1 \in Up(U) /\ Up(U) \ {x + 1} = Up(U \ {x}) /\ f[x + 1] = g[x]
    BY <2>4
  <2>8. SumFunctionOnSet(f, Up(U)) = f[x + 1] + SumFunctionOnSet(f, Up(U) \ {x + 1})
    <3> HIDE DEF Bad, Up
    <3> QED
      BY <1>1, <2>4, <2>7, SumFacts
  <2>9. SumFunctionOnSet(f, Up(U)) = SumFunctionOnSet(g, U)
    BY <2>5, <2>6, <2>7, <2>8
  <2> QED
    BY <2>1, <2>9
<1> QED
  BY <1>2

-----------------------------------------------------------------------------
(* Rows and queues.                                                        *)

LEMMA RowFacts ==
    /\ Fresh \in Rows(Ids) /\ Fresh \in Row /\ NoRow \in Row
    /\ NoRow \notin Rows(Ids) /\ Fresh # NoRow
    /\ \A r \in Row : r # NoRow => r \in Rows(Ids)
  BY DEF Row, Rows, Fresh, NoRow, OrderStatus

\* The head and the tail of a list that is not empty.
LEMMA HeadTail ==
    ASSUME NEW S, NEW q \in Seq(S), q # <<>>
    PROVE  /\ Head(q) \in S /\ Head(q) = q[1] /\ Tail(q) \in Seq(S)
           /\ Len(q) \in Nat /\ Len(q) > 0 /\ Len(Tail(q)) = Len(q) - 1
           /\ Len(q) # 1 => Tail(q) # <<>>
           /\ \A k \in 1..Len(Tail(q)) : Tail(q)[k] = q[k + 1] /\ k + 1 \in 1..Len(q)
           /\ 1 \in 1..Len(q)
<1>1. Len(q) \in Nat /\ Len(q) > 0
  BY EmptySeq, LenProperties
<1>2. /\ Head(q) \in S /\ Tail(q) \in Seq(S) /\ Len(Tail(q)) = Len(q) - 1
      /\ \A k \in 1..Len(Tail(q)) : Tail(q)[k] = q[k + 1]
  BY HeadTailProperties
<1>3. Len(q) # 1 => Tail(q) # <<>>
  <2>1. Len(<<>>) = 0
    BY EmptySeq
  <2> DEFINE t == Tail(q)
  <2>2. t = <<>> => Len(t) = 0
    BY <2>1
  <2> QED
    BY <1>1, <1>2, <2>2
<1>4. Head(q) = q[1]
  BY <1>1
<1> QED
  BY <1>1, <1>2, <1>3, <1>4

-----------------------------------------------------------------------------
(* Types.                                                                  *)

Locals(r) == << pc[r], draft[r], regs[r], mem[r], phase[r], queue[r], todo[r],
                taker[r], maker[r], upd[r], old[r], settle[r] >>

\* A session whose locals a step leaves alone stays ready: orders get no new fields.
LEMMA OthersReady ==
    ASSUME TypeOK, NEW r \in Sessions, Locals(r)' = Locals(r),
           \A k \in Known : orders'[k] = orders[k]
    PROVE  Ready(r)'
<1>1. /\ pc'[r] = pc[r] /\ draft'[r] = draft[r] /\ regs'[r] = regs[r] /\ mem'[r] = mem[r]
      /\ queue'[r] = queue[r] /\ todo'[r] = todo[r] /\ taker'[r] = taker[r]
      /\ maker'[r] = maker[r] /\ upd'[r] = upd[r] /\ settle'[r] = settle[r]
  BY DEF Locals
<1>2. Ready(r) /\ Loaded(r) \subseteq Known /\ Loaded(r)' = Loaded(r)
  BY <1>1 DEF TypeOK, OnlyKnown, Loaded
<1>3. /\ pc[r] = "identify" => draft[r] # <<>>
      /\ pc[r] \in {"insertStatus", "insertTrader"} => regs[r] # <<>>
      /\ pc[r] \notin Pass => todo[r] = {}
      /\ pc[r] \in Updating => upd[r] # <<>> /\ \A k \in 1..Len(upd[r]) : upd[r][k] \in Loaded(r)
      /\ pc[r] = "settle" => settle[r] # <<>>
  BY <1>2 DEF Ready
<1>4. pc[r] \in Pass =>
          /\ queue[r] \cup todo[r] \subseteq Loaded(r)
          /\ todo[r] # {} => taker[r] \in Loaded(r)
          /\ \A l \in todo[r] : CanTrade(orders'[taker[r]], orders'[l])
  BY <1>2 DEF Ready
<1>5. pc[r] \in Matching =>
          /\ taker[r] \in Loaded(r) /\ maker[r] \in Loaded(r)
          /\ CanTrade(orders'[taker[r]], orders'[maker[r]])
  BY <1>2 DEF Ready
<1> QED
  BY <1>1, <1>2, <1>3, <1>4, <1>5 DEF Ready, CanTrade

\* The session that has just returned, or was cut short.
LEMMA ForgetTypes ==
    ASSUME TypeOK, NEW s \in Sessions, Forget(s), UNCHANGED << submitted, deposits >>,
           faults' \in 0..MaxFaults
    PROVE  TypeOK'
<1>1. Blank \in [Ids -> Row]
  BY RowFacts DEF Blank
<1>2. Types'
  BY <1>1 DEF TypeOK, Types, Forget, store, PC, OrderStatus
<1>3. OnlyKnown'
  BY DEF TypeOK, Types, OnlyKnown, Forget, store, Known, Blank
<1>4. Ready(s)'
  BY DEF TypeOK, Types, Forget, Ready, Pass, Matching, Updating
<1>5. ASSUME NEW r \in Sessions \ {s} PROVE Ready(r)'
  BY OthersReady DEF TypeOK, Types, Forget, Locals, store
<1> QED
  BY <1>2, <1>3, <1>4, <1>5 DEF TypeOK

LEMMA RegistrationTypes ==
    ASSUME TypeOK, NEW s \in Sessions,
           \/ \E req \in Requests : Submit(s, req)
           \/ GenerateId(s) \/ RegisterStatus(s) \/ RegisterTrader(s)
    PROVE  TypeOK'
<1> USE DEF TypeOK
<1>1. ASSUME NEW req \in Requests, Submit(s, req) PROVE TypeOK'
  <2>1. req \in Seq(TraderOrder) /\ req # <<>> /\ Len(req) \in Nat
    BY ExecutorAssumption
  <2>2. Types'
    BY <1>1, <2>1, ExecutorAssumption DEF Submit, Types, store, loops, posting, PC
  <2>3. OnlyKnown'
    BY <1>1 DEF Submit, OnlyKnown, Known, store, loops
  <2>4. Ready(s)'
    BY <1>1, <2>1 DEF Submit, Types, Ready, Pass, Matching, Updating, store, loops, posting
  <2>5. ASSUME NEW r \in Sessions \ {s} PROVE Ready(r)'
    BY <1>1, OthersReady DEF Submit, Types, Locals, store, loops, posting
  <2> QED
    BY <2>2, <2>3, <2>4, <2>5
<1>2. CASE GenerateId(s)
  <2>1. draft[s] \in Seq(TraderOrder) /\ draft[s] # <<>>
    BY <1>2 DEF GenerateId, Types, Ready
  <2>2. /\ Head(draft[s]) \in TraderOrder /\ Tail(draft[s]) \in Seq(TraderOrder)
        /\ Len(draft[s]) # 1 => Tail(draft[s]) # <<>>
    BY <2>1, HeadTail
  <2>3. /\ orders' \in Seq(TraderOrder) /\ Len(orders') = Len(orders) + 1 /\ Len(orders) \in Nat
        /\ \A k \in Known : orders'[k] = orders[k]
    BY <1>2, <2>2 DEF GenerateId, Types, Known
  <2>4. Known' = Known \cup {Len(orders) + 1} /\ Len(orders) + 1 \in Ids
    BY <1>2, <2>3, ExecutorAssumption DEF GenerateId, Known, Ids
  <2>5. /\ regs'[s] = Append(regs[s], Len(orders) + 1)
        /\ regs[s] \in Seq(Ids)
    BY <1>2 DEF GenerateId, Types
  <2>6. /\ regs'[s] \in Seq(Ids) /\ regs'[s] # <<>>
        /\ Len(regs'[s]) = Len(regs[s]) + 1
        /\ \A k \in 1..Len(regs'[s]) :
              regs'[s][k] = IF k = Len(regs[s]) + 1 THEN Len(orders) + 1 ELSE regs[s][k]
    BY <2>4, <2>5, AppendProperties
  <2>7. Types'
    BY <1>2, <2>2, <2>3, <2>6, ExecutorAssumption DEF GenerateId, Types, counters, loops, posting, PC
  <2>8. OnlyKnown'
    <3>1. \A k \in 1..Len(regs'[s]) : regs'[s][k] \in Known'
      <4>1. \A k \in 1..Len(regs[s]) : regs[s][k] \in Known
        BY DEF OnlyKnown
      <4>2. Len(regs[s]) \in Nat
        BY <2>5, LenProperties
      <4> QED
        BY <2>4, <2>6, <4>1, <4>2
    <3>2. \A r \in Sessions \ {s} : \A k \in 1..Len(regs'[r]) : regs'[r][k] \in Known'
      BY <1>2, <2>4 DEF GenerateId, OnlyKnown, Types
    <3> QED
      BY <1>2, <2>4, <3>1, <3>2 DEF GenerateId, OnlyKnown, loops
  <2>9. Ready(s)'
    BY <1>2, <2>2, <2>6 DEF GenerateId, Types, Ready, Pass, Matching, Updating, loops, posting
  <2>10. ASSUME NEW r \in Sessions \ {s} PROVE Ready(r)'
    BY <1>2, <2>3, OthersReady DEF GenerateId, Types, Locals, loops, posting
  <2> QED
    BY <2>7, <2>8, <2>9, <2>10
<1>3. CASE RegisterStatus(s)
  <2>1. regs[s] \in Seq(Ids) /\ regs[s] # <<>>
    BY <1>3 DEF RegisterStatus, Types, Ready
  <2>2. Head(regs[s]) \in Ids /\ Head(regs[s]) \in Known
    BY <2>1, HeadTail DEF OnlyKnown
  <2>3. Types'
    BY <1>3, <2>2, RowFacts DEF RegisterStatus, Types, counters, loops, posting, PC, OrderStatus
  <2>4. OnlyKnown'
    BY <1>3, <2>2 DEF RegisterStatus, Types, OnlyKnown, Known, loops, OrderStatus
  <2>5. Ready(s)'
    BY <1>3, <2>1 DEF RegisterStatus, Types, Ready, Pass, Matching, Updating, loops, posting
  <2>6. ASSUME NEW r \in Sessions \ {s} PROVE Ready(r)'
    BY <1>3, OthersReady DEF RegisterStatus, Types, Locals, loops, posting
  <2> QED
    BY <2>3, <2>4, <2>5, <2>6
<1>4. CASE RegisterTrader(s)
  <2>1. regs[s] \in Seq(Ids) /\ regs[s] # <<>>
    BY <1>4 DEF RegisterTrader, Types, Ready
  <2>2. Head(regs[s]) \in Ids /\ Head(regs[s]) \in Known
    BY <2>1, HeadTail DEF OnlyKnown
  <2>3. /\ Tail(regs[s]) \in Seq(Ids)
        /\ Len(regs[s]) # 1 => Tail(regs[s]) # <<>>
        /\ \A k \in 1..Len(Tail(regs[s])) : Tail(regs[s])[k] \in Known
    BY <2>1, HeadTail DEF OnlyKnown
  <2>4. Types'
    BY <1>4, <2>2, <2>3, RowFacts DEF RegisterTrader, Types, counters, loops, posting, PC
  <2>5. OnlyKnown'
    BY <1>4, <2>2, <2>3 DEF RegisterTrader, Types, OnlyKnown, Known, loops
  <2>6. Ready(s)'
    BY <1>4, <2>3 DEF RegisterTrader, Types, Ready, Pass, Matching, Updating, loops, posting
  <2>7. ASSUME NEW r \in Sessions \ {s} PROVE Ready(r)'
    BY <1>4, OthersReady DEF RegisterTrader, Types, Locals, loops, posting
  <2> QED
    BY <2>4, <2>5, <2>6, <2>7
<1> QED
  BY <1>1, <1>2, <1>3, <1>4

LEMMA PassTypes ==
    ASSUME TypeOK, NEW s \in Sessions,
           Load(s) \/ NextMarket(s) \/ BeginLimits(s) \/ NextBuy(s) \/ Pick(s)
    PROVE  TypeOK'
<1> USE DEF TypeOK
<1>1. \A id \in Ids : Partners(s, id) \subseteq Loaded(s)
  BY DEF Partners, Live
<1>2. \A id, l \in Ids : l \in Partners(s, id) => CanTrade(orders[id], orders[l])
  BY DEF Partners
<1>3. Loaded(s) \subseteq Ids
  BY DEF Loaded
<1>4. /\ UNCHANGED << store, counters, draft, regs, maker, posting >> \/ Pick(s)
      /\ UNCHANGED << store, counters, draft, regs, posting >>
      /\ ~ Load(s) => mem' = mem
  BY DEF Load, NextMarket, BeginLimits, NextBuy, Pick
<1>5. ASSUME NEW r \in Sessions \ {s} PROVE Ready(r)'
  <2>1. Locals(r)' = Locals(r)
    BY <1>4 DEF Load, NextMarket, BeginLimits, NextBuy, Pick, Types, Locals, store, posting
  <2> QED
    BY <2>1, <1>4, OthersReady DEF store
<1>6. OnlyKnown'
  <2>1. CASE Load(s)
    BY <2>1, <1>4 DEF Load, OnlyKnown, Types, Known, store, OrderStatus
  <2>2. CASE ~ Load(s)
    BY <2>2, <1>4 DEF OnlyKnown, Known, store
  <2> QED
    BY <2>1, <2>2
<1>7. CASE Load(s)
  <2>1. Types'
    BY <1>7, <1>4 DEF Load, Types, store, counters, posting, PC, OrderStatus
  <2>2. todo'[s] = {} /\ pc'[s] = "next" /\ queue'[s] \subseteq Loaded(s)'
    BY <1>7 DEF Load, Types, Ready, Loaded, Pass, Matching, Updating
  <2>3. Ready(s)'
    BY <2>2 DEF Ready, Pass, Matching, Updating
  <2> QED
    BY <2>1, <2>3, <1>5, <1>6
<1>8. CASE NextMarket(s)
  <2>1. PICK m \in queue[s] :
           \/ queue' = [queue EXCEPT ![s] = @ \ {m}] /\ UNCHANGED << todo, taker >>
           \/ /\ todo' = [todo EXCEPT ![s] = Partners(s, m)]
              /\ taker' = [taker EXCEPT ![s] = m]
              /\ UNCHANGED queue
    BY <1>8 DEF NextMarket
  <2>2. /\ pc[s] = "next" /\ pc' = pc /\ phase' = phase /\ mem' = mem /\ maker' = maker
        /\ todo[s] = {}
    BY <1>8 DEF NextMarket
  <2>3. queue[s] \subseteq Loaded(s) /\ m \in Ids /\ m \in Loaded(s)
    BY <2>1, <2>2, <1>3 DEF Ready, Pass
  <2>4. Types'
    <3>1. /\ queue' \in [Sessions -> SUBSET Ids]
          /\ todo' \in [Sessions -> SUBSET Ids]
          /\ taker' \in [Sessions -> Ids \cup {0}]
      <4>1. Partners(s, m) \in SUBSET Ids
        BY <2>3, <1>1, <1>3
      <4>2. CASE queue' = [queue EXCEPT ![s] = @ \ {m}] /\ UNCHANGED << todo, taker >>
        BY <4>2 DEF Types
      <4>3. CASE /\ todo' = [todo EXCEPT ![s] = Partners(s, m)]
                 /\ taker' = [taker EXCEPT ![s] = m]
                 /\ UNCHANGED queue
        BY <4>1, <4>3, <2>3 DEF Types
      <4> QED
        BY <2>1, <4>2, <4>3
    <3> QED
      BY <2>2, <3>1, <1>4 DEF Types, store, counters, posting
  <2>5. Loaded(s)' = Loaded(s)
    BY <2>2 DEF Loaded
  <2>6. CASE queue' = [queue EXCEPT ![s] = @ \ {m}] /\ UNCHANGED << todo, taker >>
    <3>1. todo'[s] = {} /\ queue'[s] \subseteq queue[s]
      BY <2>2, <2>6 DEF Types
    <3>2. Ready(s)'
      BY <2>2, <2>3, <2>5, <3>1 DEF Ready, Pass, Matching, Updating
    <3> QED
      BY <2>4, <3>2, <1>5, <1>6
  <2>7. CASE /\ todo' = [todo EXCEPT ![s] = Partners(s, m)]
             /\ taker' = [taker EXCEPT ![s] = m]
             /\ UNCHANGED queue
    <3>1. todo'[s] = Partners(s, m) /\ taker'[s] = m /\ queue'[s] = queue[s]
      BY <2>7 DEF Types
    <3>2. orders' = orders
      BY <1>4 DEF store
    <3>3. \A l \in todo'[s] : CanTrade(orders[m], orders[l])
      BY <3>1 DEF Partners
    <3>4. Ready(s)'
      BY <2>2, <2>3, <2>5, <3>1, <3>2, <3>3, <1>1 DEF Ready, Pass, Matching, Updating
    <3> QED
      BY <2>4, <3>4, <1>5, <1>6
  <2> QED
    BY <2>1, <2>4, <2>6, <2>7, <1>5, <1>6
<1>9. CASE BeginLimits(s)
  <2>1. Types'
    BY <1>9, <1>3, <1>4 DEF BeginLimits, Live, Types, store, counters, posting
  <2>2. Loaded(s)' = Loaded(s) /\ queue'[s] \subseteq Loaded(s)
    BY <1>9 DEF BeginLimits, Loaded, Live, Types
  <2>3. Ready(s)'
    BY <1>9, <2>2 DEF BeginLimits, Types, Ready, Pass, Matching, Updating
  <2> QED
    BY <2>1, <2>3, <1>5, <1>6
<1>10. CASE NextBuy(s)
  <2>1. PICK b \in queue[s] :
           /\ queue' = [queue EXCEPT ![s] = @ \ {b}]
           /\ todo' = [todo EXCEPT ![s] = Partners(s, b)]
           /\ taker' = [taker EXCEPT ![s] = b]
    BY <1>10 DEF NextBuy
  <2>2. pc[s] = "next" /\ pc' = pc /\ phase' = phase /\ mem' = mem /\ maker' = maker
    BY <1>10 DEF NextBuy
  <2>3. queue[s] \subseteq Loaded(s) /\ b \in Ids /\ b \in Loaded(s)
    BY <2>1, <2>2, <1>3 DEF Ready, Pass
  <2>4. Types'
    BY <2>1, <2>2, <2>3, <1>1, <1>3, <1>4 DEF Types, store, counters, posting
  <2>5. /\ Loaded(s)' = Loaded(s) /\ orders' = orders
        /\ todo'[s] = Partners(s, b) /\ taker'[s] = b /\ queue'[s] \subseteq queue[s]
    BY <2>1, <2>2, <1>4 DEF Loaded, Types, store
  <2>6. \A l \in todo'[s] : CanTrade(orders[b], orders[l])
    BY <2>5 DEF Partners
  <2>7. Ready(s)'
    BY <2>2, <2>3, <2>5, <2>6, <1>1 DEF Ready, Pass, Matching, Updating
  <2> QED
    BY <2>4, <2>7, <1>5, <1>6
<1>11. CASE Pick(s)
  <2>1. PICK l \in todo[s] :
           /\ maker' = [maker EXCEPT ![s] = l]
           /\ todo' = [todo EXCEPT ![s] = @ \ {l}]
    BY <1>11 DEF Pick
  <2>2. /\ pc[s] = "next" /\ pc' = [pc EXCEPT ![s] = "check1"] /\ phase' = phase /\ mem' = mem
        /\ taker' = taker /\ queue' = queue
    BY <1>11 DEF Pick
  <2>3. /\ queue[s] \cup todo[s] \subseteq Loaded(s) /\ taker[s] \in Loaded(s) /\ l \in Loaded(s)
        /\ \A k \in todo[s] : CanTrade(orders[taker[s]], orders[k])
    BY <2>1, <2>2 DEF Ready, Pass
  <2>4. Types'
    BY <2>1, <2>2, <2>3, <1>3, <1>4 DEF Types, store, counters, posting, PC
  <2>5. /\ Loaded(s)' = Loaded(s) /\ orders' = orders /\ pc'[s] = "check1"
        /\ todo'[s] \subseteq todo[s] /\ maker'[s] = l
    BY <2>1, <2>2, <1>4 DEF Loaded, Types, store
  <2>6. Ready(s)'
    BY <2>1, <2>2, <2>3, <2>5 DEF Ready, Pass, Matching, Updating
  <2> QED
    BY <2>4, <2>6, <1>5, <1>6
<1> QED
  BY <1>7, <1>8, <1>9, <1>10, <1>11

\* The order a match takes or meets, and the session's copy of it.
LEMMA MatchFacts ==
    ASSUME TypeOK, NEW s \in Sessions, pc[s] \in Matching, NEW k \in {taker[s], maker[s]}
    PROVE  /\ k \in Ids /\ k \in Known /\ k \in Loaded(s)
           /\ taker[s] # maker[s]
           /\ orders[k] \in TraderOrder
           /\ mem[s][k] \in Rows(Ids)
<1>1. k \in Loaded(s) /\ CanTrade(orders[taker[s]], orders[maker[s]])
  BY DEF TypeOK, Ready
<1>2. k \in Ids /\ mem[s][k] # NoRow
  BY <1>1 DEF Loaded
<1>3. k \in Known
  BY <1>2 DEF TypeOK, OnlyKnown
<1>4. taker[s] # maker[s]
  BY <1>1, TradersDiffer
<1>5. orders[k] \in TraderOrder
  BY <1>3 DEF TypeOK, Types, Known
<1>6. mem[s][k] \in Row
  BY <1>2 DEF TypeOK, Types
<1> QED
  BY <1>1, <1>2, <1>3, <1>4, <1>5, <1>6, RowFacts

LEMMA AmountTyped ==
    ASSUME TypeOK, NEW s \in Sessions, pc[s] \in Matching, NEW k \in {taker[s], maker[s]}
    PROVE  ExchangeVolume(s) \in Int /\ Amount(s, k) \in Int
<1>1. \A i \in {taker[s], maker[s]} : FullVolume(orders[i], mem[s][i]) \in Int
  <2>1. SUFFICES ASSUME NEW i \in {taker[s], maker[s]} PROVE FullVolume(orders[i], mem[s][i]) \in Int
    OBVIOUS
  <2>2. orders[i] \in TraderOrder /\ mem[s][i] \in Rows(Ids)
    BY MatchFacts
  <2>3. orders[i].volume \in Int /\ mem[s][i].exchanged \in Int
    BY <2>2 DEF TraderOrder, MarketOrder, LimitOrder, Rows
  <2> QED
    BY <2>3 DEF FullVolume
<1>2. ExchangeVolume(s) \in Int
  BY <1>1 DEF ExchangeVolume, GetExchangeVolume
<1>3. ExchangePrice(s) \in Nat \ {0}
  <2>1. orders[maker[s]].kind = "Limit"
    BY TradersDiffer DEF TypeOK, Ready
  <2> QED
    BY <2>1, MatchFacts, OrderPricePositive DEF ExchangePrice
<1> QED
  BY <1>2, <1>3, BaseAmountInt DEF Amount

\* A cancelled copy is still a copy.
LEMMA CancelTypes ==
    ASSUME TypeOK, NEW s \in Sessions, pc[s] \in Matching, NEW k \in {taker[s], maker[s]},
           Cancel(s, k),
           UNCHANGED << store, counters, draft, regs, phase, queue, todo, taker, maker, old >>
    PROVE  TypeOK'
<1> USE DEF TypeOK
<1>1. k \in Ids /\ k \in Known /\ k \in Loaded(s) /\ mem[s][k] \in Rows(Ids)
  BY MatchFacts
<1>2. /\ mem' = [mem EXCEPT ![s][k].status = "Canceled"]
      /\ upd' = [upd EXCEPT ![s] = << k >>] /\ settle' = settle
      /\ pc' = [pc EXCEPT ![s] = "replace"]
  BY DEF Cancel
<1>3. mem'[s][k] \in Rows(Ids)
  BY <1>1, <1>2 DEF Types, Rows, OrderStatus
<1>4. /\ mem' \in [Sessions -> [Ids -> Row]]
      /\ \A id \in Ids \ {k} : mem'[s][id] = mem[s][id]
      /\ \A r \in Sessions \ {s} : mem'[r] = mem[r]
  BY <1>1, <1>2, <1>3 DEF Types, Row
<1>5. Loaded(s)' = Loaded(s)
  BY <1>1, <1>3, <1>4, RowFacts DEF Loaded
<1>6. << k >> \in Seq(Ids) /\ << k >> # <<>> /\ Len(<< k >>) = 1 /\ << k >>[1] = k
  BY <1>1
<1>7. upd' \in [Sessions -> Seq(Ids)] /\ upd'[s] = << k >>
  BY <1>2, <1>6 DEF Types
<1>8. Types'
  BY <1>2, <1>4, <1>7 DEF Types, store, counters, PC
<1>9. OnlyKnown'
  BY <1>1, <1>4 DEF OnlyKnown, Known, store
<1>10. Ready(s)'
  <2>1. pc'[s] = "replace"
    BY <1>2 DEF Types
  <2>2. \A i \in 1..Len(upd'[s]) : upd'[s][i] \in Loaded(s)'
    BY <1>1, <1>5, <1>6, <1>7
  <2>3. pc[s] \in Pass
    BY DEF Pass
  <2> QED
    BY <2>1, <2>2, <2>3, <1>5, <1>6, <1>7 DEF Ready, Pass, Matching, Updating, store
<1>11. ASSUME NEW r \in Sessions \ {s} PROVE Ready(r)'
  BY <1>2, <1>4, OthersReady DEF Types, Locals, store
<1> QED
  BY <1>8, <1>9, <1>10, <1>11

LEMMA Exchange1Typed ==
    ASSUME NEW o \in TraderOrder, NEW r \in Rows(Ids), NEW v \in Int, NEW other \in Ids
    PROVE  /\ Exchange1(o, r, v, other) \in Rows(Ids)
           /\ Exchange1(o, r, v, other).exchanged = r.exchanged + v
           /\ Exchange1(o, r, v, other).matched = r.matched \cup {other}
           /\ Exchange1(o, r, v, other).status =
                  IF r.exchanged + v = o.volume THEN "Done" ELSE r.status
<1>1. o.volume \in Int
  BY DEF TraderOrder, MarketOrder, LimitOrder
<1> DEFINE r0 == [r EXCEPT !.exchanged = @ + v]
           r1 == AddExchangingOrder(r0, other)
<1>0. /\ r0 \in Rows(Ids) /\ r0.exchanged = r.exchanged + v /\ r0.status = r.status
      /\ r0.matched = r.matched
  BY DEF Rows
<1> HIDE DEF r0
<1>2. /\ r1 \in Rows(Ids) /\ r1.exchanged = r.exchanged + v /\ r1.status = r.status
      /\ r1.matched = r.matched \cup {other}
  BY <1>0 DEF AddExchangingOrder, Rows
<1>3. IsOrderFullfiled(o, r1) <=> r.exchanged + v = o.volume
  BY <1>1, <1>2 DEF IsOrderFullfiled, FullVolume, Rows
<1>4. [r1 EXCEPT !.status = "Done"] \in Rows(Ids)
  BY <1>2 DEF Rows, OrderStatus
<1> HIDE DEF r1
<1>5. Exchange1(o, r, v, other) = IF IsOrderFullfiled(o, r1) THEN [r1 EXCEPT !.status = "Done"] ELSE r1
  BY DEF Exchange1, r1, r0
<1> QED
  BY <1>2, <1>3, <1>4, <1>5 DEF Rows

\* What a match changes: the two copies, and the lists of what is to be written.
LEMMA MatchStep ==
    ASSUME TypeOK, NEW s \in Sessions, pc[s] = "check2", CheckMaker(s), Affordable(s, maker[s])
    PROVE  /\ mem' \in [Sessions -> [Ids -> Row]]
           /\ mem'[s][taker[s]] = Exchange1(orders[taker[s]], mem[s][taker[s]], ExchangeVolume(s), maker[s])
           /\ mem'[s][maker[s]] = Exchange1(orders[maker[s]], mem[s][maker[s]], ExchangeVolume(s), taker[s])
           /\ mem'[s][taker[s]] \in Rows(Ids) /\ mem'[s][maker[s]] \in Rows(Ids)
           /\ \A id \in Ids \ {taker[s], maker[s]} : mem'[s][id] = mem[s][id]
           /\ \A r \in Sessions \ {s} : mem'[r] = mem[r]
           /\ Loaded(s)' = Loaded(s)
           /\ upd' = [upd EXCEPT ![s] = << taker[s], maker[s] >>]
           /\ pc' = [pc EXCEPT ![s] = "replace"]
           /\ settle' = [settle EXCEPT ![s] = ChangeBalance(orders[taker[s]], Amount(s, taker[s]))
                                             \o ChangeBalance(orders[maker[s]], Amount(s, maker[s]))]
           /\ UNCHANGED << store, counters, draft, regs, phase, queue, todo, taker, maker, old >>
<1> DEFINE t == taker[s]
           m == maker[s]
           v == ExchangeVolume(s)
           rt == Exchange1(orders[t], mem[s][t], v, m)
           rm == Exchange1(orders[m], mem[s][m], v, t)
<1>0. pc[s] \in Matching
  BY DEF Matching
<1>1. /\ mem' = [mem EXCEPT ![s][t] = Exchange1(orders[t], @, v, m),
                            ![s][m] = Exchange1(orders[m], @, v, t)]
      /\ upd' = [upd EXCEPT ![s] = << t, m >>]
      /\ settle' = [settle EXCEPT ![s] = ChangeBalance(orders[t], Amount(s, t))
                                        \o ChangeBalance(orders[m], Amount(s, m))]
      /\ pc' = [pc EXCEPT ![s] = "replace"]
      /\ UNCHANGED << store, counters, draft, regs, phase, queue, todo, taker, maker, old >>
  BY DEF CheckMaker
<1>2. /\ t \in Ids /\ m \in Ids /\ t # m /\ t \in Loaded(s) /\ m \in Loaded(s)
      /\ orders[t] \in TraderOrder /\ orders[m] \in TraderOrder
      /\ mem[s][t] \in Rows(Ids) /\ mem[s][m] \in Rows(Ids)
  BY <1>0, MatchFacts
<1>3. v \in Int
  BY <1>0, AmountTyped
<1>4. rt \in Rows(Ids) /\ rm \in Rows(Ids)
  BY <1>2, <1>3, Exchange1Typed
<1>5. mem \in [Sessions -> [Ids -> Row]]
  BY DEF TypeOK, Types
<1> HIDE DEF v
<1>6. mem' = [mem EXCEPT ![s] = [mem[s] EXCEPT ![t] = rt, ![m] = rm]]
  BY <1>1, <1>2, <1>5
<1> HIDE DEF rt, rm
<1>7. /\ mem'[s][t] = rt /\ mem'[s][m] = rm
      /\ \A id \in Ids \ {t, m} : mem'[s][id] = mem[s][id]
      /\ \A r \in Sessions \ {s} : mem'[r] = mem[r]
      /\ mem' \in [Sessions -> [Ids -> Row]]
  BY <1>2, <1>4, <1>5, <1>6 DEF Row
<1>8. Loaded(s)' = Loaded(s)
  BY <1>2, <1>4, <1>7, RowFacts DEF Loaded
<1> QED
  BY <1>1, <1>4, <1>7, <1>8 DEF rt, rm, v

LEMMA MatchTypes ==
    ASSUME TypeOK, NEW s \in Sessions, CheckTaker(s) \/ CheckMaker(s)
    PROVE  TypeOK'
<1> USE DEF TypeOK
<1>1. CASE CheckTaker(s) /\ Affordable(s, taker[s])
  <2>1. /\ pc[s] = "check1" /\ pc' = [pc EXCEPT ![s] = "check2"]
        /\ UNCHANGED << mem, upd, settle >>
        /\ UNCHANGED << store, counters, draft, regs, phase, queue, todo, taker, maker, old >>
    BY <1>1 DEF CheckTaker
  <2>2. Types' /\ OnlyKnown'
    BY <2>1 DEF Types, OnlyKnown, Known, store, counters, PC
  <2>3. Ready(s)'
    BY <2>1 DEF Types, Ready, Loaded, Pass, Matching, Updating, store
  <2>4. ASSUME NEW r \in Sessions \ {s} PROVE Ready(r)'
    BY <2>1, OthersReady DEF Types, Locals, store
  <2> QED
    BY <2>2, <2>3, <2>4
<1>2. CASE CheckTaker(s) /\ ~ Affordable(s, taker[s])
  BY <1>2, CancelTypes DEF CheckTaker, Matching
<1>3. CASE CheckMaker(s) /\ ~ Affordable(s, maker[s])
  BY <1>3, CancelTypes DEF CheckMaker, Matching
<1>4. CASE CheckMaker(s) /\ Affordable(s, maker[s])
  <2> DEFINE t == taker[s]
             m == maker[s]
             bills == ChangeBalance(orders[t], Amount(s, t)) \o ChangeBalance(orders[m], Amount(s, m))
  <2>1. pc[s] = "check2" /\ pc[s] \in Matching /\ pc[s] \in Pass
    BY <1>4 DEF CheckMaker, Matching, Pass
  <2>2. /\ t \in Ids /\ m \in Ids /\ t \in Known /\ m \in Known
        /\ t \in Loaded(s) /\ m \in Loaded(s)
        /\ orders[t] \in TraderOrder /\ orders[m] \in TraderOrder
    BY <2>1, MatchFacts
  <2>3. /\ mem' \in [Sessions -> [Ids -> Row]]
        /\ \A id \in Ids \ {t, m} : mem'[s][id] = mem[s][id]
        /\ \A r \in Sessions \ {s} : mem'[r] = mem[r]
        /\ Loaded(s)' = Loaded(s)
        /\ upd' = [upd EXCEPT ![s] = << t, m >>]
        /\ pc' = [pc EXCEPT ![s] = "replace"]
        /\ settle' = [settle EXCEPT ![s] = bills]
        /\ UNCHANGED << store, counters, draft, regs, phase, queue, todo, taker, maker, old >>
    BY <1>4, <2>1, MatchStep
  <2>4. bills \in Seq(Posting)
    <3>1. Amount(s, t) \in Int /\ Amount(s, m) \in Int
      BY <2>1, AmountTyped
    <3> QED
      BY <2>2, <3>1, PostingsTyped, ConcatProperties
  <2>5. << t, m >> \in Seq(Ids) /\ << t, m >> # <<>> /\ Len(<< t, m >>) = 2
        /\ << t, m >>[1] = t /\ << t, m >>[2] = m
    BY <2>2
  <2> HIDE DEF bills
  <2>6. upd' \in [Sessions -> Seq(Ids)] /\ upd'[s] = << t, m >>
    BY <2>3, <2>5 DEF Types
  <2>7. Types'
    BY <2>3, <2>4, <2>6 DEF Types, store, counters, PC
  <2>8. OnlyKnown'
    BY <2>2, <2>3 DEF OnlyKnown, Known, store
  <2>9. Ready(s)'
    <3>1. pc'[s] = "replace"
      BY <2>3 DEF Types
    <3>2. \A i \in 1..Len(upd'[s]) : upd'[s][i] \in Loaded(s)'
      BY <2>2, <2>3, <2>5, <2>6
    <3> QED
      BY <2>1, <2>3, <2>5, <2>6, <3>1, <3>2 DEF Ready, Pass, Matching, Updating, store
  <2>10. ASSUME NEW r \in Sessions \ {s} PROVE Ready(r)'
    BY <2>3, OthersReady DEF Types, Locals, store
  <2> QED
    BY <2>7, <2>8, <2>9, <2>10
<1> QED
  BY <1>1, <1>2, <1>3, <1>4

\* The order an UpdateOrderAsync under way is about.
LEMMA UpdateFacts ==
    ASSUME TypeOK, NEW s \in Sessions, pc[s] \in Updating
    PROVE  /\ upd[s] \in Seq(Ids) /\ upd[s] # <<>>
           /\ Head(upd[s]) \in Ids /\ Head(upd[s]) \in Known
           /\ Head(upd[s]) \in Loaded(s)
           /\ mem[s][Head(upd[s])] \in Rows(Ids) /\ mem[s][Head(upd[s])] # NoRow
           /\ mem[s][Head(upd[s])].status \in OrderStatus
<1>1. /\ upd[s] \in Seq(Ids) /\ upd[s] # <<>>
      /\ \A k \in 1..Len(upd[s]) : upd[s][k] \in Loaded(s)
  BY DEF TypeOK, Types, Ready
<1>2. Head(upd[s]) \in Ids /\ Head(upd[s]) \in Loaded(s)
  BY <1>1, HeadTail
<1>3. mem[s][Head(upd[s])] \in Row /\ mem[s][Head(upd[s])] # NoRow
  BY <1>2 DEF TypeOK, Types, Loaded
<1>4. Head(upd[s]) \in Known
  BY <1>2, <1>3 DEF TypeOK, OnlyKnown
<1>5. mem[s][Head(upd[s])] \in Rows(Ids)
  BY <1>3, RowFacts
<1> QED
  BY <1>1, <1>2, <1>3, <1>4, <1>5 DEF Rows

\* The end of an UpdateOrderAsync leaves the session ready for what comes next.
LEMMA UpdatedReady ==
    ASSUME TypeOK, NEW s \in Sessions, pc[s] \in Updating, Updated(s),
           UNCHANGED << orders, draft, regs, loops, settle >>
    PROVE  /\ pc' \in [Sessions -> PC] /\ upd' \in [Sessions -> Seq(Ids)]
           /\ \A r \in Sessions \ {s} : pc'[r] = pc[r] /\ upd'[r] = upd[r]
           /\ Ready(s)'
<1> DEFINE t == Tail(upd[s])
<1>1. /\ upd[s] \in Seq(Ids) /\ upd[s] # <<>>
      /\ \A k \in 1..Len(upd[s]) : upd[s][k] \in Loaded(s)
  BY DEF TypeOK, Types, Ready
<1>2. /\ t \in Seq(Ids) /\ Len(upd[s]) \in Nat /\ Len(upd[s]) > 0
      /\ Len(upd[s]) # 1 => t # <<>>
      /\ \A k \in 1..Len(t) : t[k] \in Loaded(s)
  BY <1>1, HeadTail
<1> HIDE DEF t
<1>3. /\ upd' = [upd EXCEPT ![s] = t]
      /\ pc' = [pc EXCEPT ![s] = IF Len(upd[s]) > 1 THEN "replace"
                                 ELSE IF settle[s] # <<>> THEN "settle" ELSE "next"]
  BY DEF Updated, t
<1>4. /\ pc' \in [Sessions -> PC] /\ upd' \in [Sessions -> Seq(Ids)]
      /\ \A r \in Sessions \ {s} : pc'[r] = pc[r] /\ upd'[r] = upd[r]
      /\ upd'[s] = t
      /\ pc'[s] = IF Len(upd[s]) > 1 THEN "replace"
                  ELSE IF settle[s] # <<>> THEN "settle" ELSE "next"
  BY <1>2, <1>3 DEF TypeOK, Types, PC
<1>5. pc[s] \in Pass /\ Loaded(s)' = Loaded(s)
  BY DEF Pass, Loaded, loops
<1>6. Ready(s)
  BY DEF TypeOK
<1> QED
  BY <1>2, <1>4, <1>5, <1>6 DEF Ready, Pass, Matching, Updating, loops

LEMMA UpdateTypes ==
    ASSUME TypeOK, NEW s \in Sessions,
           UpdateReplace(s) \/ UpdateSame(s) \/ UpdateDelete(s) \/ UpdateInsert(s)
    PROVE  TypeOK'
<1> USE DEF TypeOK
<1> DEFINE id == Head(upd[s])
<1>1. pc[s] \in Updating
  BY DEF UpdateReplace, UpdateSame, UpdateDelete, UpdateInsert, Updating
<1>2. /\ id \in Ids /\ id \in Known /\ mem[s][id] \in Row /\ mem[s][id] # NoRow
      /\ mem[s][id].status \in OrderStatus
  BY <1>1, UpdateFacts DEF Row
<1>3. old[s] \in OrderStatus
  BY DEF Types
<1>4. CASE UpdateReplace(s)
  <2> DEFINE was == IF traderRow[id] = NoRow THEN "Registered" ELSE traderRow[id].status
  <2>1. /\ traderRow' = IF traderRow[id] = NoRow
                        THEN traderRow ELSE [traderRow EXCEPT ![id] = mem[s][id]]
        /\ old' = [old EXCEPT ![s] = was]
        /\ pc' = [pc EXCEPT ![s] = IF was = mem[s][id].status THEN "same" ELSE "delete"]
        /\ UNCHANGED << orders, statusRow, balance, counters, draft, regs, loops, upd, settle >>
    BY <1>4 DEF UpdateReplace
  <2>2. was \in OrderStatus
    <3>1. CASE traderRow[id] = NoRow
      BY <3>1 DEF OrderStatus
    <3>2. CASE traderRow[id] # NoRow
      <4>1. traderRow[id] \in Rows(Ids)
        BY <1>2, <3>2, RowFacts DEF Types
      <4> QED
        BY <3>2, <4>1 DEF Rows
    <3> QED
      BY <3>1, <3>2
  <2> HIDE DEF was
  <2>3. traderRow' \in [Ids -> Row] /\ \A k \in Ids \ {id} : traderRow'[k] = traderRow[k]
    BY <1>2, <2>1 DEF Types
  <2>4. Types'
    BY <2>1, <2>2, <2>3 DEF Types, counters, loops, PC
  <2>5. OnlyKnown'
    BY <1>2, <2>1, <2>3 DEF OnlyKnown, Known, loops
  <2>6. pc'[s] \in {"same", "delete"} /\ Loaded(s)' = Loaded(s)
    BY <2>1 DEF Types, Loaded, loops
  <2>7. Ready(s)'
    BY <1>1, <2>1, <2>6 DEF Ready, Pass, Matching, Updating, loops
  <2>8. ASSUME NEW r \in Sessions \ {s} PROVE Ready(r)'
    BY <2>1, OthersReady DEF Types, Locals, loops
  <2> QED
    BY <2>4, <2>5, <2>7, <2>8
<1>5. ASSUME UpdateSame(s) \/ UpdateInsert(s),
             statusRow' \in [OrderStatus -> [Ids -> Row]],
             \A st \in OrderStatus, k \in Ids \ {id} : statusRow'[st][k] = statusRow[st][k]
      PROVE  TypeOK'
  <2>1. /\ Updated(s)
        /\ UNCHANGED << orders, traderRow, balance, counters, draft, regs, loops, old, settle >>
    BY <1>5 DEF UpdateSame, UpdateInsert
  <2>2. /\ pc' \in [Sessions -> PC] /\ upd' \in [Sessions -> Seq(Ids)]
        /\ \A r \in Sessions \ {s} : pc'[r] = pc[r] /\ upd'[r] = upd[r]
        /\ Ready(s)'
    BY <1>1, <2>1, UpdatedReady
  <2>3. Types'
    BY <1>5, <2>1, <2>2 DEF Types, counters, loops
  <2>4. OnlyKnown'
    BY <1>2, <1>5, <2>1 DEF OnlyKnown, Known, loops
  <2>5. ASSUME NEW r \in Sessions \ {s} PROVE Ready(r)'
    BY <2>1, <2>2, OthersReady DEF Locals, loops
  <2> QED
    BY <2>2, <2>3, <2>4, <2>5
<1>6. CASE UpdateSame(s)
  <2>1. statusRow' = IF statusRow[old[s]][id] = NoRow
                     THEN statusRow ELSE [statusRow EXCEPT ![old[s]][id] = mem[s][id]]
    BY <1>6 DEF UpdateSame
  <2> QED
    BY <1>2, <1>3, <1>5, <1>6, <2>1 DEF Types
<1>7. CASE UpdateInsert(s)
  <2>1. statusRow' = [statusRow EXCEPT ![mem[s][id].status][id] = mem[s][id]]
    BY <1>7 DEF UpdateInsert
  <2> QED
    BY <1>2, <1>5, <1>7, <2>1 DEF Types
<1>8. CASE UpdateDelete(s)
  <2>1. /\ statusRow' = [statusRow EXCEPT ![old[s]][id] = NoRow]
        /\ pc' = [pc EXCEPT ![s] = "insert"]
        /\ UNCHANGED << orders, traderRow, balance, counters, draft, regs, loops, posting >>
    BY <1>8 DEF UpdateDelete
  <2>2. /\ statusRow' \in [OrderStatus -> [Ids -> Row]]
        /\ \A st \in OrderStatus, k \in Ids \ {id} : statusRow'[st][k] = statusRow[st][k]
    BY <1>2, <1>3, <2>1, RowFacts DEF Types
  <2>3. Types'
    BY <2>1, <2>2 DEF Types, counters, loops, posting, PC
  <2>4. OnlyKnown'
    BY <1>2, <2>1, <2>2 DEF OnlyKnown, Known, loops
  <2>5. pc'[s] = "insert" /\ Loaded(s)' = Loaded(s)
    BY <2>1 DEF Types, Loaded, loops
  <2>6. Ready(s)'
    BY <1>1, <2>1, <2>5 DEF Ready, Pass, Matching, Updating, loops, posting
  <2>7. ASSUME NEW r \in Sessions \ {s} PROVE Ready(r)'
    BY <2>1, OthersReady DEF Types, Locals, loops, posting
  <2> QED
    BY <2>3, <2>4, <2>6, <2>7
<1> QED
  BY <1>4, <1>6, <1>7, <1>8

LEMMA SettleTypes ==
    ASSUME TypeOK, NEW s \in Sessions, Settle(s)
    PROVE  TypeOK'
<1> USE DEF TypeOK
<1> DEFINE p == Head(settle[s])
           t == Tail(settle[s])
<1>1. settle[s] \in Seq(Posting) /\ settle[s] # <<>>
  BY DEF Settle, Types, Ready
<1>2. p \in Posting /\ t \in Seq(Posting) /\ (Len(settle[s]) # 1 => t # <<>>)
  BY <1>1, HeadTail
<1> HIDE DEF p, t
<1>3. /\ pc[s] = "settle"
      /\ balance' = [balance EXCEPT ![p.trader][p.ccy] = @ + p.delta]
      /\ settle' = [settle EXCEPT ![s] = t]
      /\ pc' = [pc EXCEPT ![s] = IF Len(settle[s]) = 1 THEN "next" ELSE "settle"]
      /\ UNCHANGED << orders, statusRow, traderRow, counters, draft, regs, loops, upd, old >>
  BY DEF Settle, p, t
<1>4. balance' \in [Traders -> [Currencies -> Int]]
  <2>1. p.trader \in Traders /\ p.ccy \in Currencies /\ p.delta \in Int
    BY <1>2 DEF Posting
  <2> QED
    BY <1>3, <2>1 DEF Types
<1>5. Types'
  BY <1>2, <1>3, <1>4 DEF Types, counters, loops, PC
<1>6. OnlyKnown'
  BY <1>3 DEF OnlyKnown, Known, loops
<1>7. /\ pc'[s] = (IF Len(settle[s]) = 1 THEN "next" ELSE "settle")
      /\ settle'[s] = t /\ Loaded(s)' = Loaded(s)
  BY <1>3 DEF Types, Loaded, loops
<1>8. Ready(s)'
  BY <1>2, <1>3, <1>7 DEF Ready, Pass, Matching, Updating, loops
<1>9. ASSUME NEW r \in Sessions \ {s} PROVE Ready(r)'
  BY <1>3, OthersReady DEF Types, Locals, loops
<1> QED
  BY <1>5, <1>6, <1>8, <1>9

LEMMA DepositTypes ==
    ASSUME TypeOK, NEW t \in Traders, NEW c \in Currencies, NEW amount \in DepositAmounts,
           Deposit(t, c, amount)
    PROVE  TypeOK'
<1>1. amount \in Int /\ deposits' \in 0..MaxDeposits
  BY ExecutorAssumption DEF Deposit, TypeOK, Types
<1>2. Types'
  BY <1>1 DEF Deposit, TypeOK, Types, loops, posting
<1>3. OnlyKnown'
  BY DEF Deposit, TypeOK, OnlyKnown, Known, loops
<1>4. ASSUME NEW r \in Sessions PROVE Ready(r)'
  BY OthersReady DEF Deposit, Locals, loops, posting
<1> QED
  BY <1>2, <1>3, <1>4 DEF TypeOK

LEMMA StutterTypes ==
    ASSUME TypeOK, UNCHANGED vars
    PROVE  TypeOK'
<1>1. Types' /\ OnlyKnown'
  BY DEF vars, store, counters, loops, posting, TypeOK, Types, OnlyKnown, Known
<1>2. ASSUME NEW r \in Sessions PROVE Ready(r)'
  BY OthersReady DEF vars, store, counters, loops, posting, Locals
<1> QED
  BY <1>1, <1>2 DEF TypeOK

LEMMA InitTypes == Init => TypeOK
<1> SUFFICES ASSUME Init PROVE TypeOK
  OBVIOUS
<1>1. Blank \in [Ids -> Row]
  BY RowFacts DEF Blank
<1>2. Types
  BY <1>1, EmptySeq, ExecutorAssumption DEF Init, Types, PC, OrderStatus
<1>3. OnlyKnown
  BY EmptySeq DEF Init, OnlyKnown, Blank, Known
<1>4. \A s \in Sessions : Ready(s)
  BY DEF Init, Ready, Pass, Matching, Updating
<1> QED
  BY <1>2, <1>3, <1>4 DEF TypeOK

LEMMA NextTypes == TypeOK /\ [Next]_vars => TypeOK'
<1> SUFFICES ASSUME TypeOK, [Next]_vars PROVE TypeOK'
  OBVIOUS
<1>1. ASSUME NEW s \in Sessions, Step(s) PROVE TypeOK'
  <2>1. CASE EndPass(s)
    BY <2>1, ForgetTypes DEF EndPass, counters, TypeOK, Types
  <2> QED
    BY <1>1, <2>1, RegistrationTypes, PassTypes, MatchTypes, UpdateTypes, SettleTypes DEF Step
<1>2. ASSUME NEW s \in Sessions, Fail(s) PROVE TypeOK'
  <2>1. faults' \in 0..MaxFaults
    BY <1>2, ExecutorAssumption DEF Fail, TypeOK, Types
  <2> QED
    BY <1>2, <2>1, ForgetTypes DEF Fail
<1>3. ASSUME NEW s \in Sessions, NEW req \in Requests, Submit(s, req) PROVE TypeOK'
  BY <1>3, RegistrationTypes
<1>4. ASSUME NEW t \in Traders, NEW c \in Currencies, NEW amount \in DepositAmounts,
             Deposit(t, c, amount)
      PROVE  TypeOK'
  BY <1>4, DepositTypes
<1>5. CASE UNCHANGED vars
  BY <1>5, StutterTypes
<1> QED
  BY <1>1, <1>2, <1>3, <1>4, <1>5 DEF Next, Wait

\* In every reachable state, whatever sessions interleave or crash, every variable
\* has its type and no session is about to use something it does not have.
THEOREM TypeCorrect == Spec => []TypeOK
<1>1. Init => TypeOK
  BY InitTypes
<1>2. TypeOK /\ [Next]_vars => TypeOK'
  BY NextTypes
<1> QED
  BY <1>1, <1>2, PTL DEF Spec

-----------------------------------------------------------------------------
(* NoOverfill and TradesLegal: what every copy of an order satisfies.      *)

Good(id, r) ==
    /\ 0 =< r.exchanged /\ r.exchanged =< orders[id].volume
    /\ r.status = "Done" => r.exchanged = orders[id].volume
    /\ \A k \in r.matched :
          /\ k \in Known
          /\ CanTrade(orders[id], orders[k]) \/ CanTrade(orders[k], orders[id])

AllGood == \A id \in Known : \A r \in Copies(id) : Good(id, r)

LEMMA AllGoodMeans == AllGood <=> NoOverfill /\ TradesLegal
  BY DEF AllGood, Good, NoOverfill, TradesLegal

\* Orders only ever become more.
Extended == Known \subseteq Known' /\ \A k \in Known : orders'[k] = orders[k]

\* A step keeps every copy good when each copy after it was a copy before, is new,
\* or has been shown to be good.
LEMMA KeepGood ==
    ASSUME TypeOK, TypeOK', AllGood, Extended,
           \A id \in Known' : \A r \in Copies(id)' :
              \/ r \in Copies(id)
              \/ r \in {NoRow, Fresh}
              \/ id \in Known /\ Good(id, r)
    PROVE  AllGood'
<1> SUFFICES ASSUME NEW id \in Known', NEW r \in Copies(id)' PROVE Good(id, r)'
  BY DEF AllGood
<1>1. CASE r \in {NoRow, Fresh}
  <2>1. orders'[id] \in TraderOrder
    BY DEF TypeOK, Types, Known
  <2>2. orders'[id].volume \in Nat
    BY <2>1 DEF TraderOrder, MarketOrder, LimitOrder
  <2> QED
    BY <1>1, <2>2 DEF Good, Fresh, NoRow
<1>2. CASE id \in Known /\ Good(id, r)
  BY <1>2 DEF Good, Extended, CanTrade
<1>3. CASE r \in Copies(id) /\ id \in Known
  BY <1>2, <1>3 DEF AllGood
<1>4. CASE r \in Copies(id) /\ id \notin Known
  <2>1. id \in Ids
    BY ExecutorAssumption DEF TypeOK, Types, Known, Ids
  <2>2. r = NoRow
    BY <1>4, <2>1 DEF TypeOK, OnlyKnown, Copies
  <2> QED
    BY <1>1, <2>2
<1> QED
  BY <1>1, <1>2, <1>3, <1>4

\* Every step but a match or a cancellation only copies rows.
LEMMA CopiesKept ==
    ASSUME TypeOK, TypeOK', AllGood, Extended,
           \A s \in Sessions, id \in Ids : mem'[s][id] \in Copies(id) \cup {NoRow, Fresh},
           \A id \in Ids : traderRow'[id] \in Copies(id) \cup {NoRow, Fresh},
           \A st \in OrderStatus, id \in Ids : statusRow'[st][id] \in Copies(id) \cup {NoRow, Fresh}
    PROVE  AllGood'
<1>1. Known' \subseteq Ids
  BY ExecutorAssumption DEF TypeOK, Types, Known, Ids
<1>2. ASSUME NEW id \in Known', NEW r \in Copies(id)' PROVE r \in Copies(id) \cup {NoRow, Fresh}
  BY <1>1, <1>2 DEF Copies
<1> QED
  BY <1>2, KeepGood

\* Copies of a known order are good: a match of two good copies gives good copies.
LEMMA MatchGood ==
    ASSUME TypeOK, AllGood, NEW s \in Sessions, pc[s] \in Matching
    PROVE  /\ Good(taker[s], Exchange1(orders[taker[s]], mem[s][taker[s]], ExchangeVolume(s), maker[s]))
           /\ Good(maker[s], Exchange1(orders[maker[s]], mem[s][maker[s]], ExchangeVolume(s), taker[s]))
<1> DEFINE t == taker[s]
           m == maker[s]
           v == ExchangeVolume(s)
<1>1. /\ t \in Known /\ m \in Known /\ t \in Ids /\ m \in Ids
      /\ orders[t] \in TraderOrder /\ orders[m] \in TraderOrder
      /\ mem[s][t] \in Rows(Ids) /\ mem[s][m] \in Rows(Ids)
  BY MatchFacts
<1>2. CanTrade(orders[t], orders[m])
  BY DEF TypeOK, Ready
<1>3. Good(t, mem[s][t]) /\ Good(m, mem[s][m])
  BY <1>1 DEF AllGood, Copies
<1>4. \A k \in {t, m} : /\ FullVolume(orders[k], mem[s][k]) \in Nat
                        /\ orders[k].volume \in Int /\ mem[s][k].exchanged \in Int
  <2>1. SUFFICES ASSUME NEW k \in {t, m}
                 PROVE  /\ FullVolume(orders[k], mem[s][k]) \in Nat
                        /\ orders[k].volume \in Int /\ mem[s][k].exchanged \in Int
    OBVIOUS
  <2>2. orders[k] \in TraderOrder /\ mem[s][k] \in Rows(Ids) /\ Good(k, mem[s][k])
    BY <1>1, <1>3
  <2>3. orders[k].volume \in Int /\ mem[s][k].exchanged \in Int
    BY <2>2 DEF TraderOrder, MarketOrder, LimitOrder, Rows
  <2> QED
    BY <2>2, <2>3, OpenVolumeNat DEF Good
<1>5. v \in Nat /\ v =< FullVolume(orders[t], mem[s][t]) /\ v =< FullVolume(orders[m], mem[s][m])
  BY <1>4, ExchangeVolumeBounds DEF ExchangeVolume
<1> HIDE DEF v
<1>6. ASSUME NEW k \in {t, m}, NEW other \in {t, m}, k # other
      PROVE  Good(k, Exchange1(orders[k], mem[s][k], v, other))
  <2> DEFINE e == Exchange1(orders[k], mem[s][k], v, other)
  <2>1. /\ e.exchanged = mem[s][k].exchanged + v
        /\ e.matched = mem[s][k].matched \cup {other}
        /\ e.status = IF mem[s][k].exchanged + v = orders[k].volume THEN "Done" ELSE mem[s][k].status
    BY <1>1, <1>5, Exchange1Typed
  <2> HIDE DEF e
  <2>2. Good(k, mem[s][k])
    BY <1>3
  <2>3. 0 =< e.exchanged /\ e.exchanged =< orders[k].volume
    BY <1>4, <1>5, <2>1, <2>2 DEF Good, FullVolume
  <2>4. e.status = "Done" => e.exchanged = orders[k].volume
    BY <1>4, <1>5, <2>1, <2>2, <2>3 DEF Good, FullVolume
  <2>5. CanTrade(orders[k], orders[other]) \/ CanTrade(orders[other], orders[k])
    BY <1>2, <1>6
  <2>6. \A i \in e.matched :
          /\ i \in Known
          /\ CanTrade(orders[k], orders[i]) \/ CanTrade(orders[i], orders[k])
    BY <1>1, <2>1, <2>2, <2>5 DEF Good
  <2>7. Good(k, e)
    BY <2>3, <2>4, <2>6 DEF Good
  <2> QED
    BY <2>7 DEF e
<1>7. t # m
  BY MatchFacts
<1> QED
  BY <1>6, <1>7 DEF v

\* Cancelling a good copy leaves it good.
LEMMA CancelGood ==
    ASSUME TypeOK, AllGood, NEW s \in Sessions, pc[s] \in Matching,
           NEW k \in {taker[s], maker[s]}
    PROVE  Good(k, [mem[s][k] EXCEPT !.status = "Canceled"])
<1>1. k \in Known /\ mem[s][k] \in Rows(Ids)
  BY MatchFacts
<1>2. Good(k, mem[s][k])
  BY <1>1 DEF AllGood, Copies
<1> QED
  BY <1>1, <1>2 DEF Good, Rows

LEMMA MatchKeepsGood ==
    ASSUME TypeOK, TypeOK', AllGood, NEW s \in Sessions, CheckTaker(s) \/ CheckMaker(s)
    PROVE  AllGood'
<1> DEFINE t == taker[s]
           m == maker[s]
<1>1. pc[s] \in Matching
  BY DEF CheckTaker, CheckMaker, Matching
<1>2. /\ UNCHANGED << orders, statusRow, traderRow >> /\ Extended
  BY DEF CheckTaker, CheckMaker, store, Extended, Known
<1>3. Known' = Known /\ Known \subseteq Ids
  BY <1>2, ExecutorAssumption DEF TypeOK, Types, Known, Ids
<1>4. t \in Ids /\ m \in Ids /\ t \in Known /\ m \in Known
  BY <1>1, MatchFacts
<1>5. ASSUME \A r \in Sessions \ {s} : mem'[r] = mem[r],
             \A id \in Ids : mem'[s][id] # mem[s][id] => id \in {t, m} /\ Good(id, mem'[s][id])
      PROVE  AllGood'
  <2>1. ASSUME NEW id \in Known', NEW r \in Copies(id)'
        PROVE  r \in Copies(id) \/ Good(id, r)
    BY <1>2, <1>3, <1>5, <2>1 DEF Copies
  <2> QED
    BY <1>2, <1>3, <2>1, KeepGood
<1>6. ASSUME NEW k \in {t, m}, Cancel(s, k) PROVE AllGood'
  <2>1. mem' = [mem EXCEPT ![s] = [mem[s] EXCEPT ![k] = [mem[s][k] EXCEPT !.status = "Canceled"]]]
    BY <1>6 DEF Cancel, TypeOK, Types
  <2>2. Good(k, [mem[s][k] EXCEPT !.status = "Canceled"])
    BY <1>1, CancelGood
  <2>3. /\ \A r \in Sessions \ {s} : mem'[r] = mem[r]
        /\ \A id \in Ids \ {k} : mem'[s][id] = mem[s][id]
        /\ mem'[s][k] = [mem[s][k] EXCEPT !.status = "Canceled"]
    BY <1>4, <2>1 DEF TypeOK, Types
  <2> QED
    BY <1>5, <2>2, <2>3
<1>7. CASE CheckTaker(s) /\ Affordable(s, t)
  BY <1>5, <1>7 DEF CheckTaker
<1>8. CASE CheckTaker(s) /\ ~ Affordable(s, t)
  BY <1>6, <1>8 DEF CheckTaker
<1>9. CASE CheckMaker(s) /\ ~ Affordable(s, m)
  BY <1>6, <1>9 DEF CheckMaker
<1>10. CASE CheckMaker(s) /\ Affordable(s, m)
  <2>1. pc[s] = "check2"
    BY <1>10 DEF CheckMaker
  <2>2. /\ mem'[s][t] = Exchange1(orders[t], mem[s][t], ExchangeVolume(s), m)
        /\ mem'[s][m] = Exchange1(orders[m], mem[s][m], ExchangeVolume(s), t)
        /\ \A id \in Ids \ {t, m} : mem'[s][id] = mem[s][id]
        /\ \A r \in Sessions \ {s} : mem'[r] = mem[r]
    BY <1>10, <2>1, MatchStep
  <2>3. Good(t, mem'[s][t]) /\ Good(m, mem'[s][m])
    BY <1>1, <2>2, MatchGood
  <2> QED
    BY <1>5, <2>2, <2>3
<1> QED
  BY <1>7, <1>8, <1>9, <1>10

LEMMA UpdateKeepsGood ==
    ASSUME TypeOK, TypeOK', AllGood, NEW s \in Sessions,
           UpdateReplace(s) \/ UpdateSame(s) \/ UpdateDelete(s) \/ UpdateInsert(s)
    PROVE  AllGood'
<1> DEFINE k == Head(upd[s])
<1>1. /\ k \in Ids /\ mem[s][k].status \in OrderStatus
      /\ old[s] \in OrderStatus
  BY UpdateFacts DEF UpdateReplace, UpdateSame, UpdateDelete, UpdateInsert, Updating, TypeOK, Types
<1>2. UNCHANGED << orders, mem >> /\ Extended
  BY DEF UpdateReplace, UpdateSame, UpdateDelete, UpdateInsert, loops, Extended, Known
<1>3. \A r \in Sessions, id \in Ids : mem[r][id] \in Copies(id)
  BY DEF Copies
<1>4. \A id \in Ids : traderRow'[id] \in {traderRow[id], mem[s][id]}
  BY <1>1 DEF UpdateReplace, UpdateSame, UpdateDelete, UpdateInsert, TypeOK, Types
<1>5. \A st \in OrderStatus, id \in Ids : statusRow'[st][id] \in {statusRow[st][id], mem[s][id], NoRow}
  <2>1. CASE UpdateReplace(s)
    BY <2>1 DEF UpdateReplace
  <2>2. CASE UpdateSame(s)
    BY <1>1, <2>2 DEF UpdateSame, TypeOK, Types
  <2>3. CASE UpdateDelete(s)
    BY <1>1, <2>3 DEF UpdateDelete, TypeOK, Types
  <2>4. CASE UpdateInsert(s)
    BY <1>1, <2>4 DEF UpdateInsert, TypeOK, Types
  <2> QED
    BY <2>1, <2>2, <2>3, <2>4
<1>6. /\ \A id \in Ids : traderRow[id] \in Copies(id)
      /\ \A st \in OrderStatus, id \in Ids : statusRow[st][id] \in Copies(id)
  BY DEF Copies
<1> QED
  BY <1>2, <1>3, <1>4, <1>5, <1>6, CopiesKept

LEMMA NextGood ==
    ASSUME TypeOK, AllGood, [Next]_vars
    PROVE  AllGood'
<1>1. TypeOK'
  BY NextTypes
<1>2. /\ \A r \in Sessions, id \in Ids : mem[r][id] \in Copies(id)
      /\ \A id \in Ids : traderRow[id] \in Copies(id)
      /\ \A st \in OrderStatus, id \in Ids : statusRow[st][id] \in Copies(id)
  BY DEF Copies
<1>3. ASSUME orders' = orders, UNCHANGED << statusRow, traderRow, mem >> PROVE AllGood'
  <2>1. Extended
    BY <1>3 DEF Extended, Known
  <2> QED
    BY <1>1, <1>2, <1>3, <2>1, CopiesKept
<1>4. ASSUME NEW s \in Sessions, Forget(s) PROVE AllGood'
  <2>1. Extended
    BY <1>4 DEF Forget, store, Extended, Known
  <2>2. \A r \in Sessions, id \in Ids : mem'[r][id] \in {mem[r][id], NoRow}
    BY <1>4 DEF Forget, TypeOK, Types, Blank
  <2>3. UNCHANGED << statusRow, traderRow >>
    BY <1>4 DEF Forget, store
  <2> QED
    BY <1>1, <1>2, <2>1, <2>2, <2>3, CopiesKept
<1>5. ASSUME NEW s \in Sessions, GenerateId(s) PROVE AllGood'
  <2>1. /\ orders' = Append(orders, Head(draft[s])) /\ orders \in Seq(TraderOrder)
        /\ UNCHANGED << statusRow, traderRow, mem >>
        /\ draft[s] \in Seq(TraderOrder) /\ draft[s] # <<>>
    BY <1>5 DEF GenerateId, loops, TypeOK, Types, Ready
  <2>2. Head(draft[s]) \in TraderOrder
    BY <2>1, HeadTail
  <2>3. Len(orders') = Len(orders) + 1 /\ \A k \in Known : orders'[k] = orders[k]
    BY <2>1, <2>2 DEF Known
  <2>4. Extended
    <3>1. Len(orders) \in Nat
      BY <2>1, LenProperties
    <3> QED
      BY <2>3, <3>1 DEF Extended, Known
  <2> QED
    BY <1>1, <1>2, <2>1, <2>4, CopiesKept
<1>6. ASSUME NEW s \in Sessions, RegisterStatus(s) \/ RegisterTrader(s) PROVE AllGood'
  <2>1. UNCHANGED << orders, mem >> /\ Extended
    BY <1>6 DEF RegisterStatus, RegisterTrader, loops, Extended, Known
  <2>2. Head(regs[s]) \in Ids
    BY <1>6, HeadTail DEF RegisterStatus, RegisterTrader, TypeOK, Types, Ready
  <2>3. \A id \in Ids : traderRow'[id] \in {traderRow[id], Fresh}
    BY <1>6, <2>2 DEF RegisterStatus, RegisterTrader, TypeOK, Types
  <2>4. \A st \in OrderStatus, id \in Ids : statusRow'[st][id] \in {statusRow[st][id], Fresh}
    BY <1>6, <2>2 DEF RegisterStatus, RegisterTrader, TypeOK, Types, OrderStatus
  <2> QED
    BY <1>1, <1>2, <2>1, <2>3, <2>4, CopiesKept
<1>7. ASSUME NEW s \in Sessions, Load(s) PROVE AllGood'
  <2>1. UNCHANGED << orders, statusRow, traderRow >> /\ Extended
    BY <1>7 DEF Load, store, Extended, Known
  <2>2. \A r \in Sessions, id \in Ids : mem'[r][id] \in {mem[r][id], statusRow["Registered"][id]}
    BY <1>7 DEF Load, TypeOK, Types
  <2>3. "Registered" \in OrderStatus
    BY DEF OrderStatus
  <2> QED
    BY <1>1, <1>2, <2>1, <2>2, <2>3, CopiesKept
<1>8. ASSUME NEW s \in Sessions, Step(s) PROVE AllGood'
  <2>1. CASE NextMarket(s) \/ BeginLimits(s) \/ NextBuy(s) \/ Pick(s)
    BY <1>3, <2>1 DEF NextMarket, BeginLimits, NextBuy, Pick, store
  <2>2. CASE EndPass(s)
    BY <1>4, <2>2 DEF EndPass
  <2>3. CASE Settle(s)
    BY <1>3, <2>3 DEF Settle, loops
  <2>4. CASE CheckTaker(s) \/ CheckMaker(s)
    BY <1>1, <2>4, MatchKeepsGood
  <2>5. CASE UpdateReplace(s) \/ UpdateSame(s) \/ UpdateDelete(s) \/ UpdateInsert(s)
    BY <1>1, <2>5, UpdateKeepsGood
  <2> QED
    BY <1>5, <1>6, <1>7, <1>8, <2>1, <2>2, <2>3, <2>4, <2>5 DEF Step
<1>9. ASSUME NEW s \in Sessions, NEW req \in Requests, Submit(s, req) PROVE AllGood'
  BY <1>3, <1>9 DEF Submit, store, loops
<1>10. ASSUME NEW t \in Traders, NEW c \in Currencies, NEW amount \in DepositAmounts,
              Deposit(t, c, amount)
       PROVE  AllGood'
  BY <1>3, <1>10 DEF Deposit, loops
<1>11. CASE UNCHANGED vars
  BY <1>3, <1>11 DEF vars, store, loops
<1> QED
  BY <1>4, <1>8, <1>9, <1>10, <1>11 DEF Next, Wait, Fail

LEMMA InitGood == Init => AllGood
  BY EmptySeq DEF Init, AllGood, Known

\* No copy of an order is ever filled beyond its volume, by however many sessions,
\* on however stale copies.
THEOREM NeverOverfilled == Spec => []NoOverfill
<1>1. Init => TypeOK /\ AllGood
  BY InitTypes, InitGood
<1>2. TypeOK /\ AllGood /\ [Next]_vars => (TypeOK /\ AllGood)'
  BY NextTypes, NextGood
<1>3. AllGood => NoOverfill
  BY AllGoodMeans
<1> QED
  BY <1>1, <1>2, <1>3, PTL DEF Spec

\* Every trade ever recorded is between orders of two traders that may trade.
THEOREM TradesAlwaysLegal == Spec => []TradesLegal
<1>1. Init => TypeOK /\ AllGood
  BY InitTypes, InitGood
<1>2. TypeOK /\ AllGood /\ [Next]_vars => (TypeOK /\ AllGood)'
  BY NextTypes, NextGood
<1>3. AllGood => TradesLegal
  BY AllGoodMeans
<1> QED
  BY <1>1, <1>2, <1>3, PTL DEF Spec

-----------------------------------------------------------------------------
(* NoOrderLost.                                                            *)

\* Only an order that has its id has a row, or is being inserted.
LEMMA RegisteredKnown ==
    ASSUME TypeOK, NEW id \in Ids, Registered(id)
    PROVE  id \in Known
<1>1. CASE traderRow[id] # NoRow
  BY <1>1 DEF TypeOK, OnlyKnown
<1>2. ASSUME NEW r \in Sessions, pc[r] = "insertTrader", Head(regs[r]) = id PROVE id \in Known
  <2>1. regs[r] \in Seq(Ids) /\ regs[r] # <<>>
    BY <1>2 DEF TypeOK, Types, Ready
  <2> QED
    BY <1>2, <2>1, HeadTail DEF TypeOK, OnlyKnown
<1> QED
  BY <1>1, <1>2 DEF Registered

\* A step keeps NoOrderLost when it lists what it registers and keeps what is
\* listed, or on its way, so.
LEMMA KeepListed ==
    ASSUME TypeOK, TypeOK', NoOrderLost, faults' = 0 => faults = 0,
           \A id \in Ids : Registered(id)' => Registered(id) \/ Listed(id)',
           \A id \in Ids : Listed(id) => Listed(id)' \/ InTransit(id)',
           \A id \in Ids : InTransit(id) => Listed(id)' \/ InTransit(id)'
    PROVE  NoOrderLost'
<1> SUFFICES ASSUME faults' = 0, NEW id \in Known', Registered(id)', ~ Listed(id)'
             PROVE  InTransit(id)'
  BY DEF NoOrderLost
<1>1. id \in Ids
  BY ExecutorAssumption DEF TypeOK, Types, Known, Ids
<1>2. Registered(id) /\ id \in Known
  BY <1>1, RegisteredKnown
<1>3. Listed(id) \/ InTransit(id)
  BY <1>2 DEF NoOrderLost
<1> QED
  BY <1>1, <1>3

\* The same when no status row disappears and no insert is under way.
LEMMA KeepRows ==
    ASSUME TypeOK, TypeOK', NoOrderLost, faults' = faults, NEW s \in Sessions,
           \A st \in OrderStatus, id \in Ids : statusRow[st][id] # NoRow => statusRow'[st][id] # NoRow,
           \A id \in Ids : traderRow'[id] # NoRow => Registered(id),
           pc[s] # "insert", pc'[s] # "insertTrader",
           \A r \in Sessions \ {s} : pc'[r] = pc[r] /\ regs'[r] = regs[r] /\ upd'[r] = upd[r]
    PROVE  NoOrderLost'
<1>1. \A id \in Ids : Registered(id)' => Registered(id)
  BY DEF Registered
<1>2. \A id \in Ids : Listed(id) => Listed(id)'
  BY DEF Listed
<1>3. \A id \in Ids : InTransit(id) => InTransit(id)'
  BY DEF InTransit
<1> QED
  BY <1>1, <1>2, <1>3, KeepListed

\* Registration lists an order before anything else knows it.
LEMMA RegistrationListed ==
    ASSUME TypeOK, TypeOK', NoOrderLost, NEW s \in Sessions, RegisterStatus(s) \/ RegisterTrader(s)
    PROVE  NoOrderLost'
<1> DEFINE k == Head(regs[s])
<1>1. k \in Ids
  BY HeadTail DEF RegisterStatus, RegisterTrader, TypeOK, Types, Ready
<1>2. faults' = faults /\ upd' = upd
  BY DEF RegisterStatus, RegisterTrader, counters, posting
<1>3. CASE RegisterStatus(s)
  <2>1. /\ statusRow' = [statusRow EXCEPT !["Registered"] = [statusRow["Registered"] EXCEPT ![k] = Fresh]]
        /\ traderRow' = traderRow /\ regs' = regs
        /\ pc' = [pc EXCEPT ![s] = "insertTrader"] /\ pc[s] = "insertStatus"
    BY <1>3 DEF RegisterStatus, TypeOK, Types
  <2>2. \A st \in OrderStatus, id \in Ids :
           statusRow'[st][id] = IF st = "Registered" /\ id = k THEN Fresh ELSE statusRow[st][id]
    BY <1>1, <2>1 DEF TypeOK, Types
  <2>3. \A id \in Ids : id = k => Listed(id)'
    BY <1>1, <2>2 DEF Listed, OrderStatus, Fresh, NoRow
  <2>4. \A id \in Ids : Registered(id)' => Registered(id) \/ id = k
    BY <2>1 DEF Registered, TypeOK, Types
  <2>5. \A id \in Ids : Listed(id) => Listed(id)'
    BY <2>2, <2>3 DEF Listed
  <2>6. \A id \in Ids : InTransit(id) => InTransit(id)'
    BY <1>2, <2>1 DEF InTransit, TypeOK, Types
  <2> QED
    BY <1>2, <2>3, <2>4, <2>5, <2>6, KeepListed
<1>4. CASE RegisterTrader(s)
  <2>1. /\ traderRow' = [traderRow EXCEPT ![k] = Fresh] /\ statusRow' = statusRow
        /\ pc[s] = "insertTrader" /\ pc'[s] # "insertTrader"
        /\ \A r \in Sessions \ {s} : pc'[r] = pc[r] /\ regs'[r] = regs[r]
    BY <1>4 DEF RegisterTrader, TypeOK, Types
  <2>2. \A id \in Ids : traderRow'[id] # NoRow => Registered(id)
    BY <2>1 DEF Registered, TypeOK, Types
  <2> QED
    BY <1>2, <2>1, <2>2, KeepRows
<1> QED
  BY <1>3, <1>4

\* UpdateOrderAsync only ever moves rows that a session then inserts again.
LEMMA UpdateListed ==
    ASSUME TypeOK, TypeOK', NoOrderLost, NEW s \in Sessions,
           UpdateReplace(s) \/ UpdateSame(s) \/ UpdateDelete(s) \/ UpdateInsert(s)
    PROVE  NoOrderLost'
<1> DEFINE k == Head(upd[s])
<1>1. /\ pc[s] \in Updating /\ k \in Ids /\ mem[s][k].status \in OrderStatus
      /\ mem[s][k] # NoRow /\ old[s] \in OrderStatus
  BY UpdateFacts DEF UpdateReplace, UpdateSame, UpdateDelete, UpdateInsert, Updating, TypeOK, Types, NoRow, OrderStatus
<1>2. faults' = faults /\ regs' = regs
  BY DEF UpdateReplace, UpdateSame, UpdateDelete, UpdateInsert, counters
<1>3. \A r \in Sessions \ {s} : pc'[r] = pc[r] /\ upd'[r] = upd[r]
  BY DEF UpdateReplace, UpdateSame, UpdateDelete, UpdateInsert, Updated, posting, TypeOK, Types
<1>4. pc'[s] # "insertTrader"
  BY DEF UpdateReplace, UpdateSame, UpdateDelete, UpdateInsert, Updated, TypeOK, Types
<1>5. CASE UpdateReplace(s)
  <2>1. statusRow' = statusRow /\ pc[s] # "insert"
    BY <1>5 DEF UpdateReplace
  <2>2. \A id \in Ids : traderRow'[id] # NoRow => traderRow[id] # NoRow
    BY <1>1, <1>5 DEF UpdateReplace, TypeOK, Types
  <2> QED
    BY <1>2, <1>3, <1>4, <2>1, <2>2, KeepRows DEF Registered
<1>6. CASE UpdateSame(s)
  <2>1. traderRow' = traderRow /\ pc[s] # "insert"
    BY <1>6 DEF UpdateSame
  <2>2. \A st \in OrderStatus, id \in Ids : statusRow[st][id] # NoRow => statusRow'[st][id] # NoRow
    BY <1>1, <1>6 DEF UpdateSame, TypeOK, Types
  <2> QED
    BY <1>2, <1>3, <1>4, <2>1, <2>2, KeepRows DEF Registered
<1>7. CASE UpdateDelete(s)
  <2>1. /\ traderRow' = traderRow /\ upd' = upd /\ pc'[s] = "insert"
        /\ statusRow' = [statusRow EXCEPT ![old[s]] = [statusRow[old[s]] EXCEPT ![k] = NoRow]]
    BY <1>7 DEF UpdateDelete, posting, TypeOK, Types
  <2>2. \A st \in OrderStatus, id \in Ids \ {k} : statusRow'[st][id] = statusRow[st][id]
    BY <1>1, <2>1 DEF TypeOK, Types
  <2>3. \A id \in Ids : id = k => InTransit(id)'
    BY <2>1 DEF InTransit
  <2>4. \A id \in Ids : Listed(id) => Listed(id)' \/ InTransit(id)'
    BY <2>2, <2>3 DEF Listed
  <2>5. \A id \in Ids : InTransit(id) => InTransit(id)'
    BY <1>3, <1>7, <2>1 DEF InTransit, UpdateDelete
  <2>6. \A id \in Ids : Registered(id)' => Registered(id)
    BY <1>2, <1>3, <1>4, <2>1 DEF Registered
  <2> QED
    BY <1>2, <2>4, <2>5, <2>6, KeepListed
<1>8. CASE UpdateInsert(s)
  <2>1. /\ traderRow' = traderRow
        /\ statusRow' = [statusRow EXCEPT ![mem[s][k].status] =
                            [statusRow[mem[s][k].status] EXCEPT ![k] = mem[s][k]]]
    BY <1>8 DEF UpdateInsert, TypeOK, Types
  <2>2. \A st \in OrderStatus, id \in Ids :
           statusRow'[st][id] = IF st = mem[s][k].status /\ id = k THEN mem[s][k] ELSE statusRow[st][id]
    BY <1>1, <2>1 DEF TypeOK, Types
  <2>3. \A id \in Ids : id = k => Listed(id)'
    BY <1>1, <2>2 DEF Listed
  <2>4. \A id \in Ids : Listed(id) => Listed(id)'
    BY <1>1, <2>2 DEF Listed
  <2>5. \A id \in Ids \ {k} : InTransit(id) => InTransit(id)'
    BY <1>3 DEF InTransit
  <2>6. \A id \in Ids : Registered(id)' => Registered(id)
    BY <1>2, <1>3, <1>4, <2>1 DEF Registered
  <2> QED
    BY <1>2, <2>3, <2>4, <2>5, <2>6, KeepListed
<1> QED
  BY <1>5, <1>6, <1>7, <1>8

LEMMA NextListed ==
    ASSUME TypeOK, NoOrderLost, [Next]_vars
    PROVE  NoOrderLost'
<1>1. TypeOK'
  BY NextTypes
<1>2. ASSUME NEW s \in Sessions, UNCHANGED << statusRow, traderRow, faults >>,
             pc[s] # "insert", pc'[s] # "insertTrader",
             \A r \in Sessions \ {s} : pc'[r] = pc[r] /\ regs'[r] = regs[r] /\ upd'[r] = upd[r]
      PROVE  NoOrderLost'
  BY <1>1, <1>2, KeepRows DEF Registered
<1>3. ASSUME UNCHANGED << statusRow, traderRow, faults, pc, regs, upd >>
      PROVE  NoOrderLost'
  <2>1. \A id \in Ids : /\ Registered(id)' => Registered(id)
                        /\ Listed(id) => Listed(id)'
                        /\ InTransit(id) => InTransit(id)'
    BY <1>3 DEF Registered, Listed, InTransit
  <2> QED
    BY <1>1, <1>3, <2>1, KeepListed
<1>4. ASSUME NEW s \in Sessions, Step(s) PROVE NoOrderLost'
  <2>1. CASE GenerateId(s)
    BY <1>2, <2>1 DEF GenerateId, counters, posting, TypeOK, Types
  <2>2. CASE Load(s)
    BY <1>2, <2>2 DEF Load, store, counters, posting, TypeOK, Types
  <2>3. CASE NextMarket(s) \/ BeginLimits(s) \/ NextBuy(s)
    BY <1>3, <2>3 DEF NextMarket, BeginLimits, NextBuy, store, counters, posting
  <2>4. CASE Pick(s)
    BY <1>2, <2>4 DEF Pick, store, counters, posting, TypeOK, Types
  <2>5. CASE EndPass(s)
    BY <1>2, <2>5 DEF EndPass, Forget, store, counters, TypeOK, Types
  <2>6. CASE CheckTaker(s)
    BY <1>2, <2>6 DEF CheckTaker, Cancel, store, counters, TypeOK, Types
  <2>7. CASE CheckMaker(s)
    BY <1>2, <2>7 DEF CheckMaker, Cancel, store, counters, TypeOK, Types
  <2>8. CASE Settle(s)
    BY <1>2, <2>8 DEF Settle, counters, TypeOK, Types
  <2>9. CASE RegisterStatus(s) \/ RegisterTrader(s)
    BY <1>1, <2>9, RegistrationListed
  <2>10. CASE UpdateReplace(s) \/ UpdateSame(s) \/ UpdateDelete(s) \/ UpdateInsert(s)
    BY <1>1, <2>10, UpdateListed
  <2> QED
    BY <1>4, <2>1, <2>2, <2>3, <2>4, <2>5, <2>6, <2>7, <2>8, <2>9, <2>10 DEF Step
<1>5. ASSUME NEW s \in Sessions, NEW req \in Requests, Submit(s, req) PROVE NoOrderLost'
  BY <1>2, <1>5 DEF Submit, store, posting, TypeOK, Types
<1>6. ASSUME NEW s \in Sessions, Fail(s) PROVE NoOrderLost'
  BY <1>6 DEF Fail, NoOrderLost, TypeOK, Types
<1>7. ASSUME NEW t \in Traders, NEW c \in Currencies, NEW amount \in DepositAmounts,
             Deposit(t, c, amount)
      PROVE  NoOrderLost'
  BY <1>3, <1>7 DEF Deposit, posting
<1>8. CASE UNCHANGED vars
  BY <1>3, <1>8 DEF vars, store, counters, posting
<1> QED
  BY <1>4, <1>5, <1>6, <1>7, <1>8 DEF Next, Wait

\* However sessions interleave their updates, a registered order is always in some
\* status partition, or a session is about to put it there.
THEOREM NoOrderEverLost == Spec => []NoOrderLost
<1>1. Init => TypeOK /\ NoOrderLost
  BY InitTypes, EmptySeq DEF Init, NoOrderLost, Known
<1>2. TypeOK /\ NoOrderLost /\ [Next]_vars => (TypeOK /\ NoOrderLost)'
  BY NextTypes, NextListed
<1> QED
  BY <1>1, <1>2, PTL DEF Spec

-----------------------------------------------------------------------------
(* Prices.                                                                 *)

\* The volume of a match, and the price: that of one of the two limit orders.
LEMMA MatchTerms ==
    ASSUME TypeOK, AllGood, NEW s \in Sessions, pc[s] \in Matching
    PROVE  /\ ExchangeVolume(s) \in Nat
           /\ ExchangePrice(s) \in Nat \ {0}
           /\ \A k \in {taker[s], maker[s]} :
                 /\ ExchangeVolume(s) =< FullVolume(orders[k], mem[s][k])
                 /\ FullVolume(orders[k], mem[s][k]) \in Nat
                 /\ Amount(s, k) \in Nat
           /\ \/ ExchangeVolume(s) = FullVolume(orders[taker[s]], mem[s][taker[s]])
              \/ ExchangeVolume(s) = FullVolume(orders[maker[s]], mem[s][maker[s]])
<1>1. ASSUME NEW k \in {taker[s], maker[s]} PROVE FullVolume(orders[k], mem[s][k]) \in Nat
  <2>1. k \in Known /\ k \in Ids /\ orders[k] \in TraderOrder /\ mem[s][k] \in Rows(Ids)
    BY MatchFacts
  <2>2. Good(k, mem[s][k])
    BY <2>1 DEF AllGood, Copies
  <2> QED
    BY <2>1, <2>2, OpenVolumeNat DEF Good, Rows
<1>2. /\ ExchangeVolume(s) \in Nat
      /\ \A k \in {taker[s], maker[s]} : ExchangeVolume(s) =< FullVolume(orders[k], mem[s][k])
      /\ \/ ExchangeVolume(s) = FullVolume(orders[taker[s]], mem[s][taker[s]])
         \/ ExchangeVolume(s) = FullVolume(orders[maker[s]], mem[s][maker[s]])
  BY <1>1 DEF ExchangeVolume, GetExchangeVolume
<1>3. ExchangePrice(s) \in Nat \ {0}
  <2>1. orders[maker[s]].kind = "Limit"
    BY TradersDiffer DEF TypeOK, Ready
  <2> QED
    BY <2>1, MatchFacts, OrderPricePositive DEF ExchangePrice
<1> QED
  BY <1>1, <1>2, <1>3, BaseAmountNat DEF Amount

\* Between two limit orders that cross, either price is at least as good for both
\* as their own.
LEMMA PriceBetween ==
    ASSUME NEW o \in TraderOrder, NEW l \in TraderOrder, CanTrade(o, l), NEW i, NEW j,
           NEW x \in {o, l}, x.kind = "Limit"
    PROVE  LET p == GetOrderPrice(i, o, j, l)
           IN  IF x.action = "Buy" THEN p =< x.price ELSE p >= x.price
<1>1. /\ l.kind = "Limit" /\ o.action # l.action
      /\ o.kind = "Limit" => IF o.action = "Buy" THEN o.price >= l.price ELSE o.price =< l.price
  BY DEF CanTrade
<1>2. /\ o.action \in {"Buy", "Sell"} /\ l.action \in {"Buy", "Sell"}
      /\ o.price \in Nat /\ l.price \in Nat
  BY DEF TraderOrder, MarketOrder, LimitOrder
<1>3. \/ o.kind = "Limit" /\ GetOrderPrice(i, o, j, l) = o.price
      \/ GetOrderPrice(i, o, j, l) = l.price
  BY DEF GetOrderPrice
<1> DEFINE Fits(p) == IF x.action = "Buy" THEN p =< x.price ELSE p >= x.price
<1>4. Fits(l.price)
  <2>1. CASE x = o
    BY <1>1, <1>2, <2>1
  <2>2. CASE x = l
    BY <1>2, <2>2
  <2> QED
    BY <2>1, <2>2
<1>5. o.kind = "Limit" => Fits(o.price)
  <2>1. CASE x = o
    BY <1>2, <2>1
  <2>2. CASE x = l
    BY <1>1, <1>2, <2>2
  <2> QED
    BY <2>1, <2>2
<1> HIDE DEF Fits
<1>6. Fits(GetOrderPrice(i, o, j, l))
  BY <1>3, <1>4, <1>5
<1> QED
  BY <1>6 DEF Fits

\* Whatever stale copies a match is made from, no limit order pays more, or gets
\* less, than its own price says.
THEOREM LimitsHonoured == Spec => LimitHonoured
<1>1. Init => TypeOK /\ AllGood
  BY InitTypes, InitGood
<1>2. TypeOK /\ AllGood /\ [Next]_vars => (TypeOK /\ AllGood)'
  BY NextTypes, NextGood
<1>3. TypeOK /\ AllGood =>
        \A s \in Sessions : Matches(s) =>
          \A id \in {taker[s], maker[s]} :
             LET own == BaseAmount(orders[id], ExchangeVolume(s), orders[id].price)
             IN  orders[id].kind = "Limit" /\ orders[id].ccy = BaseOf[orders[id].asset] =>
                    IF orders[id].action = "Buy" THEN Amount(s, id) =< own
                                                 ELSE Amount(s, id) >= own
  <2> SUFFICES ASSUME TypeOK, AllGood, NEW s \in Sessions, pc[s] = "check2",
                      NEW id \in {taker[s], maker[s]},
                      orders[id].kind = "Limit", orders[id].ccy = BaseOf[orders[id].asset]
               PROVE  LET own == BaseAmount(orders[id], ExchangeVolume(s), orders[id].price)
                      IN  IF orders[id].action = "Buy" THEN Amount(s, id) =< own
                                                       ELSE Amount(s, id) >= own
    BY DEF Matches
  <2> DEFINE v == ExchangeVolume(s)
             p == ExchangePrice(s)
             q == orders[id].price
  <2>1. pc[s] \in Matching
    BY DEF Matching
  <2>2. v \in Nat /\ p \in Nat
    BY <2>1, MatchTerms
  <2>3. orders[taker[s]] \in TraderOrder /\ orders[maker[s]] \in TraderOrder /\ q \in Nat
    <3>1. orders[taker[s]] \in TraderOrder /\ orders[maker[s]] \in TraderOrder
      BY <2>1, MatchFacts
    <3> QED
      BY <3>1 DEF TraderOrder, MarketOrder, LimitOrder
  <2>4. CanTrade(orders[taker[s]], orders[maker[s]])
    BY <2>1 DEF TypeOK, Ready
  <2>5. IF orders[id].action = "Buy" THEN p =< q ELSE p >= q
    BY <2>3, <2>4, PriceBetween DEF ExchangePrice
  <2>6. Amount(s, id) = BaseAmount(orders[id], v, p)
    BY DEF Amount
  <2>7. \A x, y \in Nat : x =< y => BaseAmount(orders[id], v, x) =< BaseAmount(orders[id], v, y)
    BY <2>2, BaseAmountMonotone
  <2> HIDE DEF v, p, q
  <2> QED
    BY <2>2, <2>3, <2>5, <2>6, <2>7 DEF v, q
<1> QED
  BY <1>1, <1>2, <1>3, PTL DEF Spec, LimitHonoured

-----------------------------------------------------------------------------
(* Money.                                                                  *)

\* What one posting adds to the balance of t in c.
Share(p, t, c) == IF p.trader = t /\ p.ccy = c THEN p.delta ELSE 0

LEMMA OwedNothing ==
    ASSUME NEW t, NEW c
    PROVE  Owed(<<>>, t, c) = 0
<1> DEFINE K == {k \in DOMAIN <<>> : <<>>[k].trader = t /\ <<>>[k].ccy = c}
<1>1. K = {}
  OBVIOUS
<1>2. \A f : SumFunctionOnSet(f, {}) = 0
  BY SumFacts, FS_EmptySet
<1> QED
  BY <1>1, <1>2 DEF Owed

\* A list of postings adds what its head adds and what its tail adds.
LEMMA OwedHead ==
    ASSUME NEW q \in Seq(Posting), NEW t, NEW c
    PROVE  /\ Owed(q, t, c) \in Int
           /\ q # <<>> => Owed(q, t, c) = Share(Head(q), t, c) + Owed(Tail(q), t, c)
<1> DEFINE Deltas(z) == [k \in DOMAIN z |-> z[k].delta]
           For(z) == {k \in DOMAIN z : z[k].trader = t /\ z[k].ccy = c}
<1>1. ASSUME NEW z \in Seq(Posting)
      PROVE  /\ IsFiniteSet(For(z)) /\ For(z) \subseteq Nat
             /\ \A k \in For(z) : Deltas(z)[k] \in Int
             /\ DOMAIN z = 1..Len(z) /\ Len(z) \in Nat
             /\ Owed(z, t, c) = SumFunctionOnSet(Deltas(z), For(z))
  <2>1. DOMAIN z = 1..Len(z) /\ Len(z) \in Nat
    OBVIOUS
  <2>2. IsFiniteSet(For(z)) /\ For(z) \subseteq Nat
    <3>1. IsFiniteSet(1..Len(z)) /\ For(z) \subseteq 1..Len(z)
      BY <2>1, FS_Interval
    <3> HIDE DEF For
    <3> QED
      BY <2>1, <3>1, FS_Subset
  <2>3. \A k \in DOMAIN z : z[k] \in Posting
    BY <2>1
  <2>4. \A k \in For(z) : Deltas(z)[k] \in Int
    BY <2>3 DEF Posting
  <2>5. Owed(z, t, c) = SumFunctionOnSet(Deltas(z), For(z))
    BY DEF Owed
  <2> HIDE DEF Deltas, For
  <2> QED
    BY <2>1, <2>2, <2>4, <2>5
<1>2. Owed(q, t, c) \in Int
  <2>1. /\ IsFiniteSet(For(q)) /\ \A k \in For(q) : Deltas(q)[k] \in Int
        /\ Owed(q, t, c) = SumFunctionOnSet(Deltas(q), For(q))
    BY <1>1
  <2> HIDE DEF Deltas, For
  <2> QED
    BY <2>1, SumFacts
<1>3. ASSUME q # <<>> PROVE Owed(q, t, c) = Share(Head(q), t, c) + Owed(Tail(q), t, c)
  <2> DEFINE r == Tail(q)
             Rest == {k + 1 : k \in For(r)}
  <2>1. /\ r \in Seq(Posting) /\ Head(q) = q[1] /\ Len(r) = Len(q) - 1 /\ 1 \in 1..Len(q)
        /\ \A k \in 1..Len(r) : r[k] = q[k + 1] /\ k + 1 \in 1..Len(q)
        /\ Len(q) \in Nat
    BY <1>3, HeadTail
  <2>2. \A k \in For(r) : Deltas(r)[k] \in Int /\ Deltas(q)[k + 1] = Deltas(r)[k]
    BY <1>1, <2>1
  <2>3. SumFunctionOnSet(Deltas(q), Rest) = Owed(r, t, c)
    <3>1. IsFiniteSet(For(r)) /\ For(r) \subseteq Nat /\ Owed(r, t, c) = SumFunctionOnSet(Deltas(r), For(r))
      BY <1>1, <2>1
    <3> HIDE DEF Deltas, For, r
    <3> QED
      BY <2>2, <3>1, SumShift
  <2>4. For(q) \ {1} = Rest
    <3>1. Rest \subseteq For(q) \ {1}
      BY <1>1, <2>1
    <3>2. ASSUME NEW k \in For(q) \ {1} PROVE k \in Rest
      <4>1. k - 1 \in 1..Len(r) /\ k = (k - 1) + 1
        BY <1>1, <2>1
      <4>2. k - 1 \in For(r)
        BY <1>1, <2>1, <4>1
      <4> QED
        BY <4>1, <4>2
    <3> QED
      BY <3>1, <3>2
  <2>5. CASE 1 \in For(q)
    <3>1. Share(Head(q), t, c) = Deltas(q)[1]
      BY <1>1, <2>1, <2>5 DEF Share
    <3>2. SumFunctionOnSet(Deltas(q), For(q)) = Deltas(q)[1] + SumFunctionOnSet(Deltas(q), For(q) \ {1})
      <4>1. /\ IsFiniteSet(For(q)) /\ \A k \in For(q) : Deltas(q)[k] \in Int
        BY <1>1
      <4> HIDE DEF Deltas, For
      <4> QED
        BY <4>1, <2>5, SumFacts
    <3> QED
      BY <1>1, <2>3, <2>4, <3>1, <3>2
  <2>6. CASE 1 \notin For(q)
    <3>1. Share(Head(q), t, c) = 0
      BY <1>1, <2>1, <2>6 DEF Share
    <3>2. For(q) = Rest
      BY <2>4, <2>6
    <3>3. Owed(q, t, c) = Owed(r, t, c)
      BY <1>1, <2>3, <3>2
    <3>4. Owed(r, t, c) \in Int
      <4>1. /\ IsFiniteSet(For(r)) /\ \A k \in For(r) : Deltas(r)[k] \in Int
            /\ Owed(r, t, c) = SumFunctionOnSet(Deltas(r), For(r))
        BY <1>1, <2>1
      <4> HIDE DEF Deltas, For
      <4> QED
        BY <4>1, SumFacts
    <3> QED
      BY <3>1, <3>3, <3>4
  <2> QED
    BY <2>5, <2>6
<1> QED
  BY <1>2, <1>3

\* What a match at "amount" in the base currency changes for t in c, of order o.
Part(o, amount, t, c) ==
    IF o.trader # t THEN 0
    ELSE IF c = QuotingOf[o.asset] THEN IF o.action = "Buy" THEN o.volume ELSE -o.volume
    ELSE IF c = BaseOf[o.asset] THEN IF o.action = "Buy" THEN -amount ELSE amount
    ELSE 0

LEMMA FourPostings ==
    ASSUME NEW p1 \in Posting, NEW p2 \in Posting, NEW p3 \in Posting, NEW p4 \in Posting,
           NEW t, NEW c
    PROVE  Owed(<< p1, p2, p3, p4 >>, t, c)
              = (Share(p1, t, c) + Share(p2, t, c)) + (Share(p3, t, c) + Share(p4, t, c))
<1>1. \A p \in Posting : Share(p, t, c) \in Int
  BY DEF Share, Posting
<1>2. /\ << p1, p2, p3, p4 >> \in Seq(Posting) /\ << p1, p2, p3, p4 >> # <<>>
      /\ Head(<< p1, p2, p3, p4 >>) = p1 /\ Tail(<< p1, p2, p3, p4 >>) = << p2, p3, p4 >>
  OBVIOUS
<1>3. /\ << p2, p3, p4 >> \in Seq(Posting) /\ << p2, p3, p4 >> # <<>>
      /\ Head(<< p2, p3, p4 >>) = p2 /\ Tail(<< p2, p3, p4 >>) = << p3, p4 >>
  OBVIOUS
<1>4. /\ << p3, p4 >> \in Seq(Posting) /\ << p3, p4 >> # <<>>
      /\ Head(<< p3, p4 >>) = p3 /\ Tail(<< p3, p4 >>) = << p4 >>
  OBVIOUS
<1>5. /\ << p4 >> \in Seq(Posting) /\ << p4 >> # <<>>
      /\ Head(<< p4 >>) = p4 /\ Tail(<< p4 >>) = <<>>
  OBVIOUS
<1>6. Owed(<< p1, p2, p3, p4 >>, t, c) = Share(p1, t, c) + Owed(<< p2, p3, p4 >>, t, c)
  BY <1>2, OwedHead
<1>7. Owed(<< p2, p3, p4 >>, t, c) = Share(p2, t, c) + Owed(<< p3, p4 >>, t, c)
  BY <1>3, OwedHead
<1>8. Owed(<< p3, p4 >>, t, c) = Share(p3, t, c) + Owed(<< p4 >>, t, c)
  BY <1>4, OwedHead
<1>9. Owed(<< p4 >>, t, c) = Share(p4, t, c)
  <2>1. Owed(<< p4 >>, t, c) = Share(p4, t, c) + Owed(<<>>, t, c)
    BY <1>5, OwedHead
  <2> QED
    BY <1>1, <2>1, OwedNothing
<1>10. /\ Share(p1, t, c) \in Int /\ Share(p2, t, c) \in Int
       /\ Share(p3, t, c) \in Int /\ Share(p4, t, c) \in Int
  BY <1>1
<1>11. Owed(<< p1, p2, p3, p4 >>, t, c)
          = Share(p1, t, c) + (Share(p2, t, c) + (Share(p3, t, c) + Share(p4, t, c)))
  BY <1>6, <1>7, <1>8, <1>9
<1> QED
  BY <1>10, <1>11

\* What the postings of one order add up to.
LEMMA PartOfTwo ==
    ASSUME NEW o \in TraderOrder, NEW amount \in Int, NEW t, NEW c
    PROVE  /\ Part(o, amount, t, c) \in Int
           /\ \E p, q \in Posting : /\ ChangeBalance(o, amount) = << p, q >>
                                    /\ Share(p, t, c) + Share(q, t, c) = Part(o, amount, t, c)
<1>1. /\ o.trader \in Traders /\ o.asset \in Assets /\ o.volume \in Int
      /\ o.action \in {"Buy", "Sell"}
  BY DEF TraderOrder, MarketOrder, LimitOrder
<1>2. /\ BaseOf[o.asset] \in Currencies /\ QuotingOf[o.asset] \in Currencies
      /\ BaseOf[o.asset] # QuotingOf[o.asset]
  BY <1>1, InstrumentAssumption
<1>3. \A d \in Currencies, x \in Int :
         /\ Post(o.trader, d, x) \in Posting
         /\ Share(Post(o.trader, d, x), t, c) = IF o.trader = t /\ d = c THEN x ELSE 0
  BY <1>1 DEF Post, Posting, Share
<1> DEFINE quoting == IF o.action = "Buy" THEN o.volume ELSE -o.volume
           base == IF o.action = "Buy" THEN -amount ELSE amount
           p == Post(o.trader, QuotingOf[o.asset], quoting)
           q == Post(o.trader, BaseOf[o.asset], base)
<1>4. quoting \in Int /\ base \in Int
  BY <1>1
<1>5. ChangeBalance(o, amount) = << p, q >>
  BY <1>1 DEF ChangeBalance
<1>6. Part(o, amount, t, c) = IF o.trader # t THEN 0
                              ELSE IF c = QuotingOf[o.asset] THEN quoting
                              ELSE IF c = BaseOf[o.asset] THEN base ELSE 0
  BY DEF Part
<1> HIDE DEF quoting, base
<1>7. p \in Posting /\ q \in Posting
  BY <1>2, <1>3, <1>4
<1>8. Share(p, t, c) + Share(q, t, c) = Part(o, amount, t, c)
  BY <1>2, <1>3, <1>4, <1>6
<1> QED
  BY <1>4, <1>5, <1>6, <1>7, <1>8

\* What a match has still to settle when nothing is settled yet.
LEMMA OwedByMatch ==
    ASSUME NEW o \in TraderOrder, NEW l \in TraderOrder, NEW x \in Int, NEW y \in Int, NEW t, NEW c
    PROVE  Owed(ChangeBalance(o, x) \o ChangeBalance(l, y), t, c) = Part(o, x, t, c) + Part(l, y, t, c)
<1>1. PICK p1 \in Posting, p2 \in Posting :
         /\ ChangeBalance(o, x) = << p1, p2 >>
         /\ Share(p1, t, c) + Share(p2, t, c) = Part(o, x, t, c)
  BY PartOfTwo
<1>2. PICK p3 \in Posting, p4 \in Posting :
         /\ ChangeBalance(l, y) = << p3, p4 >>
         /\ Share(p3, t, c) + Share(p4, t, c) = Part(l, y, t, c)
  BY PartOfTwo
<1> DEFINE q == << p1, p2 >> \o << p3, p4 >>
<1>3. q = << p1, p2, p3, p4 >>
  <2>1. /\ << p1, p2 >> \in Seq(Posting) /\ Len(<< p1, p2 >>) = 2
        /\ << p3, p4 >> \in Seq(Posting) /\ Len(<< p3, p4 >>) = 2
    OBVIOUS
  <2>2. /\ q \in Seq(Posting) /\ Len(q) = 4
        /\ q[1] = p1 /\ q[2] = p2 /\ q[3] = p3 /\ q[4] = p4
    BY <2>1, ConcatProperties
  <2> HIDE DEF q
  <2> QED
    BY <2>2
<1>4. Owed(q, t, c) = (Share(p1, t, c) + Share(p2, t, c)) + (Share(p3, t, c) + Share(p4, t, c))
  <2> HIDE DEF q
  <2>1. Owed(<< p1, p2, p3, p4 >>, t, c)
           = (Share(p1, t, c) + Share(p2, t, c)) + (Share(p3, t, c) + Share(p4, t, c))
    BY FourPostings
  <2> QED
    BY <1>3, <2>1
<1> QED
  BY <1>1, <1>2, <1>4

LEMMA LedgerTyped ==
    ASSUME IsFiniteSet(Sessions), Types, NEW t \in Traders, NEW c \in Currencies
    PROVE  LedgerOf(t, c) \in Int
<1> DEFINE f == [s \in Sessions |-> Owed(settle[s], t, c)]
<1>1. \A s \in Sessions : f[s] \in Int
  BY OwedHead DEF Types
<1>2. SumFunction(f) = SumFunctionOnSet(f, Sessions)
  BY DEF SumFunction
<1>3. SumFunctionOnSet(f, Sessions) \in Int
  <2> HIDE DEF f
  <2> QED
    BY <1>1, SumFacts
<1>4. balance[t][c] \in Int
  BY DEF Types
<1> QED
  BY <1>2, <1>3, <1>4 DEF LedgerOf

\* A step of session s changes a ledger by what it adds to the balance and to what
\* s still owes.
LEMMA LedgerChange ==
    ASSUME IsFiniteSet(Sessions), Types, Types', NEW s \in Sessions,
           \A r \in Sessions \ {s} : settle'[r] = settle[r],
           NEW t \in Traders, NEW c \in Currencies
    PROVE  LedgerOf(t, c)' = LedgerOf(t, c) + (balance'[t][c] - balance[t][c])
                                + (Owed(settle'[s], t, c) - Owed(settle[s], t, c))
<1> DEFINE f == [r \in Sessions |-> Owed(settle[r], t, c)]
           g == [r \in Sessions |-> Owed(settle'[r], t, c)]
<1>1. \A r \in Sessions : f[r] \in Int /\ g[r] \in Int
  BY OwedHead DEF Types
<1>2. \A r \in Sessions \ {s} : g[r] = f[r]
  OBVIOUS
<1>3. /\ LedgerOf(t, c) = balance[t][c] + SumFunctionOnSet(f, Sessions)
      /\ LedgerOf(t, c)' = balance'[t][c] + SumFunctionOnSet(g, Sessions)
  BY DEF LedgerOf, SumFunction
<1>4. f[s] = Owed(settle[s], t, c) /\ g[s] = Owed(settle'[s], t, c)
  OBVIOUS
<1> HIDE DEF f, g
<1>5. SumFunctionOnSet(g, Sessions) = SumFunctionOnSet(f, Sessions) + g[s] - f[s]
  BY <1>1, <1>2, SumChange
<1>6. SumFunctionOnSet(f, Sessions) \in Int
  BY <1>1, SumFacts
<1>7. balance[t][c] \in Int /\ balance'[t][c] \in Int
  BY DEF Types
<1> QED
  BY <1>1, <1>3, <1>4, <1>5, <1>6, <1>7

\* A step that touches neither balances nor what is owed.
LEMMA TotalSame ==
    ASSUME balance' = balance, settle' = settle, NEW c
    PROVE  Total(c)' = Total(c)
  BY DEF Total, LedgerOf

\* Between matches nothing is left to settle.
NothingOwed == \A s \in Sessions : pc[s] \notin Updating \cup {"settle"} => settle[s] = <<>>

LEMMA InitOwed == Init => NothingOwed
  BY DEF Init, NothingOwed

LEMMA NextOwed == TypeOK /\ NothingOwed /\ [Next]_vars => NothingOwed'
<1> SUFFICES ASSUME TypeOK, NothingOwed, [Next]_vars PROVE NothingOwed'
  OBVIOUS
<1> USE DEF NothingOwed, Updating
<1> DEFINE Others(s) == \A r \in Sessions \ {s} : pc'[r] = pc[r] /\ settle'[r] = settle[r]
           Rest(s) == pc'[s] \notin Updating \cup {"settle"} => settle'[s] = <<>>
<1>1. \A s \in Sessions : Others(s) /\ Rest(s) => NothingOwed'
  OBVIOUS
<1>2. CASE UNCHANGED vars
  BY <1>2 DEF vars, posting
<1>3. ASSUME NEW s \in Sessions, NEW req \in Requests, Submit(s, req) PROVE NothingOwed'
  BY <1>3 DEF Submit, posting, TypeOK, Types
<1>4. ASSUME NEW s \in Sessions, GenerateId(s) \/ RegisterStatus(s) \/ RegisterTrader(s) PROVE NothingOwed'
  BY <1>4 DEF GenerateId, RegisterStatus, RegisterTrader, posting, TypeOK, Types
<1>5. ASSUME NEW s \in Sessions, Load(s) \/ NextMarket(s) \/ BeginLimits(s) \/ NextBuy(s) \/ Pick(s)
      PROVE  NothingOwed'
  BY <1>5 DEF Load, NextMarket, BeginLimits, NextBuy, Pick, posting, TypeOK, Types
<1>6. ASSUME NEW s \in Sessions, EndPass(s) \/ Fail(s) PROVE NothingOwed'
  BY <1>6 DEF EndPass, Fail, Forget, TypeOK, Types
<1>7. ASSUME NEW s \in Sessions, CheckTaker(s) PROVE NothingOwed'
  BY <1>7 DEF CheckTaker, Cancel, TypeOK, Types
<1>8. ASSUME NEW s \in Sessions, CheckMaker(s) PROVE NothingOwed'
  <2>1. Others(s) /\ pc'[s] = "replace"
    BY <1>8 DEF CheckMaker, Cancel, TypeOK, Types
  <2> QED
    BY <2>1
<1>9. ASSUME NEW s \in Sessions, UpdateReplace(s) \/ UpdateSame(s) \/ UpdateDelete(s) \/ UpdateInsert(s)
      PROVE  NothingOwed'
  <2>1. settle' = settle
    BY <1>9 DEF UpdateReplace, UpdateSame, UpdateDelete, UpdateInsert, Updated, posting
  <2>2. CASE Updated(s)
    BY <2>1, <2>2 DEF Updated, TypeOK, Types
  <2>3. CASE UpdateReplace(s) \/ UpdateDelete(s)
    BY <2>1, <2>3 DEF UpdateReplace, UpdateDelete, Updated, TypeOK, Types
  <2> QED
    BY <1>9, <2>2, <2>3 DEF UpdateSame, UpdateInsert
<1>10. ASSUME NEW s \in Sessions, Settle(s) PROVE NothingOwed'
  <2>1. settle[s] \in Seq(Posting) /\ settle[s] # <<>>
    BY <1>10 DEF Settle, TypeOK, Types, Ready
  <2>2. Len(settle[s]) = 1 => Tail(settle[s]) = <<>>
    <3> DEFINE t == Tail(settle[s])
    <3>1. t \in Seq(Posting) /\ Len(t) = Len(settle[s]) - 1
      BY <2>1, HeadTail
    <3> HIDE DEF t
    <3>2. Len(settle[s]) = 1 => t = <<>>
      BY <3>1, EmptySeq
    <3> QED
      BY <3>2 DEF t
  <2>3. Others(s) /\ Rest(s)
    <3>1. /\ pc' = [pc EXCEPT ![s] = IF Len(settle[s]) = 1 THEN "next" ELSE "settle"]
          /\ settle' = [settle EXCEPT ![s] = Tail(@)]
      BY <1>10 DEF Settle
    <3>2. \A r \in Sessions \ {s} : pc'[r] = pc[r] /\ settle'[r] = settle[r]
      BY <3>1 DEF TypeOK, Types
    <3>3. /\ settle'[s] = Tail(settle[s])
          /\ pc'[s] = IF Len(settle[s]) = 1 THEN "next" ELSE "settle"
      BY <3>1 DEF TypeOK, Types
    <3> QED
      BY <2>2, <3>2, <3>3
  <2> QED
    BY <1>1, <2>3
<1>11. ASSUME NEW t \in Traders, NEW c \in Currencies, NEW a \in DepositAmounts, Deposit(t, c, a)
       PROVE  NothingOwed'
  BY <1>11 DEF Deposit, posting
<1>12. CASE Wait
  BY <1>12 DEF Wait, vars, posting
<1> QED
  BY <1>2, <1>3, <1>4, <1>5, <1>6, <1>7, <1>8, <1>9, <1>10, <1>11, <1>12 DEF Next, Step

\* Settling a posting moves it from what is owed to the balance.
LEMMA SettleKeepsLedgers ==
    ASSUME IsFiniteSet(Sessions), TypeOK, TypeOK', NEW s \in Sessions, Settle(s),
           NEW t \in Traders, NEW c \in Currencies
    PROVE  LedgerOf(t, c)' = LedgerOf(t, c)
<1> DEFINE p == Head(settle[s])
<1>1. settle[s] \in Seq(Posting) /\ settle[s] # <<>>
  BY DEF Settle, TypeOK, Types, Ready
<1>2. p \in Posting
  BY <1>1, HeadTail
<1>3. /\ balance' = [balance EXCEPT ![p.trader][p.ccy] = @ + p.delta]
      /\ settle' = [settle EXCEPT ![s] = Tail(@)]
  BY DEF Settle
<1>4. Owed(settle[s], t, c) = Share(p, t, c) + Owed(Tail(settle[s]), t, c)
  BY <1>1, OwedHead
<1>5. settle'[s] = Tail(settle[s]) /\ \A r \in Sessions \ {s} : settle'[r] = settle[r]
  BY <1>3 DEF TypeOK, Types
<1> HIDE DEF p
<1>6. balance'[t][c] = balance[t][c] + Share(p, t, c)
  <2>1. balance \in [Traders -> [Currencies -> Int]]
    BY DEF TypeOK, Types
  <2>2. p.trader \in Traders /\ p.ccy \in Currencies /\ p.delta \in Int
    BY <1>2 DEF Posting
  <2>3. balance'[t][c] = IF t = p.trader /\ c = p.ccy THEN balance[t][c] + p.delta ELSE balance[t][c]
    BY <1>3, <2>1, <2>2
  <2>4. balance[t][c] \in Int
    BY <2>1
  <2> QED
    BY <2>2, <2>3, <2>4 DEF Share
<1>7. LedgerOf(t, c)' = LedgerOf(t, c) + (balance'[t][c] - balance[t][c])
                          + (Owed(settle'[s], t, c) - Owed(settle[s], t, c))
  <2>1. Types /\ Types'
    BY DEF TypeOK
  <2> QED
    BY <1>5, <2>1, LedgerChange
<1>8. Owed(Tail(settle[s]), t, c) \in Int /\ Share(p, t, c) \in Int
  <2>1. Tail(settle[s]) \in Seq(Posting)
    BY <1>1, HeadTail
  <2>2. Owed(Tail(settle[s]), t, c) \in Int
    BY <2>1, OwedHead
  <2>3. Share(p, t, c) \in Int
    BY <1>2 DEF Share, Posting
  <2> QED
    BY <2>2, <2>3
<1>9. LedgerOf(t, c) \in Int /\ balance[t][c] \in Int
  BY LedgerTyped DEF TypeOK, Types
<1> QED
  BY <1>4, <1>5, <1>6, <1>7, <1>8, <1>9

\* A match changes the ledgers of its two orders' traders.
LEMMA MatchChangesLedgers ==
    ASSUME IsFiniteSet(Sessions), TypeOK, TypeOK', NothingOwed, NEW s \in Sessions,
           CheckMaker(s), Affordable(s, maker[s]), NEW t \in Traders, NEW c \in Currencies
    PROVE  /\ LedgerOf(t, c)' = LedgerOf(t, c)
                  + (Part(orders[taker[s]], Amount(s, taker[s]), t, c)
                     + Part(orders[maker[s]], Amount(s, maker[s]), t, c))
           /\ Part(orders[taker[s]], Amount(s, taker[s]), t, c) \in Int
           /\ Part(orders[maker[s]], Amount(s, maker[s]), t, c) \in Int
<1> DEFINE o == orders[taker[s]]
           l == orders[maker[s]]
           x == Amount(s, taker[s])
           y == Amount(s, maker[s])
<1>1. pc[s] \in Matching /\ settle[s] = <<>>
  BY DEF CheckMaker, Matching, Updating, NothingOwed
<1>2. o \in TraderOrder /\ l \in TraderOrder /\ x \in Int /\ y \in Int
  BY <1>1, MatchFacts, AmountTyped
<1>3. settle' = [settle EXCEPT ![s] = ChangeBalance(o, x) \o ChangeBalance(l, y)] /\ balance' = balance
  BY DEF CheckMaker, store
<1>4. /\ settle'[s] = ChangeBalance(o, x) \o ChangeBalance(l, y)
      /\ \A r \in Sessions \ {s} : settle'[r] = settle[r]
  BY <1>3 DEF TypeOK, Types
<1>5. LedgerOf(t, c)' = LedgerOf(t, c) + (balance'[t][c] - balance[t][c])
                          + (Owed(settle'[s], t, c) - Owed(settle[s], t, c))
  BY <1>4, LedgerChange DEF TypeOK
<1> HIDE DEF o, l, x, y
<1>6. Owed(settle'[s], t, c) = Part(o, x, t, c) + Part(l, y, t, c)
  BY <1>2, <1>4, OwedByMatch
<1>7. Part(o, x, t, c) \in Int /\ Part(l, y, t, c) \in Int
  BY <1>2, PartOfTwo
<1>8. LedgerOf(t, c) \in Int /\ balance[t][c] \in Int
  BY LedgerTyped DEF TypeOK, Types
<1>9. Owed(settle[s], t, c) = 0
  BY <1>1, OwedNothing
<1>10. LedgerOf(t, c)' = LedgerOf(t, c) + (Part(o, x, t, c) + Part(l, y, t, c))
  BY <1>3, <1>5, <1>6, <1>7, <1>8, <1>9
<1> QED
  BY <1>7, <1>10 DEF o, l, x, y

\* What one order gives the other takes: in the quoting currency when their volumes
\* are the same, in the base currency when their volumes are read alike.
LEMMA PartsCancel ==
    ASSUME NEW o \in TraderOrder, NEW l \in TraderOrder, CanTrade(o, l),
           NEW v \in Nat, NEW p \in Nat \ {0}, NEW c,
           c = QuotingOf[o.asset] => o.volume = l.volume,
           c = BaseOf[o.asset] => ReadAlike(o, l)
    PROVE  Part(o, BaseAmount(o, v, p), o.trader, c) + Part(l, BaseAmount(l, v, p), l.trader, c) = 0
<1>1. /\ o.action \in {"Buy", "Sell"} /\ l.action \in {"Buy", "Sell"}
      /\ o.volume \in Int /\ l.volume \in Int /\ o.asset \in Assets
  BY DEF TraderOrder, MarketOrder, LimitOrder
<1>2. o.asset = l.asset /\ o.action # l.action
  BY DEF CanTrade
<1>3. BaseOf[o.asset] # QuotingOf[o.asset]
  BY <1>1, InstrumentAssumption
<1>4. CASE c = QuotingOf[o.asset]
  BY <1>1, <1>2, <1>4 DEF Part
<1>5. CASE c = BaseOf[o.asset]
  <2>1. BaseAmount(l, v, p) = BaseAmount(o, v, p)
    BY <1>2, <1>5 DEF BaseAmount, ReadAlike
  <2>2. BaseAmount(o, v, p) \in Int
    BY BaseAmountInt
  <2> QED
    BY <1>1, <1>2, <1>3, <1>5, <2>1, <2>2 DEF Part
<1>6. CASE c # QuotingOf[o.asset] /\ c # BaseOf[o.asset]
  BY <1>2, <1>6 DEF Part
<1> QED
  BY <1>4, <1>5, <1>6

\* Sums over traders and sessions make sense.
FinitelyMany == IsFiniteSet(Traders) /\ IsFiniteSet(Sessions)

\* A match of session s creates or destroys money in c for one of two reasons only.
LEMMA MatchConserves ==
    ASSUME FinitelyMany, TypeOK, TypeOK', AllGood, NothingOwed, NEW s \in Sessions,
           CheckMaker(s), Affordable(s, maker[s]), NEW c \in Currencies,
           LET o == orders[taker[s]]
               l == orders[maker[s]]
           IN  /\ c = QuotingOf[o.asset] => o.volume = l.volume
               /\ c = BaseOf[o.asset] => ReadAlike(o, l)
    PROVE  Total(c)' = Total(c)
<1> DEFINE o == orders[taker[s]]
           l == orders[maker[s]]
           x == Amount(s, taker[s])
           y == Amount(s, maker[s])
           f == [t \in Traders |-> LedgerOf(t, c)]
           g == [t \in Traders |-> LedgerOf(t, c)']
<1>1. pc[s] \in Matching
  BY DEF CheckMaker, Matching
<1>2. /\ o \in TraderOrder /\ l \in TraderOrder /\ CanTrade(o, l)
      /\ ExchangeVolume(s) \in Nat /\ ExchangePrice(s) \in Nat \ {0}
      /\ x = BaseAmount(o, ExchangeVolume(s), ExchangePrice(s))
      /\ y = BaseAmount(l, ExchangeVolume(s), ExchangePrice(s))
  BY <1>1, MatchFacts, MatchTerms DEF TypeOK, Ready, Amount
<1>3. o.trader \in Traders /\ l.trader \in Traders /\ o.trader # l.trader
  BY <1>2, TradersDiffer DEF TraderOrder, MarketOrder, LimitOrder
<1>4. ASSUME NEW t \in Traders
      PROVE  /\ LedgerOf(t, c)' = LedgerOf(t, c) + (Part(o, x, t, c) + Part(l, y, t, c))
             /\ Part(o, x, t, c) \in Int /\ Part(l, y, t, c) \in Int
             /\ LedgerOf(t, c) \in Int
  BY MatchChangesLedgers, LedgerTyped DEF TypeOK, FinitelyMany
<1>5. \A t \in Traders : f[t] \in Int /\ g[t] \in Int /\ g[t] = f[t] + (Part(o, x, t, c) + Part(l, y, t, c))
  BY <1>4
<1>6. Part(o, x, o.trader, c) + Part(l, y, l.trader, c) = 0
  <2> DEFINE v == ExchangeVolume(s)
             p == ExchangePrice(s)
  <2>1. v \in Nat /\ p \in Nat \ {0} /\ x = BaseAmount(o, v, p) /\ y = BaseAmount(l, v, p)
    BY <1>2
  <2>2. /\ c = QuotingOf[o.asset] => o.volume = l.volume
        /\ c = BaseOf[o.asset] => ReadAlike(o, l)
    OBVIOUS
  <2> HIDE DEF v, p, o, l, x, y
  <2>3. Part(o, BaseAmount(o, v, p), o.trader, c) + Part(l, BaseAmount(l, v, p), l.trader, c) = 0
    BY <1>2, <2>1, <2>2, PartsCancel
  <2> QED
    BY <2>1, <2>3
<1>7. \A t : (t # o.trader => Part(o, x, t, c) = 0) /\ (t # l.trader => Part(l, y, t, c) = 0)
  BY DEF Part
<1>8. Total(c) = SumFunctionOnSet(f, Traders) /\ Total(c)' = SumFunctionOnSet(g, Traders)
  BY DEF Total, SumFunction
<1>9. /\ Part(o, x, o.trader, c) \in Int /\ Part(l, y, l.trader, c) \in Int
  BY <1>3, <1>4
<1> HIDE DEF f, g, o, l, x, y
<1>10. \A t \in Traders \ {o.trader, l.trader} : g[t] = f[t]
  BY <1>5, <1>7
<1>11. /\ g[o.trader] - f[o.trader] = Part(o, x, o.trader, c)
       /\ g[l.trader] - f[l.trader] = Part(l, y, l.trader, c)
  BY <1>3, <1>5, <1>7, <1>9
<1>12. \A t \in Traders : f[t] \in Int /\ g[t] \in Int
  BY <1>5
<1>13. SumFunctionOnSet(g, Traders) = SumFunctionOnSet(f, Traders)
          + (g[o.trader] - f[o.trader]) + (g[l.trader] - f[l.trader])
  <2>1. ASSUME NEW u \in Traders, NEW w \in Traders, u # w, \A z \in Traders \ {u, w} : g[z] = f[z]
        PROVE  SumFunctionOnSet(g, Traders) = SumFunctionOnSet(f, Traders) + (g[u] - f[u]) + (g[w] - f[w])
    BY <1>12, <2>1, SumChangeTwo DEF FinitelyMany
  <2> QED
    BY <1>3, <1>10, <2>1
<1>14. SumFunctionOnSet(f, Traders) \in Int
  BY <1>5, SumFacts DEF FinitelyMany
<1> QED
  BY <1>6, <1>8, <1>9, <1>11, <1>13, <1>14

LEMMA NextConserves ==
    ASSUME FinitelyMany, TypeOK, TypeOK', AllGood, NothingOwed, Next,
           deposits' = deposits, faults' = faults, NEW c \in Currencies,
           \A s \in Sessions : Matches(s) =>
              LET o == orders[taker[s]]
                  l == orders[maker[s]]
              IN  /\ c = QuotingOf[o.asset] => o.volume = l.volume
                  /\ c = BaseOf[o.asset] => ReadAlike(o, l)
    PROVE  Total(c)' = Total(c)
<1>1. CASE Wait
  BY <1>1, TotalSame DEF Wait, vars, store, posting
<1>2. ASSUME NEW s \in Sessions, \E req \in Requests : Submit(s, req) PROVE Total(c)' = Total(c)
  BY <1>2, TotalSame DEF Submit, store, posting
<1>3. ASSUME NEW s \in Sessions, GenerateId(s) \/ RegisterStatus(s) \/ RegisterTrader(s)
      PROVE  Total(c)' = Total(c)
  BY <1>3, TotalSame DEF GenerateId, RegisterStatus, RegisterTrader, posting
<1>4. ASSUME NEW s \in Sessions, Load(s) \/ NextMarket(s) \/ BeginLimits(s) \/ NextBuy(s) \/ Pick(s)
      PROVE  Total(c)' = Total(c)
  BY <1>4, TotalSame DEF Load, NextMarket, BeginLimits, NextBuy, Pick, store, posting
<1>5. ASSUME NEW s \in Sessions, EndPass(s) PROVE Total(c)' = Total(c)
  <2>1. settle[s] = <<>> /\ settle' = [settle EXCEPT ![s] = <<>>] /\ balance' = balance
    BY <1>5 DEF EndPass, Forget, store, NothingOwed, Updating
  <2>2. settle' = settle
    BY <2>1 DEF TypeOK, Types
  <2> QED
    BY <2>1, <2>2, TotalSame
<1>6. ASSUME NEW s \in Sessions, Fail(s) PROVE FALSE
  <2>1. faults' = faults + 1 /\ faults \in Int
    BY <1>6 DEF Fail, TypeOK, Types
  <2> QED
    BY <2>1
<1>7. ASSUME NEW s \in Sessions, CheckTaker(s) PROVE Total(c)' = Total(c)
  BY <1>7, TotalSame DEF CheckTaker, Cancel, store
<1>8. ASSUME NEW s \in Sessions, CheckMaker(s) PROVE Total(c)' = Total(c)
  <2>1. CASE Affordable(s, maker[s])
    <3> DEFINE o == orders[taker[s]]
               l == orders[maker[s]]
    <3>1. pc[s] \in Matching /\ pc[s] = "check2"
      BY <1>8 DEF CheckMaker, Matching
    <3>2. /\ o \in TraderOrder /\ l \in TraderOrder
          /\ Amount(s, taker[s]) \in Int /\ Amount(s, maker[s]) \in Int
      BY <3>1, MatchFacts, AmountTyped
    <3>3. settle'[s] = ChangeBalance(o, Amount(s, taker[s])) \o ChangeBalance(l, Amount(s, maker[s]))
      BY <1>8, <2>1 DEF CheckMaker, TypeOK, Types
    <3>4. Len(settle'[s]) # 0
      BY <3>2, <3>3, PostingsTyped, ConcatProperties
    <3>5. settle'[s] # <<>>
      BY <3>4
    <3>6. Matches(s)
      BY <3>1, <3>5 DEF Matches
    <3> QED
      BY <1>8, <2>1, <3>6, MatchConserves
  <2>2. CASE ~ Affordable(s, maker[s])
    BY <1>8, <2>2, TotalSame DEF CheckMaker, Cancel, store
  <2> QED
    BY <2>1, <2>2
<1>9. ASSUME NEW s \in Sessions, UpdateReplace(s) \/ UpdateSame(s) \/ UpdateDelete(s) \/ UpdateInsert(s)
      PROVE  Total(c)' = Total(c)
  BY <1>9, TotalSame DEF UpdateReplace, UpdateSame, UpdateDelete, UpdateInsert, posting
<1>10. ASSUME NEW s \in Sessions, Settle(s) PROVE Total(c)' = Total(c)
  <2>1. \A t \in Traders : LedgerOf(t, c)' = LedgerOf(t, c)
    BY <1>10, SettleKeepsLedgers DEF FinitelyMany
  <2> QED
    BY <2>1 DEF Total
<1>11. ASSUME NEW t \in Traders, NEW d \in Currencies, NEW a \in DepositAmounts, Deposit(t, d, a)
       PROVE  FALSE
  <2>1. deposits' = deposits + 1 /\ deposits \in Int
    BY <1>11 DEF Deposit, TypeOK, Types
  <2> QED
    BY <2>1
<1> QED
  BY <1>1, <1>2, <1>3, <1>4, <1>5, <1>6, <1>7, <1>8, <1>9, <1>10, <1>11 DEF Next, Step

\* However many sessions match at once, and whatever stale copies they match on, no
\* step but a deposit or a crash changes what all traders together own of a currency,
\* settlements under way included, with the two exceptions MoneyConserved names.
THEOREM MoneyKept == FinitelyMany => (Spec => MoneyConserved)
<1> SUFFICES ASSUME FinitelyMany PROVE Spec => MoneyConserved
  OBVIOUS
<1>1. Init => TypeOK /\ AllGood /\ NothingOwed
  BY InitTypes, InitGood, InitOwed
<1>2. TypeOK /\ AllGood /\ NothingOwed /\ [Next]_vars => (TypeOK /\ AllGood /\ NothingOwed)'
  BY NextTypes, NextGood, NextOwed
<1>3. TypeOK /\ TypeOK' /\ AllGood /\ NothingOwed /\ Next =>
         \/ deposits' # deposits \/ faults' # faults
         \/ \A c \in Currencies :
               \/ Total(c)' = Total(c)
               \/ \E s \in Sessions :
                     /\ Matches(s)
                     /\ LET o == orders[taker[s]]
                            l == orders[maker[s]]
                        IN  \/ c = QuotingOf[o.asset] /\ o.volume # l.volume
                            \/ c = BaseOf[o.asset] /\ ~ ReadAlike(o, l)
  BY NextConserves
<1> QED
  BY <1>1, <1>2, <1>3, PTL DEF Spec, MoneyConserved

-----------------------------------------------------------------------------
(* One request at a time: the two tables of orders, and the copies.        *)

\* One request at a time, none cut short.
Serial == (\E s : Sessions = {s}) /\ MaxFaults = 0

\* The members of a list.
Members(q) == {q[k] : k \in 1..Len(q)}

\* What a session has no use for any more, or not yet, is empty.
Clean(s) ==
    /\ pc[s] \notin {"identify", "insertStatus", "insertTrader"} => regs[s] = <<>>
    /\ pc[s] \notin Updating => upd[s] = <<>>
    /\ pc[s] \notin Pass => mem[s] = Blank /\ taker[s] = 0
    /\ \A j, k \in 1..Len(regs[s]) : regs[s][j] = regs[s][k] => j = k

\* An order whose trader's row is still to be inserted.
Entering(s, id) ==
    /\ id \in Members(regs[s])
    /\ \A st \in OrderStatus :
          statusRow[st][id] = IF st = "Registered" /\ pc[s] = "insertTrader" /\ Head(regs[s]) = id
                              THEN Fresh ELSE NoRow

\* The order UpdateOrderAsync is at has its trader's row already, not its status rows.
Moving(s, id) == pc[s] \in {"same", "delete", "insert"} /\ Head(upd[s]) = id

\* How far the update of an order has come.
Moved(s, id) ==
    /\ traderRow[id] = mem[s][id]
    /\ pc[s] = "same" => /\ old[s] = traderRow[id].status
                         /\ \A st \in OrderStatus : statusRow[st][id] # NoRow <=> st = old[s]
    /\ pc[s] = "delete" => \A st \in OrderStatus : statusRow[st][id] # NoRow => st = old[s]
    /\ pc[s] = "insert" => \A st \in OrderStatus : statusRow[st][id] = NoRow

\* The two partitions of an order that is not being written agree.
Agree(id) ==
    \A st \in OrderStatus :
        statusRow[st][id] = IF st = traderRow[id].status THEN traderRow[id] ELSE NoRow

\* Each order is on its way in, on its way from status to status, or settled in both tables.
Tables(s) ==
    \A id \in Known :
        IF traderRow[id] = NoRow THEN Entering(s, id)
        ELSE /\ id \notin Members(regs[s])
             /\ IF Moving(s, id) THEN Moved(s, id) ELSE Agree(id)

\* The copies of a pass are the tables, but for what is still to be written.
Coherent(s) ==
    pc[s] \in Pass => \A id \in Known :
        /\ traderRow[id].status = "Registered" => id \in Loaded(s)
        /\ id \in Loaded(s) \ Members(upd[s]) => mem[s][id] = traderRow[id]

\* The inductive invariant of the tables.
TablesInv(s) == Clean(s) /\ Tables(s) /\ Coherent(s)

\* Every id given is one of the bound's.
LEMMA KnownIds == TypeOK => Known \subseteq Ids
<1> SUFFICES ASSUME TypeOK PROVE Known \subseteq Ids
  OBVIOUS
<1>1. Len(orders) \in Nat /\ Len(orders) =< MaxOrders
  BY LenProperties DEF TypeOK, Types
<1> QED
  BY <1>1, ExecutorAssumption DEF Known, Ids

\* What the invariant says of an order that is neither entering nor moving.
LEMMA SettledTables ==
    ASSUME TypeOK, NEW s \in Sessions, TablesInv(s), regs[s] = <<>>, NEW id \in Known
    PROVE  /\ traderRow[id] # NoRow
           /\ ~ Moving(s, id) => Agree(id)
           /\ Moving(s, id) => Moved(s, id)
<1>1. id \notin Members(regs[s])
  BY EmptySeq DEF Members
<1> QED
  BY <1>1 DEF TablesInv, Tables, Entering

\* Steps within a pass, and deposits, that write no table of orders and change no copy.
LEMMA FrameTables ==
    ASSUME TypeOK, NEW s \in Sessions, TablesInv(s),
           UNCHANGED << orders, statusRow, traderRow, regs, mem, upd, old >>,
           \/ pc'[s] = pc[s] /\ taker'[s] = taker[s]
           \/ pc[s] \in Pass \ Updating /\ pc'[s] \in Pass \ Updating
    PROVE  TablesInv(s)'
<1>1. Known' = Known /\ Loaded(s)' = Loaded(s)
  BY DEF Known, Loaded
<1>2. CASE pc'[s] = pc[s] /\ taker'[s] = taker[s]
  <2>1. Clean(s)'
    BY <1>2 DEF TablesInv, Clean
  <2>2. Tables(s)'
    BY <1>1, <1>2 DEF TablesInv, Tables, Entering, Moving, Moved, Agree, Members
  <2>3. Coherent(s)'
    BY <1>1, <1>2 DEF TablesInv, Coherent, Members
  <2> QED
    BY <2>1, <2>2, <2>3 DEF TablesInv
<1>3. CASE pc[s] \in Pass \ Updating /\ pc'[s] \in Pass \ Updating
  <2>1. /\ pc[s] \notin {"identify", "insertStatus", "insertTrader", "same", "delete", "insert"}
        /\ pc'[s] \notin {"identify", "insertStatus", "insertTrader", "same", "delete", "insert"}
    BY <1>3 DEF Pass, Updating, Matching
  <2>2. Clean(s)'
    BY <1>3, <2>1 DEF TablesInv, Clean
  <2>3. regs[s] = <<>>
    BY <2>1 DEF TablesInv, Clean
  <2>4. \A id \in Known : traderRow[id] # NoRow /\ Agree(id)
    BY <2>1, <2>3, SettledTables DEF Moving
  <2>5. Tables(s)'
    <3>1. \A id \in Known : id \notin Members(regs[s])
      BY <2>3, EmptySeq DEF Members
    <3> QED
      BY <1>1, <2>1, <2>4, <3>1 DEF Tables, Moving, Agree, Members
  <2>6. Coherent(s)'
    BY <1>1, <1>3 DEF TablesInv, Coherent, Members
  <2> QED
    BY <2>2, <2>5, <2>6 DEF TablesInv
<1> QED
  BY <1>2, <1>3

\* Orders enter one after the other, status row first.
LEMMA RegistrationTables ==
    ASSUME TypeOK, TypeOK', NEW s \in Sessions, TablesInv(s),
           \/ \E req \in Requests : Submit(s, req)
           \/ GenerateId(s) \/ RegisterStatus(s) \/ RegisterTrader(s)
    PROVE  TablesInv(s)'
<1> USE DEF TablesInv
<1>0. \A id : id \notin Members(<<>>)
  BY EmptySeq DEF Members
<1>1. ASSUME NEW req \in Requests, Submit(s, req) PROVE TablesInv(s)'
  <2>1. /\ pc[s] = "idle" /\ pc'[s] = "identify" /\ regs[s] = <<>> /\ upd[s] = <<>>
        /\ mem[s] = Blank /\ taker[s] = 0
        /\ UNCHANGED << store, regs, loops, posting >>
    BY <1>1 DEF Submit, Clean, TypeOK, Types, Updating, Pass, Matching
  <2>2. Clean(s)'
    BY <2>1 DEF Clean, loops, posting, Updating
  <2>3. Tables(s)'
    <3>1. \A id \in Known : traderRow[id] # NoRow /\ Agree(id)
      BY <2>1, SettledTables DEF Moving
    <3> QED
      BY <1>0, <2>1, <3>1 DEF Tables, Agree, Moving, Known, store
  <2>4. Coherent(s)'
    BY <2>1 DEF Coherent, Pass, Matching, Updating
  <2> QED
    BY <2>2, <2>3, <2>4
<1>2. CASE GenerateId(s)
  <2> DEFINE n == Len(orders) + 1
  <2>1. /\ pc[s] = "identify" /\ upd[s] = <<>> /\ mem[s] = Blank /\ taker[s] = 0
        /\ pc'[s] \in {"identify", "insertStatus"}
        /\ UNCHANGED << statusRow, traderRow, loops, posting >>
        /\ regs'[s] = Append(regs[s], n) /\ orders' = Append(orders, Head(draft[s]))
    BY <1>2 DEF GenerateId, Clean, TypeOK, Types, Updating, Pass, Matching
  <2>2. regs[s] \in Seq(Ids) /\ n \in Ids /\ n \notin Known /\ Known' = Known \cup {n}
    <3>1. draft[s] \in Seq(TraderOrder) /\ draft[s] # <<>>
      BY <1>2 DEF GenerateId, TypeOK, Types, Ready
    <3>2. Head(draft[s]) \in TraderOrder
      BY <3>1, HeadTail
    <3>3. Len(orders') = n /\ Len(orders) \in Nat
      BY <2>1, <3>2, AppendProperties, LenProperties DEF TypeOK, Types
    <3> QED
      BY <1>2, <3>3, ExecutorAssumption DEF GenerateId, TypeOK, Types, Known, Ids
  <2>3. /\ Len(regs'[s]) = Len(regs[s]) + 1 /\ Len(regs[s]) \in Nat
        /\ \A k \in 1..Len(regs[s]) : regs'[s][k] = regs[s][k]
        /\ regs'[s][Len(regs[s]) + 1] = n
    BY <2>1, <2>2, AppendProperties, LenProperties
  <2>4. \A k \in 1..Len(regs[s]) : regs[s][k] \in Known
    BY DEF TypeOK, OnlyKnown
  <2>5. Members(regs'[s]) = Members(regs[s]) \cup {n} /\ n \notin Members(regs[s])
    <3>1. 1..Len(regs'[s]) = 1..Len(regs[s]) \cup {Len(regs[s]) + 1}
      BY <2>3
    <3> QED
      BY <2>2, <2>3, <2>4, <3>1 DEF Members
  <2>6. Clean(s)'
    <3>1. \A j, k \in 1..Len(regs'[s]) : regs'[s][j] = regs'[s][k] => j = k
      <4>1. \A k \in 1..Len(regs'[s]) : k \in 1..Len(regs[s]) \/ k = Len(regs[s]) + 1
        BY <2>3
      <4>2. \A j, k \in 1..Len(regs[s]) : regs[s][j] = regs[s][k] => j = k
        BY DEF Clean
      <4> QED
        BY <2>2, <2>3, <2>4, <4>1, <4>2
    <3> QED
      BY <2>1, <3>1 DEF Clean, loops, posting, Updating
  <2>7. Tables(s)'
    <3>1. ASSUME NEW id \in Known'
          PROVE  IF traderRow[id] = NoRow THEN Entering(s, id)'
                 ELSE id \notin Members(regs'[s]) /\ ~ Moving(s, id)' /\ Agree(id)'
      <4>1. ~ Moving(s, id)' /\ ~ Moving(s, id)
        BY <2>1 DEF Moving
      <4>2. CASE id = n
        <5>1. traderRow[id] = NoRow /\ \A st \in OrderStatus : statusRow[st][id] = NoRow
          BY <2>2, <4>2 DEF TypeOK, OnlyKnown
        <5> QED
          BY <2>1, <2>5, <4>2, <5>1 DEF Entering
      <4>3. CASE id \in Known
        <5>1. CASE traderRow[id] = NoRow
          BY <2>1, <2>5, <4>3, <5>1 DEF Tables, Entering
        <5>2. CASE traderRow[id] # NoRow
          BY <2>1, <2>2, <2>5, <4>1, <4>3, <5>2 DEF Tables, Agree
        <5> QED
          BY <5>1, <5>2
      <4> QED
        BY <2>2, <4>2, <4>3
    <3> QED
      BY <2>1, <3>1 DEF Tables
  <2>8. Coherent(s)'
    BY <2>1 DEF Coherent, Pass, Matching, Updating
  <2> QED
    BY <2>6, <2>7, <2>8
<1>3. CASE RegisterStatus(s)
  <2>1. /\ pc[s] = "insertStatus" /\ pc'[s] = "insertTrader"
        /\ upd[s] = <<>> /\ mem[s] = Blank /\ taker[s] = 0
        /\ UNCHANGED << orders, traderRow, regs, loops, posting >>
    BY <1>3 DEF RegisterStatus, Clean, TypeOK, Types, Updating, Pass, Matching
  <2> DEFINE h == Head(regs[s])
  <2>2. regs[s] \in Seq(Ids) /\ regs[s] # <<>> /\ h \in Ids /\ h = regs[s][1] /\ h \in Members(regs[s])
    <3>1. regs[s] \in Seq(Ids) /\ regs[s] # <<>>
      BY <2>1 DEF TypeOK, Types, Ready
    <3> QED
      BY <3>1, HeadTail DEF Members
  <2>3. \A st \in OrderStatus, id \in Ids :
           statusRow'[st][id] = IF st = "Registered" /\ id = h THEN Fresh ELSE statusRow[st][id]
    BY <1>3, <2>2 DEF RegisterStatus, TypeOK, Types, OrderStatus
  <2>4. Clean(s)'
    BY <2>1 DEF Clean, loops, posting, Updating
  <2>5. Tables(s)'
    <3>1. ASSUME NEW id \in Known
          PROVE  IF traderRow[id] = NoRow THEN Entering(s, id)'
                 ELSE id \notin Members(regs[s]) /\ ~ Moving(s, id)' /\ Agree(id)'
      <4>1. ~ Moving(s, id)' /\ ~ Moving(s, id) /\ id \in Ids
        BY <2>1, KnownIds DEF Moving
      <4>2. CASE traderRow[id] = NoRow
        <5>1. /\ id \in Members(regs[s])
              /\ \A st \in OrderStatus : statusRow[st][id] = NoRow
          BY <2>1, <4>2 DEF Tables, Entering
        <5>2. \A st \in OrderStatus :
                 statusRow'[st][id] = IF st = "Registered" /\ h = id THEN Fresh ELSE NoRow
          BY <2>3, <4>1, <5>1
        <5> QED
          BY <2>1, <4>2, <5>1, <5>2 DEF Entering
      <4>3. CASE traderRow[id] # NoRow
        <5>1. id \notin Members(regs[s]) /\ Agree(id) /\ id # h
          BY <2>2, <4>1, <4>3 DEF Tables
        <5> QED
          BY <2>1, <2>3, <4>1, <4>3, <5>1 DEF Agree
      <4> QED
        BY <4>2, <4>3
    <3> QED
      BY <2>1, <3>1 DEF Tables, Known
  <2>6. Coherent(s)'
    BY <2>1 DEF Coherent, Pass, Matching, Updating
  <2> QED
    BY <2>4, <2>5, <2>6
<1>4. CASE RegisterTrader(s)
  <2>1. /\ pc[s] = "insertTrader" /\ upd[s] = <<>> /\ mem[s] = Blank /\ taker[s] = 0
        /\ pc'[s] = IF Len(regs[s]) = 1 THEN "load" ELSE "insertStatus"
        /\ UNCHANGED << orders, statusRow, loops, posting >>
        /\ regs'[s] = Tail(regs[s])
    BY <1>4 DEF RegisterTrader, Clean, TypeOK, Types, Updating, Pass, Matching
  <2> DEFINE h == Head(regs[s])
  <2>2. /\ regs[s] \in Seq(Ids) /\ regs[s] # <<>> /\ h \in Ids /\ h = regs[s][1]
        /\ Tail(regs[s]) \in Seq(Ids) /\ Len(regs[s]) \in Nat /\ Len(Tail(regs[s])) = Len(regs[s]) - 1
        /\ \A k \in 1..Len(Tail(regs[s])) : Tail(regs[s])[k] = regs[s][k + 1] /\ k + 1 \in 1..Len(regs[s])
        /\ 1 \in 1..Len(regs[s])
    <3>1. regs[s] \in Seq(Ids) /\ regs[s] # <<>>
      BY <2>1 DEF TypeOK, Types, Ready
    <3> QED
      BY <3>1, HeadTail
  <2>3. \A j, k \in 1..Len(regs[s]) : regs[s][j] = regs[s][k] => j = k
    BY DEF Clean
  <2>4. Members(regs'[s]) = Members(regs[s]) \ {h}
    <3>1. Members(regs'[s]) \subseteq Members(regs[s]) \ {h}
      <4>1. \A k \in 1..Len(Tail(regs[s])) : k + 1 # 1
        BY <2>2
      <4> QED
        BY <2>1, <2>2, <2>3, <4>1 DEF Members
    <3>2. ASSUME NEW k \in 1..Len(regs[s]), regs[s][k] # h PROVE regs[s][k] \in Members(regs'[s])
      <4>1. k - 1 \in 1..Len(Tail(regs[s])) /\ (k - 1) + 1 = k
        BY <2>2, <3>2
      <4> QED
        BY <2>1, <2>2, <4>1 DEF Members
    <3> QED
      BY <3>1, <3>2 DEF Members
  <2>5. Clean(s)'
    <3>1. \A j, k \in 1..Len(Tail(regs[s])) : Tail(regs[s])[j] = Tail(regs[s])[k] => j = k
      BY <2>2, <2>3
    <3>2. Len(regs[s]) = 1 => Tail(regs[s]) = <<>>
      <4> DEFINE t == Tail(regs[s])
      <4>1. t \in Seq(Ids) /\ Len(t) = Len(regs[s]) - 1
        BY <2>2
      <4> HIDE DEF t
      <4>2. Len(regs[s]) = 1 => t = <<>>
        BY <4>1, EmptySeq
      <4> QED
        BY <4>2 DEF t
    <3> QED
      BY <2>1, <3>1, <3>2 DEF Clean, loops, posting, Updating
  <2>6. \A id \in Ids : traderRow'[id] = IF id = h THEN Fresh ELSE traderRow[id]
    BY <1>4, <2>2 DEF RegisterTrader, TypeOK, Types
  <2>7. Tables(s)'
    <3>1. ASSUME NEW id \in Known
          PROVE  IF traderRow'[id] = NoRow THEN Entering(s, id)'
                 ELSE id \notin Members(regs'[s]) /\ ~ Moving(s, id)' /\ Agree(id)'
      <4>1. ~ Moving(s, id)' /\ ~ Moving(s, id) /\ id \in Ids
        BY <2>1, KnownIds DEF Moving
      <4>2. CASE id = h
        <5>1. Entering(s, id)
          <6>1. id \in Members(regs[s])
            BY <2>2, <4>2 DEF Members
          <6> QED
            BY <6>1 DEF Tables
        <5>2. \A st \in OrderStatus : statusRow[st][id] = IF st = "Registered" THEN Fresh ELSE NoRow
          BY <2>1, <4>2, <5>1 DEF Entering
        <5>3. traderRow'[id] = Fresh /\ Fresh # NoRow /\ Fresh.status = "Registered"
          BY <2>6, <4>1, <4>2, RowFacts DEF Fresh
        <5>4. Agree(id)'
          BY <2>1, <5>2, <5>3 DEF Agree
        <5> QED
          BY <2>4, <4>1, <4>2, <5>3, <5>4
      <4>3. CASE id # h
        <5>1. traderRow'[id] = traderRow[id] /\ statusRow' = statusRow
          BY <2>1, <2>6, <4>1, <4>3
        <5>2. CASE traderRow[id] = NoRow
          <6>1. /\ id \in Members(regs[s])
                /\ \A st \in OrderStatus : statusRow[st][id] = NoRow
            BY <4>3, <5>2 DEF Tables, Entering
          <6> QED
            BY <2>1, <2>4, <4>3, <5>1, <5>2, <6>1 DEF Entering
        <5>3. CASE traderRow[id] # NoRow
          BY <2>4, <4>1, <5>1, <5>3 DEF Tables, Agree
        <5> QED
          BY <5>2, <5>3
      <4> QED
        BY <4>2, <4>3
    <3> QED
      BY <2>1, <3>1 DEF Tables, Known
  <2>8. Coherent(s)'
    BY <2>1 DEF Coherent, Pass, Matching, Updating
  <2> QED
    BY <2>5, <2>7, <2>8
<1> QED
  BY <1>1, <1>2, <1>3, <1>4

\* The members of a list are its head and those of its tail.
LEMMA HeadMembers ==
    ASSUME NEW S, NEW q \in Seq(S), q # <<>>
    PROVE  /\ Members(q) = {Head(q)} \cup Members(Tail(q))
           /\ Members(q) \subseteq S /\ Head(q) \in S /\ Tail(q) \in Seq(S)
           /\ ~ (Len(q) > 1) => Tail(q) = <<>>
           /\ Members(<<>>) = {}
<1> DEFINE t == Tail(q)
<1>1. /\ Head(q) \in S /\ Head(q) = q[1] /\ t \in Seq(S)
      /\ Len(q) \in Nat /\ Len(q) > 0 /\ Len(t) = Len(q) - 1
      /\ \A k \in 1..Len(t) : t[k] = q[k + 1] /\ k + 1 \in 1..Len(q)
      /\ 1 \in 1..Len(q)
  BY HeadTail
<1> HIDE DEF t
<1>2. Members(q) \subseteq {Head(q)} \cup Members(t)
  <2> SUFFICES ASSUME NEW k \in 1..Len(q) PROVE q[k] \in {Head(q)} \cup Members(t)
    BY DEF Members
  <2>1. CASE k = 1
    BY <1>1, <2>1
  <2>2. CASE k # 1
    <3>1. k - 1 \in 1..Len(t) /\ (k - 1) + 1 = k
      BY <1>1, <2>2
    <3> QED
      BY <1>1, <3>1 DEF Members
  <2> QED
    BY <2>1, <2>2
<1>3. {Head(q)} \cup Members(t) \subseteq Members(q)
  BY <1>1 DEF Members
<1>4. ~ (Len(q) > 1) => t = <<>>
  BY <1>1, EmptySeq
<1>5. Members(q) \subseteq S
  BY <1>1 DEF Members
<1>6. Members(<<>>) = {}
  BY EmptySeq DEF Members
<1> QED
  BY <1>1, <1>2, <1>3, <1>4, <1>5, <1>6 DEF t

\* In a pass nothing waits to be registered, so every order is in the tables.
LEMMA PassFacts ==
    ASSUME TypeOK, NEW s \in Sessions, TablesInv(s), pc[s] \in Pass \cup {"load"}
    PROVE  /\ regs[s] = <<>> /\ Members(regs[s]) = {}
           /\ \A id \in Known : traderRow[id] # NoRow
           /\ \A id \in Known : IF Moving(s, id) THEN Moved(s, id) ELSE Agree(id)
           /\ pc[s] \notin Updating => upd[s] = <<>> /\ Members(upd[s]) = {}
<1>1. pc[s] \notin {"identify", "insertStatus", "insertTrader"}
  BY DEF Pass, Matching, Updating
<1>2. regs[s] = <<>> /\ (pc[s] \notin Updating => upd[s] = <<>>)
  BY <1>1 DEF TablesInv, Clean
<1>3. Members(<<>>) = {}
  BY EmptySeq DEF Members
<1> QED
  BY <1>2, <1>3, SettledTables

\* What is loaded is what the tables hold.
LEMMA LoadTables ==
    ASSUME TypeOK, NEW s \in Sessions, TablesInv(s), Load(s)
    PROVE  TablesInv(s)'
<1>1. /\ pc[s] = "load" /\ pc'[s] = "next" /\ mem'[s] = statusRow["Registered"]
      /\ UNCHANGED << orders, statusRow, traderRow, regs, upd, old >>
  BY DEF Load, store, posting, TypeOK, Types
<1>2. regs[s] = <<>> /\ upd[s] = <<>> /\ Members(regs[s]) = {} /\ ~ Moving(s, 0)
  BY <1>1, PassFacts DEF Updating, Moving
<1>3. \A id \in Known : traderRow[id] # NoRow /\ Agree(id) /\ id \in Ids
  BY <1>1, PassFacts, KnownIds DEF Moving
<1>4. Clean(s)'
  BY <1>1, <1>2, EmptySeq DEF Clean, Pass, Updating
<1>5. Tables(s)'
  BY <1>1, <1>2, <1>3 DEF Tables, Agree, Moving, Members, Known
<1>6. Coherent(s)'
  BY <1>1, <1>3 DEF Coherent, Agree, Loaded, Known, OrderStatus
<1> QED
  BY <1>4, <1>5, <1>6 DEF TablesInv

\* A session that returns has nothing left to write.
LEMMA EndTables ==
    ASSUME TypeOK, NEW s \in Sessions, TablesInv(s), EndPass(s)
    PROVE  TablesInv(s)'
<1>1. /\ pc[s] = "next" /\ pc'[s] = "idle" /\ mem'[s] = Blank /\ taker'[s] = 0
      /\ regs'[s] = <<>> /\ upd'[s] = <<>> /\ UNCHANGED << orders, statusRow, traderRow >>
  BY DEF EndPass, Forget, store, TypeOK, Types
<1>2. \A id \in Known : traderRow[id] # NoRow /\ Agree(id)
  BY <1>1, PassFacts DEF Pass, Moving
<1>3. Clean(s)'
  BY <1>1, EmptySeq DEF Clean
<1>4. \A id : id \notin Members(<<>>)
  BY EmptySeq DEF Members
<1>5. Tables(s)'
  BY <1>1, <1>2, <1>4 DEF Tables, Agree, Moving, Known
<1>6. Coherent(s)'
  BY <1>1 DEF Coherent, Pass, Matching, Updating
<1> QED
  BY <1>3, <1>5, <1>6 DEF TablesInv

\* A match or a cancellation changes the copies it is about to write, and no other.
LEMMA PostTables ==
    ASSUME TypeOK, NEW s \in Sessions, TablesInv(s), pc[s] \in Matching, pc'[s] = "replace",
           UNCHANGED << orders, statusRow, traderRow, regs >>,
           Loaded(s)' = Loaded(s),
           \A id \in Loaded(s) \ Members(upd'[s]) : mem'[s][id] = mem[s][id]
    PROVE  TablesInv(s)'
<1>1. pc[s] \in Pass /\ pc[s] \notin Updating /\ pc'[s] \in Pass /\ pc'[s] \in Updating
  BY DEF Pass, Matching, Updating
<1>2. regs[s] = <<>> /\ Members(regs[s]) = {} /\ Members(upd[s]) = {}
  BY <1>1, PassFacts
<1>3. \A id \in Known : traderRow[id] # NoRow /\ Agree(id)
  BY <1>1, PassFacts DEF Moving, Matching
<1>4. Clean(s)'
  BY <1>1, <1>2, EmptySeq DEF Clean, Pass
<1>5. Tables(s)'
  BY <1>2, <1>3 DEF Tables, Agree, Moving, Members, Known
<1>6. Coherent(s)'
  <2>1. \A id \in Known :
           /\ traderRow[id].status = "Registered" => id \in Loaded(s)
           /\ id \in Loaded(s) => mem[s][id] = traderRow[id]
    BY <1>1, <1>2 DEF TablesInv, Coherent
  <2> QED
    BY <2>1 DEF Coherent, Known
<1> QED
  BY <1>4, <1>5, <1>6 DEF TablesInv

\* A cancellation has one copy to write.
LEMMA CancelTables ==
    ASSUME TypeOK, NEW s \in Sessions, TablesInv(s), pc[s] \in Matching, NEW k \in {taker[s], maker[s]},
           Cancel(s, k), UNCHANGED << store, regs >>
    PROVE  TablesInv(s)'
<1>1. k \in Ids /\ k \in Loaded(s) /\ mem[s][k] \in Rows(Ids)
  BY MatchFacts
<1>2. /\ mem' = [mem EXCEPT ![s][k].status = "Canceled"]
      /\ upd'[s] = << k >> /\ pc'[s] = "replace"
  BY DEF Cancel, TypeOK, Types
<1>3. /\ mem'[s][k] = [mem[s][k] EXCEPT !.status = "Canceled"]
      /\ \A id \in Ids \ {k} : mem'[s][id] = mem[s][id]
  BY <1>1, <1>2 DEF TypeOK, Types
<1>4. mem'[s][k] # NoRow
  BY <1>1, <1>3 DEF Rows, NoRow
<1>5. Loaded(s)' = Loaded(s)
  BY <1>1, <1>3, <1>4 DEF Loaded
<1>6. Members(<< k >>) = {k}
  BY DEF Members
<1>7. Loaded(s) \subseteq Ids
  BY DEF Loaded
<1> QED
  BY <1>2, <1>3, <1>5, <1>6, <1>7, PostTables DEF store

\* A match has two.
LEMMA MatchTables ==
    ASSUME TypeOK, NEW s \in Sessions, TablesInv(s), CheckMaker(s), Affordable(s, maker[s])
    PROVE  TablesInv(s)'
<1> DEFINE t == taker[s]
           m == maker[s]
<1>1. pc[s] \in Matching
  BY DEF CheckMaker, Matching
<1>2. /\ \A id \in Ids \ {t, m} : mem'[s][id] = mem[s][id]
      /\ Loaded(s)' = Loaded(s) /\ upd'[s] = << t, m >> /\ pc'[s] = "replace"
      /\ UNCHANGED << store, regs >>
  <2>1. pc[s] = "check2"
    BY DEF CheckMaker
  <2> QED
    BY <2>1, MatchStep DEF TypeOK, Types
<1>3. Members(<< t, m >>) = {t, m}
  <2>1. Len(<< t, m >>) = 2 /\ << t, m >>[1] = t /\ << t, m >>[2] = m
    OBVIOUS
  <2> QED
    BY <2>1 DEF Members
<1>4. Loaded(s) \subseteq Ids
  BY DEF Loaded
<1> QED
  BY <1>1, <1>2, <1>3, <1>4, PostTables DEF store

\* The update under way is of a loaded order, which is in the tables.
LEMMA UpdateHead ==
    ASSUME TypeOK, NEW s \in Sessions, TablesInv(s), pc[s] \in Updating
    PROVE  LET h == Head(upd[s])
           IN  /\ upd[s] \in Seq(Ids) /\ upd[s] # <<>>
               /\ Members(upd[s]) = {h} \cup Members(Tail(upd[s]))
               /\ ~ (Len(upd[s]) > 1) => Tail(upd[s]) = <<>>
               /\ h \in Loaded(s) /\ h \in Ids /\ h \in Known
               /\ mem[s][h] \in Rows(Ids) /\ mem[s][h] # NoRow /\ traderRow[h] # NoRow
               /\ mem[s][h].status \in OrderStatus
               /\ regs[s] = <<>> /\ Members(regs[s]) = {}
<1>1. upd[s] \in Seq(Ids) /\ upd[s] # <<>> /\ \A k \in 1..Len(upd[s]) : upd[s][k] \in Loaded(s)
  BY DEF TypeOK, Types, Ready
<1>2. Members(upd[s]) \subseteq Loaded(s)
  BY <1>1 DEF Members
<1>3. /\ Members(upd[s]) = {Head(upd[s])} \cup Members(Tail(upd[s]))
      /\ ~ (Len(upd[s]) > 1) => Tail(upd[s]) = <<>>
  BY <1>1, HeadMembers
<1>4. Head(upd[s]) \in Loaded(s) /\ Head(upd[s]) \in Ids /\ mem[s][Head(upd[s])] # NoRow
  BY <1>2, <1>3 DEF Loaded
<1>5. Head(upd[s]) \in Known
  BY <1>4 DEF TypeOK, OnlyKnown
<1>6. mem[s][Head(upd[s])] \in Rows(Ids)
  BY <1>4, RowFacts DEF TypeOK, Types
<1>7. mem[s][Head(upd[s])].status \in OrderStatus
  BY <1>6 DEF Rows
<1>8. pc[s] \in Pass
  BY DEF Pass
<1> QED
  BY <1>1, <1>3, <1>4, <1>5, <1>6, <1>7, <1>8, PassFacts

\* The trader's row is written first.
LEMMA ReplaceTables ==
    ASSUME TypeOK, NEW s \in Sessions, TablesInv(s), UpdateReplace(s)
    PROVE  TablesInv(s)'
<1> DEFINE h == Head(upd[s])
<1>1. pc[s] = "replace" /\ pc[s] \in Updating /\ pc[s] \in Pass
  BY DEF UpdateReplace, Updating, Pass
<1>2. /\ h \in Loaded(s) /\ h \in Ids /\ h \in Known /\ h \in Members(upd[s])
      /\ mem[s][h] # NoRow /\ traderRow[h] # NoRow
      /\ regs[s] = <<>> /\ Members(regs[s]) = {}
  BY <1>1, UpdateHead
<1>3. /\ traderRow' = [traderRow EXCEPT ![h] = mem[s][h]]
      /\ old'[s] = traderRow[h].status
      /\ pc'[s] = IF traderRow[h].status = mem[s][h].status THEN "same" ELSE "delete"
      /\ UNCHANGED << orders, statusRow, regs, mem, upd, taker >>
  BY <1>2 DEF UpdateReplace, TypeOK, Types, loops
<1>4. \A id \in Ids : traderRow'[id] = IF id = h THEN mem[s][h] ELSE traderRow[id]
  BY <1>2, <1>3 DEF TypeOK, Types
<1>5. \A id \in Known : traderRow[id] # NoRow /\ Agree(id) /\ id \in Ids
  BY <1>1, PassFacts, KnownIds DEF Moving
<1>6. Clean(s)'
  BY <1>2, <1>3 DEF TablesInv, Clean, Updating, Pass
<1>7. Tables(s)'
  <2>1. ASSUME NEW id \in Known
        PROVE  traderRow'[id] # NoRow /\ IF Moving(s, id)' THEN Moved(s, id)' ELSE Agree(id)'
    <3>1. CASE id = h
      <4>1. \A st \in OrderStatus : statusRow[st][h] # NoRow <=> st = traderRow[h].status
        BY <1>2, <1>5 DEF Agree
      <4>2. Moving(s, id)'
        BY <1>3, <3>1 DEF Moving
      <4>3. traderRow'[id] = mem'[s][id] /\ traderRow'[id] = mem[s][h]
        BY <1>2, <1>3, <1>4, <3>1
      <4>4. Moved(s, id)'
        BY <1>3, <3>1, <4>1, <4>3 DEF Moved
      <4> QED
        BY <1>2, <4>2, <4>3, <4>4
    <3>2. CASE id # h
      <4>1. traderRow'[id] = traderRow[id] /\ ~ Moving(s, id)'
        BY <1>3, <1>4, <1>5, <3>2 DEF Moving
      <4> QED
        BY <1>3, <1>5, <4>1 DEF Agree
    <3> QED
      BY <3>1, <3>2
  <2> QED
    BY <1>2, <1>3, <2>1 DEF Tables, Known
<1>8. Coherent(s)'
  <2>1. Loaded(s)' = Loaded(s) /\ Known' = Known
    BY <1>3 DEF Loaded, Known
  <2>2. \A id \in Known : /\ traderRow[id].status = "Registered" => id \in Loaded(s)
                          /\ id \in Loaded(s) \ Members(upd[s]) => mem[s][id] = traderRow[id]
    BY <1>1 DEF TablesInv, Coherent
  <2>3. \A id \in Known : /\ traderRow'[id].status = "Registered" => id \in Loaded(s)
                          /\ id \in Loaded(s) \ Members(upd[s]) => mem[s][id] = traderRow'[id]
    BY <1>2, <1>4, <1>5, <2>2
  <2> QED
    BY <1>3, <2>1, <2>3 DEF Coherent
<1> QED
  BY <1>6, <1>7, <1>8 DEF TablesInv

\* The first table write of a move: the row leaves the old partition.
LEMMA DeleteTables ==
    ASSUME TypeOK, NEW s \in Sessions, TablesInv(s), UpdateDelete(s)
    PROVE  TablesInv(s)'
<1> DEFINE h == Head(upd[s])
<1>1. pc[s] = "delete" /\ pc[s] \in Updating /\ pc[s] \in Pass
  BY DEF UpdateDelete, Updating, Pass
<1>2. h \in Ids /\ h \in Known /\ traderRow[h] # NoRow /\ regs[s] = <<>> /\ Members(regs[s]) = {}
  BY <1>1, UpdateHead
<1>3. /\ statusRow' = [statusRow EXCEPT ![old[s]][h] = NoRow] /\ pc'[s] = "insert"
      /\ UNCHANGED << orders, traderRow, regs, mem, upd, old, taker >>
  BY DEF UpdateDelete, TypeOK, Types, loops, posting
<1>4. \A st \in OrderStatus, id \in Ids :
         statusRow'[st][id] = IF st = old[s] /\ id = h THEN NoRow ELSE statusRow[st][id]
  BY <1>2, <1>3 DEF TypeOK, Types
<1>5. \A id \in Known : /\ traderRow[id] # NoRow /\ id \in Ids
                        /\ IF id = h THEN Moved(s, id) ELSE Agree(id)
  BY <1>1, PassFacts, KnownIds DEF Moving
<1>6. Clean(s)'
  BY <1>2, <1>3 DEF TablesInv, Clean, Updating, Pass
<1>7. Tables(s)'
  <2>1. ASSUME NEW id \in Known
        PROVE  traderRow[id] # NoRow /\ IF Moving(s, id)' THEN Moved(s, id)' ELSE Agree(id)'
    <3>1. CASE id = h
      <4>1. traderRow[h] = mem[s][h] /\ \A st \in OrderStatus : statusRow[st][h] # NoRow => st = old[s]
        BY <1>1, <1>2, <1>5 DEF Moved
      <4>2. \A st \in OrderStatus : statusRow'[st][h] = NoRow
        BY <1>2, <1>4, <4>1
      <4> QED
        BY <1>2, <1>3, <3>1, <4>1, <4>2 DEF Moving, Moved
    <3>2. CASE id # h
      <4>1. ~ Moving(s, id)' /\ \A st \in OrderStatus : statusRow'[st][id] = statusRow[st][id]
        BY <1>3, <1>4, <1>5, <3>2 DEF Moving
      <4> QED
        BY <1>3, <1>5, <3>2, <4>1 DEF Agree
    <3> QED
      BY <3>1, <3>2
  <2> QED
    BY <1>2, <1>3, <2>1 DEF Tables, Known
<1>8. Coherent(s)'
  BY <1>1, <1>3 DEF TablesInv, Coherent, Loaded, Known
<1> QED
  BY <1>6, <1>7, <1>8 DEF TablesInv

\* An UpdateOrderAsync ends with its order's status row written.
LEMMA UpdatedTables ==
    ASSUME TypeOK, NEW s \in Sessions, TablesInv(s), pc[s] \in {"same", "insert"}, Updated(s),
           UNCHANGED << orders, traderRow, regs, mem, taker >>,
           \A id \in Known \ {Head(upd[s])} : \A st \in OrderStatus : statusRow'[st][id] = statusRow[st][id],
           \A st \in OrderStatus : statusRow'[st][Head(upd[s])]
               = IF st = mem[s][Head(upd[s])].status THEN mem[s][Head(upd[s])] ELSE NoRow
    PROVE  TablesInv(s)'
<1> DEFINE h == Head(upd[s])
<1>1. pc[s] \in Updating /\ pc[s] \in Pass
  BY DEF Updating, Pass
<1>2. /\ h \in Known /\ regs[s] = <<>> /\ Members(regs[s]) = {}
      /\ Members(upd[s]) = {h} \cup Members(Tail(upd[s]))
      /\ ~ (Len(upd[s]) > 1) => Tail(upd[s]) = <<>>
  BY <1>1, UpdateHead
<1>3. /\ upd'[s] = Tail(upd[s])
      /\ pc'[s] = IF Len(upd[s]) > 1 THEN "replace" ELSE IF settle[s] # <<>> THEN "settle" ELSE "next"
  BY DEF Updated, TypeOK, Types
<1>4. \A id \in Known : traderRow[id] # NoRow /\ IF id = h THEN Moved(s, id) ELSE Agree(id)
  BY <1>1, PassFacts DEF Moving
<1>5. traderRow[h] = mem[s][h]
  BY <1>2, <1>4 DEF Moved
<1>6. Clean(s)'
  BY <1>2, <1>3 DEF TablesInv, Clean, Updating, Pass
<1>7. ASSUME NEW id \in Known PROVE Agree(id)'
  <2>1. CASE id = h
    <3>1. \A st \in OrderStatus : statusRow'[st][id] = IF st = traderRow'[id].status THEN traderRow'[id] ELSE NoRow
      BY <1>5, <2>1
    <3> QED
      BY <3>1 DEF Agree
  <2>2. CASE id # h
    <3>1. Agree(id) /\ traderRow' = traderRow
      BY <1>4, <2>2
    <3>2. \A st \in OrderStatus : statusRow'[st][id] = statusRow[st][id]
      BY <2>2
    <3> QED
      BY <3>1, <3>2 DEF Agree
  <2> QED
    BY <2>1, <2>2
<1>8. Tables(s)'
  <2>1. \A id : ~ Moving(s, id)'
    BY <1>3 DEF Moving
  <2> QED
    BY <1>2, <1>4, <1>7, <2>1 DEF Tables, Known
<1>9. Coherent(s)'
  <2>1. \A id \in Known : /\ traderRow[id].status = "Registered" => id \in Loaded(s)
                          /\ id \in Loaded(s) \ Members(upd[s]) => mem[s][id] = traderRow[id]
    BY <1>1 DEF TablesInv, Coherent
  <2>2. \A id \in Known : id \in Loaded(s) \ Members(upd'[s]) => mem[s][id] = traderRow[id]
    BY <1>2, <1>3, <1>5, <2>1
  <2> QED
    BY <2>1, <2>2 DEF Coherent, Loaded, Known
<1> QED
  BY <1>6, <1>8, <1>9 DEF TablesInv

\* An order that keeps its status is written over in its partition.
LEMMA SameTables ==
    ASSUME TypeOK, NEW s \in Sessions, TablesInv(s), UpdateSame(s)
    PROVE  TablesInv(s)'
<1> DEFINE h == Head(upd[s])
<1>1. pc[s] = "same" /\ pc[s] \in Updating /\ pc[s] \in Pass
  BY DEF UpdateSame, Updating, Pass
<1>2. h \in Ids /\ h \in Known /\ traderRow[h] # NoRow /\ mem[s][h].status \in OrderStatus
  BY <1>1, UpdateHead
<1>3. Moved(s, h)
  BY <1>1, <1>2, PassFacts DEF Moving
<1>4. /\ old[s] = mem[s][h].status
      /\ \A st \in OrderStatus : statusRow[st][h] # NoRow <=> st = old[s]
  BY <1>1, <1>3 DEF Moved
<1>5. statusRow' = [statusRow EXCEPT ![old[s]][h] = mem[s][h]]
  BY <1>2, <1>4 DEF UpdateSame
<1>6. \A st \in OrderStatus, id \in Ids :
         statusRow'[st][id] = IF st = old[s] /\ id = h THEN mem[s][h] ELSE statusRow[st][id]
  BY <1>2, <1>5 DEF TypeOK, Types
<1>7. \A st \in OrderStatus : statusRow'[st][h] = IF st = mem[s][h].status THEN mem[s][h] ELSE NoRow
  BY <1>2, <1>4, <1>6
<1>8. \A id \in Known \ {h} : \A st \in OrderStatus : statusRow'[st][id] = statusRow[st][id]
  BY <1>6, KnownIds
<1>9. Updated(s) /\ UNCHANGED << orders, traderRow, regs, mem, taker >>
  BY DEF UpdateSame, loops
<1> QED
  BY <1>1, <1>7, <1>8, <1>9, UpdatedTables

\* The second table write of a move: the row enters the new partition.
LEMMA InsertTables ==
    ASSUME TypeOK, NEW s \in Sessions, TablesInv(s), UpdateInsert(s)
    PROVE  TablesInv(s)'
<1> DEFINE h == Head(upd[s])
<1>1. pc[s] = "insert" /\ pc[s] \in Updating /\ pc[s] \in Pass
  BY DEF UpdateInsert, Updating, Pass
<1>2. h \in Ids /\ h \in Known /\ traderRow[h] # NoRow /\ mem[s][h].status \in OrderStatus
  BY <1>1, UpdateHead
<1>3. Moved(s, h)
  BY <1>1, <1>2, PassFacts DEF Moving
<1>4. \A st \in OrderStatus : statusRow[st][h] = NoRow
  BY <1>1, <1>3 DEF Moved
<1>5. statusRow' = [statusRow EXCEPT ![mem[s][h].status][h] = mem[s][h]]
  BY DEF UpdateInsert
<1>6. \A st \in OrderStatus, id \in Ids :
         statusRow'[st][id] = IF st = mem[s][h].status /\ id = h THEN mem[s][h] ELSE statusRow[st][id]
  BY <1>2, <1>5 DEF TypeOK, Types
<1>7. \A st \in OrderStatus : statusRow'[st][h] = IF st = mem[s][h].status THEN mem[s][h] ELSE NoRow
  BY <1>2, <1>4, <1>6
<1>8. \A id \in Known \ {h} : \A st \in OrderStatus : statusRow'[st][id] = statusRow[st][id]
  BY <1>6, KnownIds
<1>9. Updated(s) /\ UNCHANGED << orders, traderRow, regs, mem, taker >>
  BY DEF UpdateInsert, loops
<1> QED
  BY <1>1, <1>7, <1>8, <1>9, UpdatedTables

\* With one session, every step is its own, but for requests, deposits and waiting.
LEMMA SerialStep ==
    ASSUME TypeOK, Serial, NEW s \in Sessions, Next
    PROVE  \/ Wait \/ (\E req \in Requests : Submit(s, req)) \/ Step(s)
           \/ \E t \in Traders, c \in Currencies, a \in DepositAmounts : Deposit(t, c, a)
<1>1. \A r \in Sessions : r = s /\ ~ Fail(r)
  BY DEF Serial, Fail, TypeOK, Types
<1> QED
  BY <1>1 DEF Next

\* Every step keeps the tables.
LEMMA NextTables ==
    ASSUME TypeOK, TypeOK', Serial, NEW s \in Sessions, TablesInv(s), [Next]_vars
    PROVE  TablesInv(s)'
<1>1. CASE UNCHANGED vars
  BY <1>1, FrameTables DEF vars, store, loops, posting
<1>2. CASE Wait
  BY <1>2, <1>1 DEF Wait
<1>3. ASSUME NEW t \in Traders, NEW c \in Currencies, NEW a \in DepositAmounts, Deposit(t, c, a)
      PROVE  TablesInv(s)'
  BY <1>3, FrameTables DEF Deposit, loops, posting
<1>4. CASE \E req \in Requests : Submit(s, req)
  BY <1>4, RegistrationTables
<1>5. CASE GenerateId(s) \/ RegisterStatus(s) \/ RegisterTrader(s)
  BY <1>5, RegistrationTables
<1>6. CASE NextMarket(s) \/ BeginLimits(s) \/ NextBuy(s) \/ Pick(s)
  <2>1. /\ pc[s] = "next" /\ pc'[s] \in {"next", "check1"}
        /\ UNCHANGED << orders, statusRow, traderRow, regs, mem, upd, old >>
    BY <1>6 DEF NextMarket, BeginLimits, NextBuy, Pick, store, posting, TypeOK, Types
  <2>2. pc[s] \in Pass \ Updating /\ pc'[s] \in Pass \ Updating
    BY <2>1 DEF Pass, Matching, Updating
  <2> QED
    BY <2>1, <2>2, FrameTables
<1>7. CASE CheckTaker(s)
  <2>1. pc[s] \in Matching /\ pc[s] \in Pass \ Updating
    BY <1>7 DEF CheckTaker, Matching, Pass, Updating
  <2>2. CASE Affordable(s, taker[s])
    <3>1. /\ pc'[s] = "check2"
          /\ UNCHANGED << orders, statusRow, traderRow, regs, mem, upd, old >>
      BY <1>7, <2>2 DEF CheckTaker, store, TypeOK, Types
    <3>2. pc'[s] \in Pass \ Updating
      BY <3>1 DEF Pass, Matching, Updating
    <3> QED
      BY <2>1, <3>1, <3>2, FrameTables
  <2>3. CASE ~ Affordable(s, taker[s])
    BY <1>7, <2>1, <2>3, CancelTables DEF CheckTaker
  <2> QED
    BY <2>2, <2>3
<1>8. CASE CheckMaker(s)
  <2>1. pc[s] \in Matching
    BY <1>8 DEF CheckMaker, Matching
  <2>2. CASE Affordable(s, maker[s])
    BY <1>8, <2>2, MatchTables
  <2>3. CASE ~ Affordable(s, maker[s])
    BY <1>8, <2>1, <2>3, CancelTables DEF CheckMaker
  <2> QED
    BY <2>2, <2>3
<1>9. CASE Settle(s)
  <2>1. /\ pc[s] = "settle" /\ pc'[s] \in {"next", "settle"}
        /\ UNCHANGED << orders, statusRow, traderRow, regs, mem, upd, old >>
    BY <1>9 DEF Settle, loops, TypeOK, Types
  <2>2. pc[s] \in Pass \ Updating /\ pc'[s] \in Pass \ Updating
    BY <2>1 DEF Pass, Matching, Updating
  <2> QED
    BY <2>1, <2>2, FrameTables
<1> QED
  BY <1>1, <1>2, <1>3, <1>4, <1>5, <1>6, <1>7, <1>8, <1>9, SerialStep, LoadTables, EndTables,
     ReplaceTables, SameTables, DeleteTables, InsertTables DEF Step

\* At first there are no orders.
LEMMA InitTables ==
    ASSUME Init, NEW s \in Sessions
    PROVE  TablesInv(s)
<1>1. /\ pc[s] = "idle" /\ regs[s] = <<>> /\ upd[s] = <<>> /\ mem[s] = Blank /\ taker[s] = 0
      /\ orders = <<>>
  BY DEF Init
<1>2. Known = {}
  BY <1>1, EmptySeq DEF Known
<1> QED
  BY <1>1, <1>2, EmptySeq DEF TablesInv, Clean, Tables, Coherent, Pass, Matching, Updating

\* One request at a time, none cut short: outside an update, an order is in exactly the
\* status partition its trader's row names.
THEOREM PartitionsAlwaysAgree == Serial => (Spec => []PartitionsAgree)
<1> SUFFICES ASSUME Serial PROVE Spec => []PartitionsAgree
  OBVIOUS
<1> DEFINE IInv == \A s \in Sessions : TablesInv(s)
<1>1. Init => TypeOK /\ IInv
  BY InitTypes, InitTables
<1>2. TypeOK /\ IInv /\ [Next]_vars => (TypeOK /\ IInv)'
  BY NextTypes, NextTables
<1>3. TypeOK /\ IInv => PartitionsAgree
  <2> SUFFICES ASSUME TypeOK, IInv, NEW id \in Known, traderRow[id] # NoRow, ~ BeingUpdated(id)
               PROVE  Agree(id)
    BY DEF PartitionsAgree, Agree
  <2>1. PICK s \in Sessions : TablesInv(s)
    BY DEF Serial
  <2>2. ~ Moving(s, id)
    BY DEF Moving, BeingUpdated
  <2> QED
    BY <2>1, <2>2 DEF TablesInv, Tables
<1> HIDE DEF IInv
<1> QED
  BY <1>1, <1>2, <1>3, PTL DEF Spec

-----------------------------------------------------------------------------
(* One request at a time: the balances.                                    *)

\* Deposits add; and nobody starts below zero.
DepositsAdd == DepositAmounts \subseteq Nat
NonNegative == DepositsAdd /\ \A t \in Traders, c \in Currencies : InitialBalance[t][c] >= 0

\* A balance covers what is still to be taken from it, and nothing else takes from it.
Covered(s) ==
    /\ \A j, k \in 1..Len(settle[s]) :
          settle[s][j].trader = settle[s][k].trader /\ settle[s][j].ccy = settle[s][k].ccy => j = k
    /\ \A k \in 1..Len(settle[s]) :
          balance[settle[s][k].trader][settle[s][k].ccy] + settle[s][k].delta >= 0

\* The strengthening of NoOverdraft: inductive with Checked.
Solid(s) == NoOverdraft /\ Covered(s)

\* What CheckIfEnoughBalance said of order1 still holds when order2 is checked.
Checked(s) == pc[s] = "check2" => Affordable(s, taker[s])

\* Whoever could pay still can after a deposit.
LEMMA EnoughMonotone ==
    ASSUME NEW o \in TraderOrder, NEW amount \in Int,
           NEW b \in [Currencies -> Int], NEW d \in [Currencies -> Int],
           \A c \in Currencies : b[c] =< d[c], CheckIfEnoughBalance(o, amount, b)
    PROVE  CheckIfEnoughBalance(o, amount, d)
<1>1. o.asset \in Assets /\ o.volume \in Int
  BY DEF TraderOrder, MarketOrder, LimitOrder
<1>2. BaseOf[o.asset] \in Currencies /\ QuotingOf[o.asset] \in Currencies
  BY <1>1, InstrumentAssumption
<1> QED
  BY <1>1, <1>2 DEF CheckIfEnoughBalance

\* The two postings of an order whose trader passes the check.
LEMMA PostingsCovered ==
    ASSUME NEW o \in TraderOrder, NEW amount \in Nat, NEW b \in [Currencies -> Int],
           \A c \in Currencies : b[c] >= 0, CheckIfEnoughBalance(o, amount, b)
    PROVE  \E p, q \in Posting :
              /\ ChangeBalance(o, amount) = << p, q >>
              /\ p.trader = o.trader /\ q.trader = o.trader /\ p.ccy # q.ccy
              /\ b[p.ccy] + p.delta >= 0 /\ b[q.ccy] + q.delta >= 0
<1>1. o.asset \in Assets /\ o.volume \in Nat /\ o.trader \in Traders /\ o.action \in {"Buy", "Sell"}
  BY DEF TraderOrder, MarketOrder, LimitOrder
<1>2. /\ BaseOf[o.asset] \in Currencies /\ QuotingOf[o.asset] \in Currencies
      /\ BaseOf[o.asset] # QuotingOf[o.asset]
  BY <1>1, InstrumentAssumption
<1> DEFINE B == BaseOf[o.asset]
           Q == QuotingOf[o.asset]
           quoting == IF o.action = "Buy" THEN o.volume ELSE -o.volume
           base == IF o.action = "Buy" THEN -amount ELSE amount
<1>3. ChangeBalance(o, amount) = << Post(o.trader, Q, quoting), Post(o.trader, B, base) >>
  BY <1>1 DEF ChangeBalance
<1>4. /\ quoting \in Int /\ base \in Int
      /\ b[Q] + quoting >= 0 /\ b[B] + base >= 0
  BY <1>1, <1>2 DEF CheckIfEnoughBalance
<1> HIDE DEF quoting, base, B, Q
<1>5. /\ Post(o.trader, Q, quoting) \in Posting /\ Post(o.trader, B, base) \in Posting
      /\ Post(o.trader, Q, quoting).trader = o.trader /\ Post(o.trader, B, base).trader = o.trader
      /\ Post(o.trader, Q, quoting).ccy = Q /\ Post(o.trader, B, base).ccy = B
      /\ Post(o.trader, Q, quoting).delta = quoting /\ Post(o.trader, B, base).delta = base
  BY <1>1, <1>2, <1>4 DEF Post, Posting, B, Q
<1> QED
  BY <1>2, <1>3, <1>4, <1>5 DEF B, Q

\* A deposit takes from no balance.
LEMMA DepositGrows ==
    ASSUME TypeOK, DepositsAdd, NEW t \in Traders, NEW c \in Currencies, NEW a \in DepositAmounts,
           Deposit(t, c, a)
    PROVE  \A u \in Traders, d \in Currencies :
              balance[u][d] \in Int /\ balance'[u][d] \in Int /\ balance[u][d] =< balance'[u][d]
<1>1. a \in Nat
  BY DEF DepositsAdd
<1>2. balance' = [balance EXCEPT ![t][c] = @ + a] /\ balance \in [Traders -> [Currencies -> Int]]
  BY DEF Deposit, TypeOK, Types
<1> SUFFICES ASSUME NEW u \in Traders, NEW d \in Currencies
             PROVE  /\ balance[u][d] \in Int /\ balance'[u][d] \in Int
                    /\ balance[u][d] =< balance'[u][d]
  OBVIOUS
<1>3. balance'[u][d] = IF u = t /\ d = c THEN balance[u][d] + a ELSE balance[u][d]
  BY <1>2
<1>4. balance[u][d] \in Int
  BY <1>2
<1> QED
  BY <1>1, <1>3, <1>4

\* Who can pay can still pay after a deposit.
LEMMA DepositChecked ==
    ASSUME TypeOK, TypeOK', DepositsAdd, NEW s \in Sessions, Checked(s),
           NEW t \in Traders, NEW c \in Currencies, NEW a \in DepositAmounts, Deposit(t, c, a)
    PROVE  Checked(s)'
<1>1. UNCHANGED << orders, mem, taker, maker, pc >>
  BY DEF Deposit, loops
<1> SUFFICES ASSUME pc[s] = "check2" PROVE Affordable(s, taker[s])'
  BY <1>1 DEF Checked
<1> DEFINE o == orders[taker[s]]
           x == Amount(s, taker[s])
<1>2. pc[s] \in Matching
  BY DEF Matching
<1>3. o \in TraderOrder /\ x \in Int /\ o.trader \in Traders
  <2>1. o \in TraderOrder /\ x \in Int
    BY <1>2, MatchFacts, AmountTyped
  <2> QED
    BY <2>1 DEF TraderOrder, MarketOrder, LimitOrder
<1>4. CheckIfEnoughBalance(o, x, balance[o.trader])
  BY DEF Checked, Affordable
<1>5. /\ balance[o.trader] \in [Currencies -> Int] /\ balance'[o.trader] \in [Currencies -> Int]
      /\ \A d \in Currencies : balance[o.trader][d] =< balance'[o.trader][d]
  BY <1>3, DepositGrows DEF TypeOK, Types
<1>6. x' = x /\ o' = o
  BY <1>1 DEF Amount, ExchangeVolume, ExchangePrice
<1> HIDE DEF o, x
<1>7. CheckIfEnoughBalance(o, x, balance'[o.trader])
  BY <1>3, <1>4, <1>5, EnoughMonotone
<1> QED
  BY <1>1, <1>6, <1>7 DEF Affordable, o, x

\* Nothing is taken from order1's trader between its check and order2's.
LEMMA NextChecked ==
    ASSUME TypeOK, TypeOK', Serial, DepositsAdd, NEW s \in Sessions, Checked(s), [Next]_vars
    PROVE  Checked(s)'
<1>1. ASSUME pc'[s] = "check2", pc[s] = "check2" \/ Affordable(s, taker[s]),
             UNCHANGED << orders, mem, taker, maker, balance >>
      PROVE  Checked(s)'
  <2>1. Affordable(s, taker[s])
    BY <1>1 DEF Checked
  <2> QED
    BY <1>1, <2>1 DEF Checked, Affordable, Amount, ExchangeVolume, ExchangePrice
<1>2. ASSUME pc'[s] # "check2" PROVE Checked(s)'
  BY <1>2 DEF Checked
<1>3. CASE UNCHANGED vars \/ Wait
  BY <1>1, <1>2, <1>3 DEF Wait, vars, store, loops
<1>4. CASE CheckTaker(s)
  <2>1. CASE Affordable(s, taker[s])
    BY <1>1, <1>4, <2>1 DEF CheckTaker, store, TypeOK, Types
  <2>2. CASE ~ Affordable(s, taker[s])
    BY <1>2, <1>4, <2>2 DEF CheckTaker, Cancel, TypeOK, Types
  <2> QED
    BY <2>1, <2>2
<1>5. CASE \E req \in Requests : Submit(s, req)
  BY <1>2, <1>5 DEF Submit, TypeOK, Types
<1>6. CASE Step(s) /\ ~ CheckTaker(s)
  BY <1>2, <1>6 DEF Step, GenerateId, RegisterStatus, RegisterTrader, Load, NextMarket, BeginLimits,
     NextBuy, Pick, EndPass, Forget, CheckMaker, Cancel, UpdateReplace, UpdateSame, UpdateDelete,
     UpdateInsert, Updated, Settle, TypeOK, Types
<1> QED
  BY <1>3, <1>4, <1>5, <1>6, SerialStep, DepositChecked

\* Steps that touch no balance.
LEMMA FrameSolid ==
    ASSUME NEW s \in Sessions, Solid(s), balance' = balance, settle'[s] = settle[s]
    PROVE  Solid(s)'
  BY DEF Solid, NoOverdraft, Covered

\* A deposit covers what was covered.
LEMMA DepositSolid ==
    ASSUME TypeOK, DepositsAdd, NEW s \in Sessions, Solid(s),
           NEW t \in Traders, NEW c \in Currencies, NEW a \in DepositAmounts, Deposit(t, c, a)
    PROVE  Solid(s)'
<1>1. settle' = settle
  BY DEF Deposit, posting
<1>2. \A u \in Traders, d \in Currencies :
         balance[u][d] \in Int /\ balance'[u][d] \in Int /\ balance[u][d] =< balance'[u][d]
  BY DepositGrows
<1>3. NoOverdraft'
  BY <1>2 DEF Solid, NoOverdraft
<1>4. ASSUME NEW k \in 1..Len(settle[s])
      PROVE  balance'[settle[s][k].trader][settle[s][k].ccy] + settle[s][k].delta >= 0
  <2>1. settle[s][k] \in Posting
    BY DEF TypeOK, Types
  <2>2. settle[s][k].trader \in Traders /\ settle[s][k].ccy \in Currencies /\ settle[s][k].delta \in Int
    BY <2>1 DEF Posting
  <2>3. balance[settle[s][k].trader][settle[s][k].ccy] + settle[s][k].delta >= 0
    BY DEF Solid, Covered
  <2> QED
    BY <1>2, <2>2, <2>3
<1> QED
  BY <1>1, <1>3, <1>4 DEF Solid, Covered

\* A match of two orders that were both checked is covered.
LEMMA MatchSolid ==
    ASSUME TypeOK, AllGood, NEW s \in Sessions, Checked(s), Solid(s), CheckMaker(s),
           Affordable(s, maker[s])
    PROVE  Solid(s)'
<1> DEFINE o == orders[taker[s]]
           l == orders[maker[s]]
           x == Amount(s, taker[s])
           y == Amount(s, maker[s])
<1>1. pc[s] \in Matching /\ pc[s] = "check2"
  BY DEF CheckMaker, Matching
<1>2. /\ o \in TraderOrder /\ l \in TraderOrder /\ x \in Nat /\ y \in Nat /\ o.trader # l.trader
      /\ o.trader \in Traders /\ l.trader \in Traders
  <2>1. o \in TraderOrder /\ l \in TraderOrder /\ x \in Nat /\ y \in Nat
    BY <1>1, MatchFacts, MatchTerms
  <2>2. CanTrade(o, l)
    BY <1>1 DEF TypeOK, Ready
  <2> QED
    BY <2>1, <2>2, TradersDiffer DEF TraderOrder, MarketOrder, LimitOrder
<1>3. /\ CheckIfEnoughBalance(o, x, balance[o.trader])
      /\ CheckIfEnoughBalance(l, y, balance[l.trader])
  BY <1>1 DEF Checked, Affordable
<1>4. /\ balance' = balance /\ settle'[s] = ChangeBalance(o, x) \o ChangeBalance(l, y)
      /\ pc'[s] = "replace"
  BY DEF CheckMaker, store, TypeOK, Types
<1>5. \A t \in Traders : balance[t] \in [Currencies -> Int] /\ \A c \in Currencies : balance[t][c] >= 0
  BY DEF TypeOK, Types, Solid, NoOverdraft
<1> HIDE DEF o, l, x, y
<1>6. PICK p1 \in Posting, p2 \in Posting :
         /\ ChangeBalance(o, x) = << p1, p2 >>
         /\ p1.trader = o.trader /\ p2.trader = o.trader /\ p1.ccy # p2.ccy
         /\ balance[o.trader][p1.ccy] + p1.delta >= 0 /\ balance[o.trader][p2.ccy] + p2.delta >= 0
  BY <1>2, <1>3, <1>5, PostingsCovered
<1>7. PICK p3 \in Posting, p4 \in Posting :
         /\ ChangeBalance(l, y) = << p3, p4 >>
         /\ p3.trader = l.trader /\ p4.trader = l.trader /\ p3.ccy # p4.ccy
         /\ balance[l.trader][p3.ccy] + p3.delta >= 0 /\ balance[l.trader][p4.ccy] + p4.delta >= 0
  BY <1>2, <1>3, <1>5, PostingsCovered
<1> DEFINE q == << p1, p2 >> \o << p3, p4 >>
<1>8. Len(q) = 4 /\ q[1] = p1 /\ q[2] = p2 /\ q[3] = p3 /\ q[4] = p4
  <2>1. /\ << p1, p2 >> \in Seq(Posting) /\ Len(<< p1, p2 >>) = 2
        /\ << p3, p4 >> \in Seq(Posting) /\ Len(<< p3, p4 >>) = 2
    OBVIOUS
  <2> QED
    BY <2>1, ConcatProperties
<1>9. settle'[s] = q
  BY <1>4, <1>6, <1>7
<1> HIDE DEF q
<1>10. 1..Len(q) = {1, 2, 3, 4}
  BY <1>8
<1>11. \A j, k \in 1..Len(q) : q[j].trader = q[k].trader /\ q[j].ccy = q[k].ccy => j = k
  BY <1>2, <1>6, <1>7, <1>8, <1>10
<1>12. \A k \in 1..Len(q) : balance[q[k].trader][q[k].ccy] + q[k].delta >= 0
  BY <1>6, <1>7, <1>8, <1>10
<1> QED
  BY <1>4, <1>9, <1>11, <1>12 DEF Solid, NoOverdraft, Covered

\* A posting made leaves the others covered: no two charge one balance.
LEMMA SettleSolid ==
    ASSUME TypeOK, NEW s \in Sessions, Solid(s), Settle(s)
    PROVE  Solid(s)'
<1> DEFINE p == Head(settle[s])
           q == settle[s]
           r == Tail(q)
<1>1. q \in Seq(Posting) /\ q # <<>>
  BY DEF Settle, TypeOK, Types, Ready
<1>2. /\ p \in Posting /\ p = q[1] /\ 1 \in 1..Len(q)
      /\ \A k \in 1..Len(r) : r[k] = q[k + 1] /\ k + 1 \in 1..Len(q) /\ k + 1 # 1
  BY <1>1, HeadTail
<1>3. /\ balance' = [balance EXCEPT ![p.trader][p.ccy] = @ + p.delta]
      /\ settle'[s] = r /\ pc'[s] # "check2"
  BY DEF Settle, TypeOK, Types
<1>4. /\ \A j, k \in 1..Len(q) : q[j].trader = q[k].trader /\ q[j].ccy = q[k].ccy => j = k
      /\ \A k \in 1..Len(q) : balance[q[k].trader][q[k].ccy] + q[k].delta >= 0
  BY DEF Solid, Covered
<1>5. balance \in [Traders -> [Currencies -> Int]]
  BY DEF TypeOK, Types
<1>6. \A t \in Traders, c \in Currencies :
         balance'[t][c] = IF t = p.trader /\ c = p.ccy THEN balance[t][c] + p.delta ELSE balance[t][c]
  BY <1>2, <1>3, <1>5 DEF Posting
<1>7. \A k \in 1..Len(q) : q[k].trader \in Traders /\ q[k].ccy \in Currencies
  <2>1. \A k \in 1..Len(q) : q[k] \in Posting
    BY <1>1
  <2> QED
    BY <2>1 DEF Posting
<1> HIDE DEF p, q, r
<1>8. NoOverdraft'
  <2>1. balance[p.trader][p.ccy] + p.delta >= 0
    BY <1>2, <1>4
  <2>2. \A t \in Traders, c \in Currencies : balance[t][c] >= 0
    BY DEF Solid, NoOverdraft
  <2> QED
    BY <1>6, <2>1, <2>2 DEF NoOverdraft
<1>9. \A j, k \in 1..Len(r) : r[j].trader = r[k].trader /\ r[j].ccy = r[k].ccy => j = k
  <2> SUFFICES ASSUME NEW j \in 1..Len(r), NEW k \in 1..Len(r),
                      r[j].trader = r[k].trader, r[j].ccy = r[k].ccy
               PROVE  j = k
    OBVIOUS
  <2>1. j + 1 = k + 1
    BY <1>2, <1>4
  <2> QED
    BY <2>1
<1>10. ASSUME NEW k \in 1..Len(r) PROVE balance'[r[k].trader][r[k].ccy] + r[k].delta >= 0
  <2>1. r[k] = q[k + 1] /\ k + 1 \in 1..Len(q) /\ k + 1 # 1
    BY <1>2
  <2>2. ~ (r[k].trader = p.trader /\ r[k].ccy = p.ccy)
    BY <1>2, <1>4, <2>1
  <2>3. balance'[r[k].trader][r[k].ccy] = balance[r[k].trader][r[k].ccy]
    BY <1>6, <1>7, <2>1, <2>2
  <2> QED
    BY <1>4, <2>1, <2>3
<1> QED
  BY <1>3, <1>8, <1>9, <1>10 DEF Solid, Covered

\* Every step keeps the balances solid.
LEMMA NextSolid ==
    ASSUME TypeOK, AllGood, NothingOwed, Serial, DepositsAdd, NEW s \in Sessions,
           Checked(s), Solid(s), [Next]_vars
    PROVE  Solid(s)'
<1>1. CASE UNCHANGED vars
  BY <1>1, FrameSolid DEF vars, store, loops, posting
<1>2. CASE Wait
  BY <1>2, <1>1 DEF Wait
<1>3. CASE \E req \in Requests : Submit(s, req)
  BY <1>3, FrameSolid DEF Submit, store, posting, TypeOK, Types
<1>4. CASE GenerateId(s) \/ RegisterStatus(s) \/ RegisterTrader(s)
  BY <1>4, FrameSolid DEF GenerateId, RegisterStatus, RegisterTrader, posting, TypeOK, Types
<1>5. CASE Load(s) \/ NextMarket(s) \/ BeginLimits(s) \/ NextBuy(s) \/ Pick(s)
  BY <1>5, FrameSolid DEF Load, NextMarket, BeginLimits, NextBuy, Pick, store, posting, TypeOK, Types
<1>6. CASE EndPass(s)
  <2>1. settle[s] = <<>>
    BY <1>6 DEF EndPass, NothingOwed, Updating
  <2>2. settle'[s] = <<>> /\ balance' = balance
    BY <1>6 DEF EndPass, Forget, store, TypeOK, Types
  <2> QED
    BY <2>1, <2>2, FrameSolid
<1>7. CASE CheckTaker(s)
  BY <1>7, FrameSolid DEF CheckTaker, Cancel, store, TypeOK, Types
<1>8. CASE CheckMaker(s)
  <2>1. CASE Affordable(s, maker[s])
    BY <1>8, <2>1, MatchSolid
  <2>2. CASE ~ Affordable(s, maker[s])
    BY <1>8, <2>2, FrameSolid DEF CheckMaker, Cancel, store, TypeOK, Types
  <2> QED
    BY <2>1, <2>2
<1>9. CASE UpdateReplace(s) \/ UpdateSame(s) \/ UpdateDelete(s) \/ UpdateInsert(s)
  <2>1. settle'[s] = settle[s] /\ balance' = balance
    BY <1>9 DEF UpdateReplace, UpdateSame, UpdateDelete, UpdateInsert, Updated, posting, TypeOK, Types
  <2> QED
    BY <2>1, FrameSolid
<1> QED
  BY <1>1, <1>2, <1>3, <1>4, <1>5, <1>6, <1>7, <1>8, <1>9, SerialStep, SettleSolid, DepositSolid DEF Step

\* One request at a time: what CheckIfEnoughBalance read is still there when the match it
\* allowed is settled, so no balance ever falls below zero.
THEOREM NeverOverdrawn == Serial /\ NonNegative => (Spec => []NoOverdraft)
<1> SUFFICES ASSUME Serial, NonNegative PROVE Spec => []NoOverdraft
  OBVIOUS
<1> DEFINE IInv == \A s \in Sessions : Checked(s) /\ Solid(s)
<1>1. Init => TypeOK /\ AllGood /\ NothingOwed /\ IInv
  <2> SUFFICES ASSUME Init PROVE IInv
    BY InitTypes, InitGood, InitOwed
  <2>1. NoOverdraft
    BY DEF Init, NonNegative, NoOverdraft
  <2>2. \A s \in Sessions : pc[s] = "idle" /\ settle[s] = <<>>
    BY DEF Init
  <2> QED
    BY <2>1, <2>2, EmptySeq DEF Checked, Solid, Covered
<1>2. TypeOK /\ AllGood /\ NothingOwed /\ IInv /\ [Next]_vars
         => (TypeOK /\ AllGood /\ NothingOwed /\ IInv)'
  BY NextTypes, NextGood, NextOwed, NextChecked, NextSolid DEF NonNegative
<1>3. IInv => NoOverdraft
  BY DEF Serial, Solid
<1> HIDE DEF IInv
<1> QED
  BY <1>1, <1>2, <1>3, PTL DEF Spec

-----------------------------------------------------------------------------
(* One request at a time: what a pass leaves to be matched.                *)

\* An order is being matched, or its loop is not over.
Busy(s) == todo[s] # {} \/ pc[s] # "next"

\* Where the inner loop is: what it has still to try is open, and all that is left.
Inner(s) ==
    /\ todo[s] \subseteq Live(s)
    /\ pc[s] \in Matching => maker[s] \in Live(s) \ todo[s]
    /\ taker[s] \in Loaded(s) /\ mem[s][taker[s]].status = "Registered" =>
          Partners(s, taker[s]) \subseteq todo[s] \cup (IF pc[s] \in Matching THEN {maker[s]} ELSE {})
    /\ pc[s] \in Matching /\ phase[s] = "market" =>
          \A k \in todo[s] :
             ~ BetterPrice(orders[taker[s]], orders[k].price, orders[maker[s]].price)

\* Where the outer loops are: what they have done with leaves nothing to match.
Outer(s) ==
    /\ \A q \in queue[s] : IF phase[s] = "market" THEN orders[q].kind = "Market"
                           ELSE orders[q].kind = "Limit"
    /\ Busy(s) => IF phase[s] = "market" THEN taker[s] \in queue[s]
                  ELSE orders[taker[s]].kind = "Limit"
    /\ \A i \in Loaded(s) :
          orders[i].kind = "Market" /\ (phase[s] = "limit" \/ i \notin queue[s]) =>
             IsOrderFullfiled(orders[i], mem[s][i]) \/ Partners(s, i) = {}
    /\ phase[s] = "limit" =>
          \A b \in Live(s) \ (queue[s] \cup {taker[s]}) :
             orders[b].action = "Buy" => Partners(s, b) = {}

\* What holds throughout a pass.
Passing(s) == pc[s] \in Pass => Inner(s) /\ Outer(s)

\* What the loops look at depends on the copies only.
LEMMA SameCopies ==
    ASSUME NEW s \in Sessions, orders' = orders, mem'[s] = mem[s]
    PROVE  /\ Loaded(s)' = Loaded(s) /\ Live(s)' = Live(s)
           /\ \A i : Partners(s, i)' = Partners(s, i)
<1>1. Loaded(s)' = Loaded(s)
  BY DEF Loaded
<1>2. Live(s)' = Live(s)
  BY <1>1 DEF Live
<1>3. ASSUME NEW i PROVE Partners(s, i)' = Partners(s, i)
  BY <1>2 DEF Partners
<1> QED
  BY <1>1, <1>2, <1>3

\* Steps that change neither a copy nor a loop: between updates and settlements, or
\* between the two checks of a match.
LEMMA FramePassing ==
    ASSUME NEW s \in Sessions, Passing(s), pc[s] \in Pass,
           UNCHANGED << orders, mem, phase, queue, todo, taker, maker >>,
           \/ pc'[s] = pc[s]
           \/ pc[s] = "check1" /\ pc'[s] = "check2"
           \/ pc[s] \in Updating \cup {"settle"} /\ pc'[s] \notin Matching
    PROVE  Passing(s)'
<1>1. /\ Loaded(s)' = Loaded(s) /\ Live(s)' = Live(s)
      /\ \A i : Partners(s, i)' = Partners(s, i)
  BY SameCopies
<1>2. (pc'[s] \in Matching <=> pc[s] \in Matching) /\ (Busy(s)' => Busy(s))
  BY DEF Matching, Updating, Busy
<1>3. Inner(s)'
  <2>1. Inner(s) /\ Partners(s, taker[s])' = Partners(s, taker[s])
    <3>1. Partners(s, taker[s])' = Partners(s, taker[s])
      BY <1>1 DEF Partners
    <3> QED
      BY <3>1 DEF Passing
  <2> QED
    BY <1>1, <1>2, <2>1 DEF Inner
<1>4. Outer(s)'
  <2>1. Outer(s)
    BY DEF Passing
  <2> QED
    BY <1>1, <1>2, <2>1 DEF Outer
<1> QED
  BY <1>3, <1>4 DEF Passing

\* Nothing has been tried yet, and every market order is queued.
LEMMA LoadPassing ==
    ASSUME TypeOK, NEW s \in Sessions, TablesInv(s), Load(s)
    PROVE  Passing(s)'
<1>1. /\ pc[s] = "load" /\ pc'[s] = "next" /\ phase'[s] = "market"
      /\ queue'[s] = {id \in Ids : /\ statusRow["Registered"][id] # NoRow
                                   /\ orders[id].kind = "Market"}
      /\ mem'[s] = statusRow["Registered"]
      /\ UNCHANGED << orders, todo, taker, maker >>
  BY DEF Load, store, TypeOK, Types
<1>2. todo[s] = {} /\ taker[s] = 0
  <2>1. pc[s] \notin Pass
    BY <1>1 DEF Pass, Matching, Updating
  <2> QED
    BY <2>1 DEF TypeOK, Ready, TablesInv, Clean
<1>3. ~ Busy(s)'
  BY <1>1, <1>2 DEF Busy
<1>4. taker'[s] \notin Loaded(s)'
  BY <1>1, <1>2 DEF Loaded, Ids
<1>5. Inner(s)'
  BY <1>1, <1>2, <1>4 DEF Inner, Matching
<1>6. Outer(s)'
  <2>1. \A i \in Loaded(s)' : orders[i].kind = "Market" => i \in queue'[s]
    BY <1>1 DEF Loaded
  <2> QED
    BY <1>1, <1>3, <2>1 DEF Outer
<1> QED
  BY <1>5, <1>6 DEF Passing

\* The next market order, when the last has been dealt with.
LEMMA NextMarketPassing ==
    ASSUME TypeOK, NEW s \in Sessions, Passing(s), NextMarket(s)
    PROVE  Passing(s)'
<1>1. /\ pc[s] = "next" /\ phase[s] = "market" /\ todo[s] = {}
      /\ UNCHANGED << orders, pc, mem, phase, maker >>
  BY DEF NextMarket, store
<1>2. PICK m \in queue[s] :
         \/ /\ IsOrderFullfiled(orders[m], mem[s][m]) \/ Partners(s, m) = {}
            /\ queue' = [queue EXCEPT ![s] = @ \ {m}]
            /\ UNCHANGED << todo, taker >>
         \/ /\ todo' = [todo EXCEPT ![s] = Partners(s, m)]
            /\ taker' = [taker EXCEPT ![s] = m]
            /\ UNCHANGED queue
  BY DEF NextMarket
<1>3. /\ Loaded(s)' = Loaded(s) /\ Live(s)' = Live(s)
      /\ \A i : Partners(s, i)' = Partners(s, i)
  BY <1>1, SameCopies
<1>4. Inner(s) /\ Outer(s) /\ pc[s] \notin Matching
  BY <1>1 DEF Passing, Pass, Matching
<1>5. CASE /\ IsOrderFullfiled(orders[m], mem[s][m]) \/ Partners(s, m) = {}
           /\ queue' = [queue EXCEPT ![s] = @ \ {m}]
           /\ UNCHANGED << todo, taker >>
  <2>1. queue'[s] = queue[s] \ {m} /\ ~ Busy(s)'
    BY <1>1, <1>5 DEF TypeOK, Types, Busy
  <2>2. Inner(s)'
    <3>1. Partners(s, taker[s])' = Partners(s, taker[s])
      BY <1>1, <1>3, <1>5 DEF Partners
    <3> QED
      BY <1>1, <1>3, <1>4, <1>5, <3>1 DEF Inner
  <2>3. \A i \in Loaded(s) :
           orders[i].kind = "Market" /\ i \notin queue'[s] =>
              IsOrderFullfiled(orders[i], mem[s][i]) \/ Partners(s, i) = {}
    BY <1>1, <1>4, <1>5, <2>1 DEF Outer
  <2>4. Outer(s)'
    BY <1>1, <1>3, <1>4, <2>1, <2>3 DEF Outer
  <2> QED
    BY <2>2, <2>4 DEF Passing
<1>6. CASE /\ todo' = [todo EXCEPT ![s] = Partners(s, m)]
           /\ taker' = [taker EXCEPT ![s] = m]
           /\ UNCHANGED queue
  <2>1. todo'[s] = Partners(s, m) /\ taker'[s] = m /\ queue'[s] = queue[s]
    BY <1>6 DEF TypeOK, Types
  <2>2. Partners(s, m) \subseteq Live(s)
    BY DEF Partners
  <2>3. Inner(s)'
    <3>1. Partners(s, taker[s])' = Partners(s, m)
      BY <1>1, <1>3, <2>1 DEF Partners
    <3> QED
      BY <1>1, <1>3, <1>4, <2>1, <2>2, <3>1 DEF Inner
  <2>4. Outer(s)'
    BY <1>1, <1>3, <1>4, <2>1 DEF Outer
  <2> QED
    BY <2>3, <2>4 DEF Passing
<1> QED
  BY <1>2, <1>5, <1>6

\* The market orders are all dealt with.
LEMMA BeginLimitsPassing ==
    ASSUME TypeOK, NEW s \in Sessions, Passing(s), BeginLimits(s)
    PROVE  Passing(s)'
<1>1. /\ pc[s] = "next" /\ phase[s] = "market" /\ todo[s] = {} /\ queue[s] = {}
      /\ phase'[s] = "limit" /\ queue'[s] = {b \in Live(s) : orders[b].action = "Buy"}
      /\ UNCHANGED << orders, pc, mem, todo, taker, maker >>
  BY DEF BeginLimits, store, TypeOK, Types
<1>2. /\ Loaded(s)' = Loaded(s) /\ Live(s)' = Live(s)
      /\ \A i : Partners(s, i)' = Partners(s, i)
  BY <1>1, SameCopies
<1>3. Inner(s) /\ Outer(s) /\ pc[s] \notin Matching /\ ~ Busy(s)'
  BY <1>1 DEF Passing, Pass, Matching, Busy
<1>4. Inner(s)'
  <2>1. Partners(s, taker[s])' = Partners(s, taker[s])
    BY <1>1, <1>2 DEF Partners
  <2> QED
    BY <1>1, <1>2, <1>3, <2>1 DEF Inner
<1>5. Outer(s)'
  <2>1. \A q \in queue'[s] : orders[q].kind = "Limit"
    BY <1>1 DEF Live
  <2>2. \A i \in Loaded(s) : orders[i].kind = "Market" =>
           IsOrderFullfiled(orders[i], mem[s][i]) \/ Partners(s, i) = {}
    BY <1>1, <1>3 DEF Outer
  <2> QED
    BY <1>1, <1>2, <1>3, <2>1, <2>2 DEF Outer
<1> QED
  BY <1>4, <1>5 DEF Passing

\* The next limit order to buy.
LEMMA NextBuyPassing ==
    ASSUME TypeOK, NEW s \in Sessions, Passing(s), NextBuy(s)
    PROVE  Passing(s)'
<1>1. /\ pc[s] = "next" /\ phase[s] = "limit" /\ todo[s] = {}
      /\ UNCHANGED << orders, pc, mem, phase, maker >>
  BY DEF NextBuy, store
<1>2. PICK b \in queue[s] :
         /\ queue' = [queue EXCEPT ![s] = @ \ {b}]
         /\ todo' = [todo EXCEPT ![s] = Partners(s, b)]
         /\ taker' = [taker EXCEPT ![s] = b]
  BY DEF NextBuy
<1>3. queue'[s] = queue[s] \ {b} /\ todo'[s] = Partners(s, b) /\ taker'[s] = b
  BY <1>2 DEF TypeOK, Types
<1>4. /\ Loaded(s)' = Loaded(s) /\ Live(s)' = Live(s)
      /\ \A i : Partners(s, i)' = Partners(s, i)
  BY <1>1, SameCopies
<1>5. Inner(s) /\ Outer(s) /\ pc[s] \notin Matching
  BY <1>1 DEF Passing, Pass, Matching
<1>6. Partners(s, b) \subseteq Live(s)
  BY DEF Partners
<1>7. Inner(s)'
  <2>1. Partners(s, taker[s])' = Partners(s, b)
    BY <1>1, <1>3, <1>4 DEF Partners
  <2> QED
    BY <1>1, <1>3, <1>4, <1>5, <1>6, <2>1 DEF Inner
<1>8. Outer(s)'
  <2>1. orders[b].kind = "Limit"
    BY <1>1, <1>5 DEF Outer
  <2>2. taker[s] \in Live(s) => Partners(s, taker[s]) = {}
    BY <1>1, <1>5 DEF Inner, Live
  <2>3. \A k \in Live(s) \ (queue'[s] \cup {b}) : orders[k].action = "Buy" => Partners(s, k) = {}
    BY <1>1, <1>3, <1>5, <2>2 DEF Outer
  <2> QED
    BY <1>1, <1>3, <1>4, <1>5, <2>1, <2>3 DEF Outer
<1> QED
  BY <1>7, <1>8 DEF Passing

\* The inner loop takes its next order, or goes on to order1's next partners.
LEMMA PickPassing ==
    ASSUME TypeOK, NEW s \in Sessions, Passing(s), Pick(s)
    PROVE  Passing(s)'
<1>1. /\ pc[s] = "next" /\ pc'[s] = "check1"
      /\ UNCHANGED << orders, mem, phase, queue, taker >>
  BY DEF Pick, store, TypeOK, Types
<1>2. PICK l \in todo[s] :
         /\ First(s, l)
         /\ maker' = [maker EXCEPT ![s] = l]
         /\ todo' = [todo EXCEPT ![s] = @ \ {l}]
  BY DEF Pick
<1>3. maker'[s] = l /\ todo'[s] = todo[s] \ {l}
  BY <1>2 DEF TypeOK, Types
<1>4. /\ Loaded(s)' = Loaded(s) /\ Live(s)' = Live(s)
      /\ \A i : Partners(s, i)' = Partners(s, i)
  BY <1>1, SameCopies
<1>5. Inner(s) /\ Outer(s) /\ pc[s] \notin Matching /\ pc'[s] \in Matching /\ Busy(s)
  BY <1>1, <1>2 DEF Passing, Pass, Matching, Busy
<1>6. phase[s] = "market" =>
         \A k \in todo[s] : ~ BetterPrice(orders[taker[s]], orders[k].price, orders[l].price)
  BY <1>2 DEF First
<1>7. Inner(s)'
  <2>1. Partners(s, taker[s])' = Partners(s, taker[s])
    BY <1>1, <1>4 DEF Partners
  <2> QED
    BY <1>1, <1>3, <1>4, <1>5, <1>6, <2>1 DEF Inner
<1>8. Outer(s)'
  BY <1>1, <1>4, <1>5 DEF Outer
<1> QED
  BY <1>7, <1>8 DEF Passing

\* A match or a cancellation only ever takes orders off the lists.
LEMMA ShrinkPassing ==
    ASSUME TypeOK, NEW s \in Sessions, Passing(s), pc[s] \in Matching, pc'[s] = "replace",
           UNCHANGED << orders, phase, queue, todo, taker, maker >>,
           Loaded(s)' = Loaded(s),
           \A id \in Ids \ {taker[s], maker[s]} : mem'[s][id] = mem[s][id],
           Live(s)' \subseteq Live(s),
           mem'[s][taker[s]].status = "Registered" =>
              maker[s] \notin Live(s)' /\ mem[s][taker[s]].status = "Registered"
    PROVE  Passing(s)'
<1> DEFINE t == taker[s]
           m == maker[s]
<1>1. pc[s] \in Pass /\ Inner(s) /\ Outer(s) /\ Busy(s) /\ pc'[s] \notin Matching
  BY DEF Passing, Pass, Matching, Busy
<1>2. \A i : Partners(s, i)' \subseteq Partners(s, i) /\ Partners(s, i)' \subseteq Live(s)'
  BY DEF Partners
<1>3. t \notin todo[s] /\ m \notin todo[s] /\ orders[m].kind = "Limit"
  <2>1. \A l \in todo[s] : CanTrade(orders[t], orders[l])
    BY <1>1 DEF TypeOK, Ready
  <2>2. CanTrade(orders[t], orders[m])
    BY DEF TypeOK, Ready
  <2> QED
    BY <1>1, <2>1, <2>2, TradersDiffer DEF Inner
<1>4. \A id \in todo[s] : id \in Live(s)'
  <2>1. \A id \in todo[s] : id \in Live(s) /\ id \in Ids /\ mem'[s][id] = mem[s][id]
    BY <1>1, <1>3 DEF Inner, TypeOK, Types
  <2> QED
    BY <2>1 DEF Live
<1>5. Inner(s)'
  <2>1. ASSUME mem'[s][t].status = "Registered", t \in Loaded(s)
        PROVE  Partners(s, t)' \subseteq todo[s]
    <3>1. m \notin Live(s)' /\ mem[s][t].status = "Registered"
      BY <2>1
    <3>2. Partners(s, t) \subseteq todo[s] \cup {m}
      BY <1>1, <2>1, <3>1 DEF Inner
    <3>3. Partners(s, t)' \subseteq Partners(s, t) /\ m \notin Partners(s, t)'
      BY <3>1 DEF Partners
    <3> QED
      BY <3>2, <3>3
  <2> QED
    BY <1>1, <1>4, <2>1 DEF Inner
<1>6. Outer(s)'
  <2>1. ASSUME NEW i \in Loaded(s), orders[i].kind = "Market",
               phase[s] = "limit" \/ i \notin queue[s]
        PROVE  IsOrderFullfiled(orders[i], mem'[s][i]) \/ Partners(s, i)' = {}
    <3>1. i # t /\ i # m /\ i \in Ids
      BY <1>1, <1>3, <2>1 DEF Outer, Loaded
    <3>2. IsOrderFullfiled(orders[i], mem[s][i]) \/ Partners(s, i) = {}
      BY <1>1, <2>1 DEF Outer
    <3>3. Partners(s, i)' \subseteq Partners(s, i)
      BY <1>2
    <3> QED
      BY <3>1, <3>2, <3>3
  <2>2. ASSUME phase[s] = "limit", NEW b \in Live(s)' \ (queue[s] \cup {t}),
               orders[b].action = "Buy"
        PROVE  Partners(s, b)' = {}
    <3>1. Partners(s, b) = {}
      BY <1>1, <2>2 DEF Outer
    <3>2. Partners(s, b)' \subseteq Partners(s, b)
      BY <1>2
    <3> QED
      BY <3>1, <3>2
  <2> QED
    BY <1>1, <2>1, <2>2 DEF Outer
<1> QED
  BY <1>1, <1>5, <1>6 DEF Passing

\* An order cancelled is tried no more.
LEMMA CancelPassing ==
    ASSUME TypeOK, NEW s \in Sessions, Passing(s), pc[s] \in Matching, NEW k \in {taker[s], maker[s]},
           Cancel(s, k), UNCHANGED << store, phase, queue, todo, taker, maker >>
    PROVE  Passing(s)'
<1>1. k \in Ids /\ k \in Loaded(s) /\ mem[s][k] \in Rows(Ids) /\ taker[s] # maker[s] /\ taker[s] \in Ids
  BY MatchFacts
<1>2. mem' = [mem EXCEPT ![s][k].status = "Canceled"] /\ pc'[s] = "replace"
  BY DEF Cancel, TypeOK, Types
<1>3. /\ mem'[s][k] = [mem[s][k] EXCEPT !.status = "Canceled"]
      /\ \A id \in Ids \ {k} : mem'[s][id] = mem[s][id]
  BY <1>1, <1>2 DEF TypeOK, Types
<1>4. mem'[s][k] # NoRow /\ mem'[s][k].status = "Canceled"
  BY <1>1, <1>3 DEF Rows, NoRow
<1>5. Loaded(s)' = Loaded(s)
  BY <1>1, <1>3, <1>4 DEF Loaded
<1>6. Live(s)' = Live(s) \ {k}
  BY <1>3, <1>4, <1>5 DEF Live, Loaded, store
<1>7. mem'[s][taker[s]].status = "Registered" =>
         maker[s] \notin Live(s)' /\ mem[s][taker[s]].status = "Registered"
  BY <1>1, <1>3, <1>4, <1>6
<1> QED
  BY <1>1, <1>2, <1>3, <1>5, <1>6, <1>7, ShrinkPassing DEF store

\* A match fills one of its two orders: a taker still open has emptied its maker.
LEMMA MatchPassing ==
    ASSUME TypeOK, AllGood, NEW s \in Sessions, Passing(s), CheckMaker(s), Affordable(s, maker[s])
    PROVE  Passing(s)'
<1> DEFINE t == taker[s]
           m == maker[s]
           v == ExchangeVolume(s)
<1>1. pc[s] \in Matching /\ pc[s] = "check2"
  BY DEF CheckMaker, Matching
<1>2. /\ t \in Ids /\ m \in Ids /\ t # m
      /\ orders[t] \in TraderOrder /\ orders[m] \in TraderOrder
      /\ mem[s][t] \in Rows(Ids) /\ mem[s][m] \in Rows(Ids)
  BY <1>1, MatchFacts
<1>3. v \in Nat /\ (v = FullVolume(orders[t], mem[s][t]) \/ v = FullVolume(orders[m], mem[s][m]))
  BY <1>1, MatchTerms
<1>4. /\ mem'[s][t] = Exchange1(orders[t], mem[s][t], v, m)
      /\ mem'[s][m] = Exchange1(orders[m], mem[s][m], v, t)
      /\ \A id \in Ids \ {t, m} : mem'[s][id] = mem[s][id]
      /\ Loaded(s)' = Loaded(s) /\ pc'[s] = "replace"
      /\ UNCHANGED << orders, phase, queue, todo, taker, maker >>
  BY <1>1, MatchStep DEF TypeOK, Types, store
<1> HIDE DEF v
<1>5. /\ mem'[s][t].status = IF mem[s][t].exchanged + v = orders[t].volume THEN "Done" ELSE mem[s][t].status
      /\ mem'[s][m].status = IF mem[s][m].exchanged + v = orders[m].volume THEN "Done" ELSE mem[s][m].status
  BY <1>2, <1>3, <1>4, Exchange1Typed
<1>6. Live(s)' \subseteq Live(s)
  <2> SUFFICES ASSUME NEW id \in Live(s)' PROVE id \in Live(s)
    OBVIOUS
  <2>1. id \in Loaded(s) /\ id \in Ids /\ orders[id].kind = "Limit" /\ mem'[s][id].status = "Registered"
    BY <1>4 DEF Live, Loaded
  <2>2. mem[s][id].status = "Registered"
    BY <1>4, <1>5, <2>1
  <2> QED
    BY <2>1, <2>2 DEF Live
<1>7. mem'[s][t].status = "Registered" => m \notin Live(s)' /\ mem[s][t].status = "Registered"
  <2> SUFFICES ASSUME mem'[s][t].status = "Registered"
               PROVE  m \notin Live(s)' /\ mem[s][t].status = "Registered"
    OBVIOUS
  <2>1. mem[s][t].status = "Registered" /\ mem[s][t].exchanged + v # orders[t].volume
    BY <1>5
  <2>2. v # FullVolume(orders[t], mem[s][t])
    BY <1>2, <1>3, <2>1 DEF FullVolume, Rows, TraderOrder, MarketOrder, LimitOrder
  <2>3. mem[s][m].exchanged + v = orders[m].volume
    BY <1>2, <1>3, <2>2 DEF FullVolume, Rows, TraderOrder, MarketOrder, LimitOrder
  <2>4. mem'[s][m].status = "Done"
    BY <1>5, <2>3
  <2> QED
    BY <2>1, <2>4 DEF Live
<1> QED
  BY <1>1, <1>4, <1>6, <1>7, ShrinkPassing

\* Every step of a pass keeps what the loops rely on.
LEMMA NextPassing ==
    ASSUME TypeOK, AllGood, Serial, NEW s \in Sessions, TablesInv(s), Passing(s), [Next]_vars
    PROVE  Passing(s)'
<1>1. ASSUME pc'[s] = pc[s], UNCHANGED << orders, loops >> PROVE Passing(s)'
  BY <1>1, FramePassing DEF loops, Passing
<1>2. CASE UNCHANGED vars
  BY <1>1, <1>2 DEF vars, store
<1>3. CASE Wait
  BY <1>1, <1>3 DEF Wait, vars, store
<1>4. ASSUME NEW t \in Traders, NEW c \in Currencies, NEW a \in DepositAmounts, Deposit(t, c, a)
      PROVE  Passing(s)'
  BY <1>1, <1>4 DEF Deposit
<1>5. ASSUME pc'[s] \in PC \ Pass PROVE Passing(s)'
  BY <1>5 DEF Passing
<1>6. CASE (\E req \in Requests : Submit(s, req)) \/ GenerateId(s) \/ RegisterStatus(s)
             \/ RegisterTrader(s) \/ EndPass(s)
  <2>1. pc'[s] \in {"identify", "insertStatus", "insertTrader", "load", "idle"}
    BY <1>6 DEF Submit, GenerateId, RegisterStatus, RegisterTrader, EndPass, Forget, TypeOK, Types
  <2> QED
    BY <1>5, <2>1 DEF PC, Pass, Matching, Updating
<1>7. CASE CheckTaker(s)
  <2>1. pc[s] = "check1" /\ pc[s] \in Matching /\ pc[s] \in Pass
    BY <1>7 DEF CheckTaker, Matching, Pass
  <2>2. CASE Affordable(s, taker[s])
    <3>1. pc'[s] = "check2" /\ UNCHANGED << orders, mem, phase, queue, todo, taker, maker >>
      BY <1>7, <2>2 DEF CheckTaker, store, TypeOK, Types
    <3> QED
      BY <2>1, <3>1, FramePassing
  <2>3. CASE ~ Affordable(s, taker[s])
    BY <1>7, <2>1, <2>3, CancelPassing DEF CheckTaker
  <2> QED
    BY <2>2, <2>3
<1>8. CASE CheckMaker(s)
  <2>1. pc[s] \in Matching
    BY <1>8 DEF CheckMaker, Matching
  <2>2. CASE Affordable(s, maker[s])
    BY <1>8, <2>2, MatchPassing
  <2>3. CASE ~ Affordable(s, maker[s])
    BY <1>8, <2>1, <2>3, CancelPassing DEF CheckMaker
  <2> QED
    BY <2>2, <2>3
<1>9. CASE UpdateReplace(s) \/ UpdateSame(s) \/ UpdateDelete(s) \/ UpdateInsert(s) \/ Settle(s)
  <2>1. /\ pc[s] \in Updating \cup {"settle"} /\ pc[s] \in Pass
        /\ pc'[s] \in {"same", "delete", "insert", "replace", "settle", "next"}
        /\ UNCHANGED << orders, loops >>
    BY <1>9 DEF UpdateReplace, UpdateSame, UpdateDelete, UpdateInsert, Settle, Updated, Updating, Pass,
                TypeOK, Types
  <2>2. pc'[s] \notin Matching
    BY <2>1 DEF Matching
  <2> QED
    BY <2>1, <2>2, FramePassing DEF loops
<1> QED
  BY <1>2, <1>3, <1>4, <1>6, <1>7, <1>8, <1>9, SerialStep, LoadPassing, NextMarketPassing,
     BeginLimitsPassing, NextBuyPassing, PickPassing DEF Step

\* There is no pass at first.
LEMMA InitPassing ==
    ASSUME Init, NEW s \in Sessions
    PROVE  Passing(s)
<1>1. pc[s] = "idle"
  BY DEF Init
<1> QED
  BY <1>1 DEF Passing, Pass, Matching, Updating

\* Between updates, an order open in the tables is open in the copies.
LEMMA OpenIsLoaded ==
    ASSUME TypeOK, NEW s \in Sessions, TablesInv(s), pc[s] \in Pass \ Updating,
           NEW id \in Known, Open(id)
    PROVE  /\ id \in Loaded(s) /\ mem[s][id].status = "Registered"
           /\ ~ IsOrderFullfiled(orders[id], mem[s][id])
<1>1. pc[s] \in Pass /\ pc[s] \notin Updating /\ ~ Moving(s, id)
  BY DEF Moving, Updating
<1>2. Agree(id) /\ Members(upd[s]) = {}
  BY <1>1, PassFacts
<1>3. traderRow[id].status = "Registered" /\ traderRow[id] = statusRow["Registered"][id]
  BY <1>2 DEF Agree, Open, OrderStatus
<1>4. id \in Loaded(s) /\ mem[s][id] = traderRow[id]
  BY <1>1, <1>2, <1>3 DEF TablesInv, Coherent
<1> QED
  BY <1>3, <1>4 DEF Open

\* One request at a time: an open market order is never matched while the tables hold an
\* open order it may trade with at a better price than the one it gets.
THEOREM BestPriceAlways == Serial => (Spec => BestPriceFirst)
<1> SUFFICES ASSUME Serial PROVE Spec => BestPriceFirst
  OBVIOUS
<1> DEFINE IInv == \A s \in Sessions : TablesInv(s) /\ Passing(s)
           Best == \A s \in Sessions :
                      /\ Matches(s)
                      /\ orders[taker[s]].kind = "Market"
                      /\ mem[s][taker[s]].status = "Registered"
                      => \A l \in Known :
                            Open(l) /\ CanTrade(orders[taker[s]], orders[l])
                                => ~ BetterPrice(orders[taker[s]], orders[l].price, orders[maker[s]].price)
<1>1. Init => TypeOK /\ AllGood /\ IInv
  BY InitTypes, InitGood, InitTables, InitPassing
<1>2. TypeOK /\ AllGood /\ IInv /\ [Next]_vars => (TypeOK /\ AllGood /\ IInv)'
  BY NextTypes, NextGood, NextTables, NextPassing
<1>3. TypeOK /\ IInv => Best
  <2> SUFFICES ASSUME TypeOK, NEW s \in Sessions, TablesInv(s), Passing(s), pc[s] = "check2",
                      orders[taker[s]].kind = "Market", mem[s][taker[s]].status = "Registered",
                      NEW l \in Known, Open(l), CanTrade(orders[taker[s]], orders[l])
               PROVE  ~ BetterPrice(orders[taker[s]], orders[l].price, orders[maker[s]].price)
    BY DEF Matches
  <2>1. pc[s] \in Matching /\ pc[s] \in Pass \ Updating /\ Busy(s)
    BY DEF Matching, Pass, Updating, Busy
  <2>2. Inner(s) /\ Outer(s)
    BY <2>1 DEF Passing
  <2>3. l \in Loaded(s) /\ mem[s][l].status = "Registered"
    BY <2>1, OpenIsLoaded
  <2>4. l \in Partners(s, taker[s])
    BY <2>3 DEF Partners, Live, CanTrade
  <2>5. taker[s] \in Loaded(s)
    BY <2>1 DEF TypeOK, Ready
  <2>6. l \in todo[s] \cup {maker[s]}
    BY <2>1, <2>2, <2>4, <2>5 DEF Inner
  <2>7. phase[s] = "market"
    BY <2>1, <2>2 DEF Outer
  <2>8. CASE l \in todo[s]
    BY <2>1, <2>2, <2>7, <2>8 DEF Inner
  <2>9. CASE l = maker[s]
    <3>1. orders[l].price \in Int
      BY DEF TypeOK, Types, Known, TraderOrder, MarketOrder, LimitOrder
    <3> QED
      BY <2>9, <3>1 DEF BetterPrice
  <2> QED
    BY <2>6, <2>8, <2>9
<1> HIDE DEF IInv
<1>4. TypeOK /\ AllGood /\ IInv => Best
  BY <1>3
<1> QED
  BY <1>1, <1>2, <1>4, PTL DEF Spec, BestPriceFirst

\* Nothing open could trade.
Settled == \A i, j \in Known : Open(i) /\ Open(j) => ~ CanTrade(orders[i], orders[j])

\* When the loops are over nothing is left to match: a market order that is still open
\* has no partner, nor has any limit order to buy, and so none to sell.
LEMMA PassSettles ==
    ASSUME TypeOK, NEW s \in Sessions, TablesInv(s), Passing(s), EndPass(s)
    PROVE  Settled
<1>1. pc[s] = "next" /\ phase[s] = "limit" /\ todo[s] = {} /\ queue[s] = {}
  BY DEF EndPass
<1>2. pc[s] \in Pass \ Updating /\ pc[s] \notin Matching
  BY <1>1 DEF Pass, Updating, Matching
<1>3. Inner(s) /\ Outer(s)
  BY <1>2 DEF Passing
<1> SUFFICES ASSUME NEW i \in Known, NEW j \in Known, Open(i), Open(j),
                    CanTrade(orders[i], orders[j])
             PROVE  FALSE
  BY DEF Settled
<1>4. /\ i \in Loaded(s) /\ mem[s][i].status = "Registered" /\ ~ IsOrderFullfiled(orders[i], mem[s][i])
      /\ j \in Loaded(s) /\ mem[s][j].status = "Registered"
  BY <1>2, OpenIsLoaded
<1>5. j \in Partners(s, i) /\ j \in Live(s)
  BY <1>4 DEF Partners, Live, CanTrade
<1>6. orders[i] \in TraderOrder /\ orders[j] \in TraderOrder
  BY DEF TypeOK, Types, Known
<1>7. orders[i].kind # "Market"
  BY <1>1, <1>3, <1>4, <1>5 DEF Outer
<1>8. orders[i].kind = "Limit"
  BY <1>6, <1>7 DEF TraderOrder, MarketOrder, LimitOrder
<1>9. i \in Live(s) /\ i \in Partners(s, j)
  <2>1. CanTrade(orders[j], orders[i])
    BY <1>6, <1>8 DEF CanTrade, TraderOrder, MarketOrder, LimitOrder
  <2> QED
    BY <1>4, <1>8, <2>1 DEF Partners, Live
<1>10. \A b \in Live(s) : orders[b].action = "Buy" => Partners(s, b) = {}
  BY <1>1, <1>2, <1>3 DEF Outer, Inner, Live
<1>11. orders[i].action = "Buy" \/ orders[j].action = "Buy"
  BY <1>6 DEF CanTrade, TraderOrder, MarketOrder, LimitOrder
<1> QED
  BY <1>5, <1>9, <1>10, <1>11

\* One request at a time: once it has returned, no two orders still open could trade.
THEOREM BookAlwaysSettled == Serial => (Spec => []BookSettled)
<1> SUFFICES ASSUME Serial PROVE Spec => []BookSettled
  OBVIOUS
<1> DEFINE IInv == \A s \in Sessions : TablesInv(s) /\ Passing(s)
<1>0. BookSettled <=> (Quiescent => Settled)
  BY DEF BookSettled, Settled
<1>1. Init => TypeOK /\ AllGood /\ IInv /\ BookSettled
  <2>1. Init => Known = {}
    BY EmptySeq DEF Init, Known
  <2> QED
    BY <2>1, InitTypes, InitGood, InitTables, InitPassing DEF BookSettled
<1>2. TypeOK /\ AllGood /\ IInv /\ [Next]_vars => (TypeOK /\ AllGood /\ IInv)'
  BY NextTypes, NextGood, NextTables, NextPassing
<1>3. TypeOK /\ IInv /\ BookSettled /\ [Next]_vars => BookSettled'
  <2> SUFFICES ASSUME TypeOK, IInv, BookSettled, [Next]_vars, Quiescent' PROVE Settled'
    BY <1>0 DEF BookSettled, Settled
  <2>1. ASSUME UNCHANGED << orders, statusRow >> PROVE Settled' <=> Settled
    BY <2>1 DEF Settled, Known, Open
  <2>2. PICK s \in Sessions : \A r \in Sessions : r = s
    BY DEF Serial
  <2>3. pc'[s] = "idle" /\ TablesInv(s) /\ Passing(s)
    BY DEF Quiescent
  <2>4. CASE UNCHANGED << pc, orders, statusRow >>
    BY <1>0, <2>1, <2>4 DEF Quiescent
  <2>5. CASE UNCHANGED vars \/ Wait
    BY <2>4, <2>5 DEF Wait, vars, store
  <2>6. ASSUME NEW t \in Traders, NEW c \in Currencies, NEW a \in DepositAmounts, Deposit(t, c, a)
        PROVE  Settled'
    BY <2>4, <2>6 DEF Deposit
  <2>7. CASE EndPass(s)
    <3>1. UNCHANGED << orders, statusRow >>
      BY <2>7 DEF EndPass, Forget, store
    <3> QED
      BY <2>1, <2>3, <2>7, <3>1, PassSettles
  <2>8. ~ (\E req \in Requests : Submit(s, req))
    BY <2>3 DEF Submit, TypeOK, Types
  <2>9. Step(s) => EndPass(s)
    BY <2>3 DEF Step, GenerateId, RegisterStatus, RegisterTrader, Load, NextMarket, BeginLimits, NextBuy,
                Pick, CheckTaker, CheckMaker, Cancel, UpdateReplace, UpdateSame, UpdateDelete,
                UpdateInsert, Updated, Settle, TypeOK, Types
  <2> QED
    BY <2>5, <2>6, <2>7, <2>8, <2>9, SerialStep
<1> HIDE DEF IInv
<1> QED
  BY <1>1, <1>2, <1>3, PTL DEF Spec

-----------------------------------------------------------------------------
(* One request at a time: each step as Exchange sees it.                   *)

\* The one session is all of them.
LEMMA OneSession ==
    ASSUME Serial, NEW s \in Sessions
    PROVE  Sessions = {s} /\ IsFiniteSet(Sessions)
<1>1. Sessions = {s}
  BY DEF Serial
<1> QED
  BY <1>1, FS_Singleton

\* What Exchange sees of an order: the copy about to be written, or the trader's row.
LEMMA TheBook ==
    ASSUME Serial, TypeOK, TypeOK', NEW s \in Sessions, NEW id
    PROVE  /\ BookOf(id) = IF id \in Members(upd[s]) THEN mem[s][id] ELSE traderRow[id]
           /\ BookOf(id)' = IF id \in Members(upd'[s]) THEN mem'[s][id] ELSE traderRow'[id]
<1>1. Sessions = {s}
  BY OneSession
<1>2. upd[s] \in Seq(Ids) /\ upd'[s] \in Seq(Ids)
  BY DEF TypeOK, Types
<1>3. DOMAIN upd[s] = 1..Len(upd[s]) /\ DOMAIN upd'[s] = 1..Len(upd'[s])
  BY <1>2
<1>4. BookOf(id) = IF id \in Members(upd[s]) THEN mem[s][id] ELSE traderRow[id]
  <2>1. (\E r \in Sessions : \E k \in DOMAIN upd[r] : upd[r][k] = id) <=> id \in Members(upd[s])
    BY <1>1, <1>3 DEF Members
  <2>2. id \in Members(upd[s]) =>
           (CHOOSE r \in Sessions : \E k \in DOMAIN upd[r] : upd[r][k] = id) = s
    BY <1>1, <2>1
  <2> QED
    BY <2>1, <2>2 DEF BookOf
<1>5. BookOf(id)' = IF id \in Members(upd'[s]) THEN mem'[s][id] ELSE traderRow'[id]
  <2>1. (\E r \in Sessions : \E k \in DOMAIN upd'[r] : upd'[r][k] = id) <=> id \in Members(upd'[s])
    BY <1>1, <1>3 DEF Members
  <2>2. id \in Members(upd'[s]) =>
           (CHOOSE r \in Sessions : \E k \in DOMAIN upd'[r] : upd'[r][k] = id) = s
    BY <1>1, <2>1
  <2> QED
    BY <2>1, <2>2 DEF BookOf
<1> QED
  BY <1>4, <1>5

\* Writing what the book has already changes nothing in it.
LEMMA BookSame ==
    ASSUME Serial, TypeOK, TypeOK', NEW s \in Sessions,
           Members(upd'[s]) \subseteq Members(upd[s]),
           \A id \in Members(upd'[s]) : mem'[s][id] = mem[s][id],
           \A id \in Ids \ Members(upd'[s]) :
              traderRow'[id] = IF id \in Members(upd[s]) THEN mem[s][id] ELSE traderRow[id]
    PROVE  \A id \in Ids : BookOf(id)' = BookOf(id)
<1> SUFFICES ASSUME NEW id \in Ids PROVE BookOf(id)' = BookOf(id)
  OBVIOUS
<1>1. /\ BookOf(id) = IF id \in Members(upd[s]) THEN mem[s][id] ELSE traderRow[id]
      /\ BookOf(id)' = IF id \in Members(upd'[s]) THEN mem'[s][id] ELSE traderRow'[id]
  BY TheBook
<1> QED
  BY <1>1

\* When nothing is left to settle, a ledger is a balance.
LEMMA TheLedger ==
    ASSUME Serial, TypeOK, NEW s \in Sessions, settle[s] = <<>>, NEW t \in Traders, NEW c \in Currencies
    PROVE  LedgerOf(t, c) = balance[t][c]
<1> DEFINE f == [r \in Sessions |-> Owed(settle[r], t, c)]
<1>1. Sessions = {s} /\ IsFiniteSet(Sessions)
  BY OneSession
<1>2. f[s] = 0
  BY OwedNothing
<1>3. LedgerOf(t, c) = balance[t][c] + SumFunctionOnSet(f, Sessions)
  BY DEF LedgerOf, SumFunction
<1> HIDE DEF f
<1>4. SumFunctionOnSet(f, Sessions) = 0
  <2>1. \A r \in Sessions : f[r] \in Int
    BY <1>1, <1>2
  <2>2. SumFunctionOnSet(f, Sessions) = f[s] + SumFunctionOnSet(f, Sessions \ {s})
    BY <1>1, <2>1, SumFacts
  <2>3. SumFunctionOnSet(f, {}) = 0
    BY SumFacts, FS_EmptySet
  <2>4. Sessions \ {s} = {}
    BY <1>1
  <2>5. SumFunctionOnSet(f, Sessions) = f[s] + SumFunctionOnSet(f, {})
    BY <2>2, <2>4
  <2> QED
    BY <1>2, <2>3, <2>5
<1>5. balance[t][c] \in Int
  BY DEF TypeOK, Types
<1> QED
  BY <1>3, <1>4, <1>5

\* Ledgers depend on balances and settlements only.
LEMMA LedgersSame ==
    ASSUME balance' = balance, settle' = settle
    PROVE  \A t \in Traders, c \in Currencies : LedgerOf(t, c)' = LedgerOf(t, c)
  BY DEF LedgerOf

\* What a session has been asked for and has not put on the table yet.
Drafts(s) ==
    \A k \in 1..Len(draft[s]) : draft[s][k] \in UNION {{req[i] : i \in DOMAIN req} : req \in Requests}

\* Only a request adds to the drafts.
LEMMA NextDrafts ==
    ASSUME TypeOK, Serial, NEW s \in Sessions, Drafts(s), [Next]_vars
    PROVE  Drafts(s)'
<1>1. ASSUME draft'[s] = draft[s] \/ draft'[s] = <<>> PROVE Drafts(s)'
  BY <1>1, EmptySeq DEF Drafts
<1>2. CASE UNCHANGED vars \/ Wait
  BY <1>1, <1>2 DEF Wait, vars
<1>3. ASSUME NEW t \in Traders, NEW c \in Currencies, NEW a \in DepositAmounts, Deposit(t, c, a)
      PROVE  Drafts(s)'
  BY <1>1, <1>3 DEF Deposit
<1>4. ASSUME NEW req \in Requests, Submit(s, req) PROVE Drafts(s)'
  <2>1. draft'[s] = req
    BY <1>4 DEF Submit, TypeOK, Types
  <2>2. DOMAIN req = 1..Len(req)
    BY ExecutorAssumption
  <2> QED
    BY <2>1, <2>2 DEF Drafts
<1>5. CASE GenerateId(s)
  <2>1. draft[s] \in Seq(TraderOrder) /\ draft[s] # <<>> /\ draft'[s] = Tail(draft[s])
    BY <1>5 DEF GenerateId, TypeOK, Types, Ready
  <2>2. \A k \in 1..Len(Tail(draft[s])) : Tail(draft[s])[k] = draft[s][k + 1] /\ k + 1 \in 1..Len(draft[s])
    BY <2>1, HeadTail
  <2> QED
    BY <2>1, <2>2 DEF Drafts
<1>6. CASE Step(s) /\ ~ GenerateId(s)
  <2>1. draft'[s] = draft[s] \/ draft'[s] = <<>>
    BY <1>6 DEF Step, RegisterStatus, RegisterTrader, Load, NextMarket, BeginLimits, NextBuy, Pick,
       EndPass, Forget, CheckTaker, CheckMaker, UpdateReplace, UpdateSame, UpdateDelete,
       UpdateInsert, Settle, TypeOK, Types
  <2> QED
    BY <1>1, <2>1
<1> QED
  BY <1>2, <1>3, <1>4, <1>5, <1>6, SerialStep

\* Exchange computes with the same operators.
LEMMA SameOperators ==
    /\ E!NoRow = NoRow /\ E!Fresh = Fresh
    /\ \A o, l : E!CanTrade(o, l) <=> CanTrade(o, l)
    /\ \A o, r : E!FullVolume(o, r) = FullVolume(o, r)
    /\ \A x, y : E!GetExchangeVolume(x, y) = GetExchangeVolume(x, y)
    /\ \A i, o, j, l : E!GetOrderPrice(i, o, j, l) = GetOrderPrice(i, o, j, l)
    /\ \A o, v, p : E!BaseAmount(o, v, p) = BaseAmount(o, v, p)
    /\ \A o, x, b : E!CheckIfEnoughBalance(o, x, b) <=> CheckIfEnoughBalance(o, x, b)
  BY DEF E!NoRow, NoRow, E!Fresh, Fresh, E!CanTrade, CanTrade, E!FullVolume, FullVolume,
     E!GetExchangeVolume, GetExchangeVolume, E!GetOrderPrice, GetOrderPrice, E!BaseAmount, BaseAmount,
     E!CheckIfEnoughBalance, CheckIfEnoughBalance

\* The initial states map to initial states.
LEMMA InitMaps == Serial /\ Init => E!Init
<1> SUFFICES ASSUME Serial, Init PROVE E!Init
  OBVIOUS
<1>1. TypeOK
  BY InitTypes
<1>2. ASSUME NEW id \in Ids PROVE BookOf(id) = NoRow
  <2>1. \A r \in Sessions : DOMAIN upd[r] = {}
    BY DEF Init
  <2> QED
    BY <2>1 DEF BookOf, Init, Blank
<1>3. ASSUME NEW t \in Traders, NEW c \in Currencies PROVE LedgerOf(t, c) = InitialBalance[t][c]
  <2>1. PICK s \in Sessions : settle[s] = <<>> /\ balance = InitialBalance
    BY DEF Serial, Init
  <2> QED
    BY <1>1, <2>1, TheLedger
<1>4. [t \in Traders |-> [c \in Currencies |-> LedgerOf(t, c)]] = InitialBalance
  BY <1>3, ExecutorAssumption
<1> QED
  BY <1>2, <1>4, SameOperators DEF Init, E!Init

\* A step that changes neither orders, book nor ledgers is invisible.
LEMMA Stutters ==
    ASSUME orders' = orders, deposits' = deposits,
           \A id \in Ids : BookOf(id)' = BookOf(id),
           \A t \in Traders, c \in Currencies : LedgerOf(t, c)' = LedgerOf(t, c)
    PROVE  UNCHANGED E!vars
  BY DEF E!vars

\* An order gets its id.
LEMMA IdentifyMaps ==
    ASSUME Serial, TypeOK, TypeOK', NEW s \in Sessions, Drafts(s), GenerateId(s)
    PROVE  E!Identify
<1>1. /\ orders' = Append(orders, Head(draft[s])) /\ Len(orders) < MaxOrders
      /\ UNCHANGED << mem, traderRow, upd, balance, settle, deposits >>
  BY DEF GenerateId, loops, posting, counters
<1>2. Len(orders) + 1 \in Ids
  BY <1>1, LenProperties, ExecutorAssumption DEF TypeOK, Types, Ids
<1>3. Head(draft[s]) \in UNION {{req[i] : i \in DOMAIN req} : req \in Requests}
  <2>1. draft[s] \in Seq(TraderOrder) /\ draft[s] # <<>>
    BY DEF GenerateId, TypeOK, Types, Ready
  <2>2. Head(draft[s]) = draft[s][1] /\ 1 \in 1..Len(draft[s])
    BY <2>1, HeadTail
  <2> QED
    BY <2>2 DEF Drafts
<1>4. \A id \in Ids : BookOf(id)' = BookOf(id)
  BY <1>1, BookSame
<1>5. \A t \in Traders, c \in Currencies : LedgerOf(t, c)' = LedgerOf(t, c)
  BY <1>1, LedgersSame
<1> QED
  BY <1>1, <1>2, <1>3, <1>4, <1>5 DEF E!Identify

\* An order is on the book with its trader's row, the second insert.
LEMMA PlaceMaps ==
    ASSUME Serial, TypeOK, TypeOK', NEW s \in Sessions, TablesInv(s), RegisterTrader(s)
    PROVE  \E id \in Ids : E!Place(id)
<1> DEFINE h == Head(regs[s])
<1>1. /\ pc[s] = "insertTrader"
      /\ traderRow' = [traderRow EXCEPT ![h] = Fresh]
      /\ UNCHANGED << orders, mem, upd, balance, settle, deposits >>
  BY DEF RegisterTrader, loops, posting, counters
<1>2. h \in Ids /\ h \in Known /\ h \in Members(regs[s])
  <2>1. regs[s] \in Seq(Ids) /\ regs[s] # <<>>
    BY <1>1 DEF TypeOK, Types, Ready
  <2>2. h \in Ids /\ h = regs[s][1] /\ 1 \in 1..Len(regs[s])
    BY <2>1, HeadTail
  <2> QED
    BY <2>2 DEF TypeOK, OnlyKnown, Members
<1>3. traderRow[h] = NoRow
  BY <1>2 DEF TablesInv, Tables
<1>4. upd[s] = <<>> /\ upd'[s] = <<>>
  BY <1>1 DEF TablesInv, Clean, Updating
<1> HIDE DEF h
<1>5. \A id \in Ids : BookOf(id) = traderRow[id] /\ BookOf(id)' = traderRow'[id]
  <2>1. \A id : id \notin Members(<<>>)
    BY EmptySeq DEF Members
  <2> QED
    BY <1>4, <2>1, TheBook
<1>6. \A id \in Ids : traderRow'[id] = IF id = h THEN Fresh ELSE traderRow[id]
  BY <1>1, <1>2 DEF TypeOK, Types
<1>7. \A t \in Traders, c \in Currencies : LedgerOf(t, c)' = LedgerOf(t, c)
  BY <1>1, LedgersSame
<1>8. [id \in Ids |-> BookOf(id)]' = [[id \in Ids |-> BookOf(id)] EXCEPT ![h] = Fresh]
  BY <1>5, <1>6
<1>9. E!Place(h)
  BY <1>1, <1>2, <1>3, <1>5, <1>7, <1>8, SameOperators DEF E!Place, Known
<1> QED
  BY <1>2, <1>9

\* What Exchange sees when two orders are about to be matched is what the session has.
LEMMA PairMaps ==
    ASSUME Serial, TypeOK, TypeOK', NothingOwed, NEW s \in Sessions, TablesInv(s), Passing(s),
           pc[s] \in Matching
    PROVE  /\ taker[s] \in Ids /\ maker[s] \in Ids /\ taker[s] # maker[s]
           /\ E!Pair(taker[s], maker[s]) /\ E!Volume(taker[s], maker[s]) = ExchangeVolume(s)
           /\ \A k \in {taker[s], maker[s]} :
                 /\ BookOf(k) = mem[s][k] /\ traderRow[k] = mem[s][k]
                 /\ E!Cost(k, taker[s], maker[s]) = Amount(s, k)
                 /\ E!Funded(k, taker[s], maker[s]) <=> Affordable(s, k)
<1> DEFINE t == taker[s]
           m == maker[s]
<1>1. pc[s] \in Pass /\ pc[s] \notin Updating /\ settle[s] = <<>>
  BY DEF Pass, Matching, Updating, NothingOwed
<1>2. t # m /\ \A k \in {t, m} : /\ k \in Ids /\ k \in Known /\ k \in Loaded(s)
                                 /\ orders[k] \in TraderOrder /\ mem[s][k] \in Rows(Ids)
  BY MatchFacts
<1>3. \A k \in {t, m} : BookOf(k) = mem[s][k] /\ traderRow[k] = mem[s][k]
  <2>1. upd[s] = <<>> /\ Members(upd[s]) = {}
    BY <1>1, PassFacts
  <2>2. \A k \in {t, m} : mem[s][k] = traderRow[k]
    BY <1>1, <1>2, <2>1 DEF TablesInv, Coherent
  <2>3. \A k \in {t, m} : BookOf(k) = IF k \in Members(upd[s]) THEN mem[s][k] ELSE traderRow[k]
    BY TheBook
  <2> QED
    BY <2>1, <2>2, <2>3
<1>4. E!Pair(t, m)
  <2>1. mem[s][m].status = "Registered"
    BY <1>1 DEF Passing, Inner, Live
  <2>2. CanTrade(orders[t], orders[m])
    BY DEF TypeOK, Ready
  <2> QED
    BY <1>2, <1>3, <2>1, <2>2, RowFacts, SameOperators DEF E!Pair, E!Placed
<1>5. E!Volume(t, m) = ExchangeVolume(s)
  BY <1>2, <1>3, SameOperators DEF E!Volume, ExchangeVolume
<1>6. ASSUME NEW k \in {t, m} PROVE E!Cost(k, t, m) = Amount(s, k)
  BY <1>5, SameOperators DEF E!Cost, Amount, ExchangePrice
<1>7. ASSUME NEW k \in {t, m} PROVE E!Funded(k, t, m) <=> Affordable(s, k)
  <2>1. /\ orders[k].trader \in Traders
        /\ BaseOf[orders[k].asset] \in Currencies /\ QuotingOf[orders[k].asset] \in Currencies
    BY <1>2, InstrumentAssumption DEF TraderOrder, MarketOrder, LimitOrder
  <2>2. \A c \in Currencies : LedgerOf(orders[k].trader, c) = balance[orders[k].trader][c]
    BY <1>1, <2>1, TheLedger
  <2> QED
    BY <1>6, <2>1, <2>2, SameOperators DEF E!Funded, Affordable, CheckIfEnoughBalance
<1> QED
  BY <1>2, <1>3, <1>4, <1>5, <1>6, <1>7

\* A cancellation changes a status and nothing else.
LEMMA CancelBook ==
    ASSUME Serial, TypeOK, TypeOK', NEW s \in Sessions, TablesInv(s),
           pc[s] \in Matching, NEW k \in {taker[s], maker[s]}, Cancel(s, k), UNCHANGED << store, deposits >>
    PROVE  /\ k \in Ids /\ BookOf(k) \in Rows(Ids)
           /\ \A id \in Ids : BookOf(id)' = IF id = k THEN [BookOf(k) EXCEPT !.status = "Canceled"]
                                                      ELSE BookOf(id)
<1>1. k \in Ids /\ k \in Known /\ k \in Loaded(s) /\ mem[s][k] \in Rows(Ids)
  BY MatchFacts
<1>2. /\ mem' = [mem EXCEPT ![s][k].status = "Canceled"]
      /\ upd'[s] = << k >> /\ settle' = settle
  BY DEF Cancel, TypeOK, Types
<1>3. Members(upd'[s]) = {k} /\ Members(upd[s]) = {} /\ traderRow[k] = mem[s][k]
  <2>1. pc[s] \in Pass /\ pc[s] \notin Updating
    BY DEF Pass, Matching, Updating
  <2>2. Members(<< k >>) = {k}
    BY DEF Members
  <2>3. Members(upd[s]) = {}
    BY <2>1, PassFacts
  <2>4. traderRow[k] = mem[s][k]
    BY <1>1, <2>1, <2>3 DEF TablesInv, Coherent
  <2> QED
    BY <1>2, <2>2, <2>3, <2>4
<1>4. mem'[s][k] = [mem[s][k] EXCEPT !.status = "Canceled"]
  BY <1>1, <1>2 DEF TypeOK, Types
<1>5. BookOf(k) = mem[s][k]
  BY <1>3, TheBook
<1>6. \A id \in Ids : BookOf(id)' = IF id = k THEN [mem[s][k] EXCEPT !.status = "Canceled"] ELSE BookOf(id)
  BY <1>3, <1>4, TheBook DEF store
<1> QED
  BY <1>1, <1>5, <1>6

\* A cancellation is a Reject of an order whose trader cannot pay.
LEMMA RejectMaps ==
    ASSUME Serial, TypeOK, TypeOK', NothingOwed, NEW s \in Sessions, TablesInv(s), Passing(s),
           pc[s] \in Matching, NEW k \in {taker[s], maker[s]}, ~ Affordable(s, k),
           k = maker[s] => Affordable(s, taker[s]),
           Cancel(s, k), UNCHANGED << store, deposits >>
    PROVE  E!Reject(taker[s], maker[s])
<1> DEFINE t == taker[s]
           m == maker[s]
<1>1. /\ E!Pair(t, m) /\ ~ E!Funded(k, t, m)
      /\ k = m => E!Funded(t, t, m)
  BY PairMaps
<1>2. /\ k \in Ids /\ BookOf(k) \in Rows(Ids)
      /\ \A id \in Ids : BookOf(id)' = IF id = k THEN [BookOf(k) EXCEPT !.status = "Canceled"]
                                                 ELSE BookOf(id)
  BY CancelBook
<1>3. [id \in Ids |-> BookOf(id)]' = [[id \in Ids |-> BookOf(id)] EXCEPT ![k].status = "Canceled"]
  BY <1>2
<1>4. \A u \in Traders, c \in Currencies : LedgerOf(u, c)' = LedgerOf(u, c)
  BY LedgersSame DEF Cancel, store
<1>5. UNCHANGED << orders, deposits, [u \in Traders |-> [c \in Currencies |-> LedgerOf(u, c)]] >>
  BY <1>4 DEF store
<1> QED
  BY <1>1, <1>3, <1>5 DEF E!Reject

\* Transfer moves what Part says.
LEMMA TransferIsPart ==
    ASSUME NEW l \in [Traders -> [Currencies -> Int]], NEW o \in TraderOrder, NEW amount \in Int
    PROVE  /\ E!Transfer(l, o, amount) \in [Traders -> [Currencies -> Int]]
           /\ \A t \in Traders, c \in Currencies :
                 E!Transfer(l, o, amount)[t][c] = l[t][c] + Part(o, amount, t, c)
<1> DEFINE q == QuotingOf[o.asset]
           b == BaseOf[o.asset]
           dq == IF o.action = "Buy" THEN o.volume ELSE -o.volume
           db == IF o.action = "Buy" THEN -amount ELSE amount
           mine == [l[o.trader] EXCEPT ![q] = @ + dq, ![b] = @ + db]
<1>1. o.trader \in Traders /\ o.asset \in Assets /\ o.volume \in Int
  BY DEF TraderOrder, MarketOrder, LimitOrder
<1>2. q \in Currencies /\ b \in Currencies /\ q # b
  BY <1>1, InstrumentAssumption
<1>3. dq \in Int /\ db \in Int
  BY <1>1
<1>4. l[o.trader] \in [Currencies -> Int]
  BY <1>1
<1>5. E!Transfer(l, o, amount) = [l EXCEPT ![o.trader] = mine]
  BY <1>1, <1>2, <1>4 DEF E!Transfer
<1>6. \A t, c : Part(o, amount, t, c) = IF o.trader # t THEN 0
                                        ELSE IF c = q THEN dq ELSE IF c = b THEN db ELSE 0
  BY DEF Part
<1> HIDE DEF dq, db
<1>7. mine \in [Currencies -> Int]
  BY <1>2, <1>3, <1>4
<1>8. \A c \in Currencies : mine[c] = l[o.trader][c] + (IF c = q THEN dq ELSE IF c = b THEN db ELSE 0)
  BY <1>2, <1>3, <1>4
<1> HIDE DEF mine, q, b
<1>9. E!Transfer(l, o, amount) \in [Traders -> [Currencies -> Int]]
  BY <1>1, <1>5, <1>7
<1>10. ASSUME NEW t \in Traders, NEW c \in Currencies
       PROVE  E!Transfer(l, o, amount)[t][c] = l[t][c] + Part(o, amount, t, c)
  <2>1. CASE t = o.trader
    BY <1>1, <1>5, <1>6, <1>8, <2>1
  <2>2. CASE t # o.trader
    <3>1. E!Transfer(l, o, amount)[t] = l[t] /\ Part(o, amount, t, c) = 0 /\ l[t][c] \in Int
      BY <1>1, <1>5, <1>6, <2>2
    <3> QED
      BY <3>1
  <2> QED
    BY <2>1, <2>2
<1> QED
  BY <1>9, <1>10

\* Exchange's own match of one side is the executor's.
LEMMA MatchedIsExchange1 ==
    ASSUME NEW o \in TraderOrder, NEW r \in Rows(Ids), NEW v \in Int, NEW other \in Ids
    PROVE  E!Matched(o, r, v, other) = Exchange1(o, r, v, other)
<1> DEFINE e == Exchange1(o, r, v, other)
<1>1. /\ e \in Rows(Ids) /\ e.exchanged = r.exchanged + v /\ e.matched = r.matched \cup {other}
      /\ e.status = IF r.exchanged + v = o.volume THEN "Done" ELSE r.status
  BY Exchange1Typed
<1> HIDE DEF e
<1>2. e = [status |-> e.status, exchanged |-> e.exchanged, matched |-> e.matched]
  BY <1>1 DEF Rows
<1>3. E!Matched(o, r, v, other) = e
  BY <1>1, <1>2 DEF E!Matched
<1> QED
  BY <1>3 DEF e

\* A match changes its two orders and no other.
LEMMA MatchBook ==
    ASSUME Serial, TypeOK, TypeOK', NEW s \in Sessions, TablesInv(s), CheckMaker(s), Affordable(s, maker[s])
    PROVE  LET t == taker[s]
               m == maker[s]
               v == ExchangeVolume(s)
           IN  /\ BookOf(t) = mem[s][t] /\ BookOf(m) = mem[s][m]
               /\ \A id \in Ids :
                     BookOf(id)' = IF id = t THEN Exchange1(orders[t], mem[s][t], v, m)
                                   ELSE IF id = m THEN Exchange1(orders[m], mem[s][m], v, t)
                                   ELSE BookOf(id)
<1> DEFINE t == taker[s]
           m == maker[s]
           v == ExchangeVolume(s)
           rt == Exchange1(orders[t], mem[s][t], v, m)
           rm == Exchange1(orders[m], mem[s][m], v, t)
<1>1. pc[s] \in Matching /\ pc[s] = "check2" /\ pc[s] \in Pass /\ pc[s] \notin Updating
  BY DEF CheckMaker, Matching, Pass, Updating
<1>2. /\ mem'[s][t] = rt /\ mem'[s][m] = rm
      /\ UNCHANGED store /\ upd'[s] = << t, m >>
  BY <1>1, MatchStep DEF TypeOK, Types
<1>3. Members(upd'[s]) = {t, m} /\ Members(upd[s]) = {}
  <2>1. Len(<< t, m >>) = 2 /\ << t, m >>[1] = t /\ << t, m >>[2] = m
    OBVIOUS
  <2>2. Members(<< t, m >>) = {t, m}
    BY <2>1 DEF Members
  <2> QED
    BY <1>1, <1>2, <2>2, PassFacts
<1>4. mem[s][t] = traderRow[t] /\ mem[s][m] = traderRow[m]
  <2>1. t \in Known /\ t \in Loaded(s) /\ m \in Known /\ m \in Loaded(s)
    BY <1>1, MatchFacts
  <2> QED
    BY <1>1, <1>3, <2>1 DEF TablesInv, Coherent
<1> HIDE DEF rt, rm
<1>5. BookOf(t) = mem[s][t] /\ BookOf(m) = mem[s][m]
  BY <1>3, <1>4, TheBook
<1>6. \A id \in Ids : BookOf(id)' = IF id = t THEN rt ELSE IF id = m THEN rm ELSE BookOf(id)
  BY <1>2, <1>3, TheBook DEF store
<1> QED
  BY <1>5, <1>6 DEF rt, rm

\* A match in memory is the Match of Exchange, payments included.
LEMMA MatchMaps ==
    ASSUME Serial, TypeOK, TypeOK', NothingOwed, NEW s \in Sessions, TablesInv(s), Passing(s),
           Checked(s), CheckMaker(s), Affordable(s, maker[s])
    PROVE  E!Match(taker[s], maker[s])
<1> DEFINE t == taker[s]
           m == maker[s]
           v == ExchangeVolume(s)
           o == orders[t]
           l == orders[m]
           x == Amount(s, t)
           y == Amount(s, m)
           rt == Exchange1(o, mem[s][t], v, m)
           rm == Exchange1(l, mem[s][m], v, t)
<1>1. pc[s] \in Matching /\ pc[s] = "check2"
  BY DEF CheckMaker, Matching
<1>2. /\ t \in Ids /\ m \in Ids /\ t # m
      /\ o \in TraderOrder /\ l \in TraderOrder
      /\ mem[s][t] \in Rows(Ids) /\ mem[s][m] \in Rows(Ids)
      /\ v \in Int /\ x \in Int /\ y \in Int
  BY <1>1, MatchFacts, AmountTyped
<1>3. /\ E!Pair(t, m) /\ E!Volume(t, m) = v
      /\ E!Cost(t, t, m) = x /\ E!Cost(m, t, m) = y
      /\ E!Funded(t, t, m) /\ E!Funded(m, t, m)
  BY <1>1, PairMaps DEF Checked
<1>4. UNCHANGED << store, deposits >>
  BY DEF CheckMaker, counters
<1>5. /\ BookOf(t) = mem[s][t] /\ BookOf(m) = mem[s][m]
      /\ \A id \in Ids : BookOf(id)' = IF id = t THEN rt ELSE IF id = m THEN rm ELSE BookOf(id)
  BY MatchBook
<1>6. E!Matched(o, mem[s][t], v, m) = rt /\ E!Matched(l, mem[s][m], v, t) = rm
  BY <1>2, MatchedIsExchange1
<1>7. \A u \in Traders, c \in Currencies :
         /\ LedgerOf(u, c)' = LedgerOf(u, c) + (Part(o, x, u, c) + Part(l, y, u, c))
         /\ Part(o, x, u, c) \in Int /\ Part(l, y, u, c) \in Int
         /\ LedgerOf(u, c) \in Int
  BY OneSession, MatchChangesLedgers, LedgerTyped DEF TypeOK
<1> HIDE DEF v, o, l, x, y, rt, rm
<1>8. [id \in Ids |-> BookOf(id)]'
         = [[id \in Ids |-> BookOf(id)] EXCEPT ![t] = E!Matched(o, @, v, m), ![m] = E!Matched(l, @, v, t)]
  <2> DEFINE b == [id \in Ids |-> BookOf(id)]
  <2>1. [b EXCEPT ![t] = E!Matched(o, @, v, m), ![m] = E!Matched(l, @, v, t)]
           = [b EXCEPT ![t] = rt, ![m] = rm]
    BY <1>2, <1>5, <1>6
  <2>2. [id \in Ids |-> BookOf(id)]' = [b EXCEPT ![t] = rt, ![m] = rm]
    BY <1>2, <1>5
  <2> QED
    BY <2>1, <2>2
<1>9. [u \in Traders |-> [c \in Currencies |-> LedgerOf(u, c)]]'
         = E!Transfer(E!Transfer([u \in Traders |-> [c \in Currencies |-> LedgerOf(u, c)]], o, x), l, y)
  <2> DEFINE L0 == [u \in Traders |-> [c \in Currencies |-> LedgerOf(u, c)]]
             L1 == E!Transfer(L0, o, x)
             L2 == E!Transfer(L1, l, y)
             L  == [u \in Traders |-> [c \in Currencies |-> LedgerOf(u, c)]]'
  <2>1. L0 \in [Traders -> [Currencies -> Int]] /\ L \in [Traders -> [Currencies -> Int]]
    BY <1>7
  <2>2. \A u \in Traders, c \in Currencies : L0[u][c] = LedgerOf(u, c) /\ L[u][c] = LedgerOf(u, c)'
    OBVIOUS
  <2> HIDE DEF L0, L
  <2>3. /\ L1 \in [Traders -> [Currencies -> Int]]
        /\ \A u \in Traders, c \in Currencies : L1[u][c] = L0[u][c] + Part(o, x, u, c)
    BY <1>2, <2>1, TransferIsPart
  <2> HIDE DEF L1
  <2>4. /\ L2 \in [Traders -> [Currencies -> Int]]
        /\ \A u \in Traders, c \in Currencies : L2[u][c] = L1[u][c] + Part(l, y, u, c)
    BY <1>2, <2>3, TransferIsPart
  <2> HIDE DEF L2
  <2>5. ASSUME NEW u \in Traders, NEW c \in Currencies PROVE L[u][c] = L2[u][c]
    BY <1>7, <2>2, <2>3, <2>4
  <2>6. L = L2
    BY <2>1, <2>4, <2>5
  <2> QED
    BY <2>6 DEF L, L0, L1, L2
<1> QED
  BY <1>3, <1>4, <1>8, <1>9 DEF E!Match, store, o, l

\* A deposit is one, whatever is being settled.
LEMMA DepositMaps ==
    ASSUME Serial, TypeOK, TypeOK', NEW t \in Traders, NEW c \in Currencies, NEW a \in DepositAmounts,
           Deposit(t, c, a)
    PROVE  E!Deposit(t, c, a)
<1>1. PICK s \in Sessions : Sessions = {s}
  BY DEF Serial
<1>2. /\ deposits < MaxDeposits /\ deposits' = deposits + 1
      /\ balance' = [balance EXCEPT ![t][c] = @ + a]
      /\ UNCHANGED << orders, mem, traderRow, upd, settle >>
  BY DEF Deposit, loops, posting
<1>3. \A id \in Ids : BookOf(id)' = BookOf(id)
  BY <1>2, BookSame
<1>4. a \in Int
  BY ExecutorAssumption
<1>5. ASSUME NEW u \in Traders, NEW d \in Currencies
      PROVE  /\ LedgerOf(u, d)' = LedgerOf(u, d) + (IF u = t /\ d = c THEN a ELSE 0)
             /\ LedgerOf(u, d) \in Int
  <2>1. IsFiniteSet(Sessions) /\ Types /\ Types' /\ \A r \in Sessions \ {s} : settle'[r] = settle[r]
    BY <1>2, OneSession DEF TypeOK
  <2>2. LedgerOf(u, d)' = LedgerOf(u, d) + (balance'[u][d] - balance[u][d])
                             + (Owed(settle'[s], u, d) - Owed(settle[s], u, d))
    BY <2>1, LedgerChange
  <2>3. balance'[u][d] = IF u = t /\ d = c THEN balance[u][d] + a ELSE balance[u][d]
    BY <1>2 DEF TypeOK, Types
  <2>4. LedgerOf(u, d) \in Int /\ balance[u][d] \in Int
    BY <2>1, LedgerTyped DEF Types
  <2>5. Owed(settle[s], u, d) \in Int /\ settle'[s] = settle[s]
    BY <1>2, <2>1, OwedHead DEF Types
  <2> QED
    BY <1>4, <2>2, <2>3, <2>4, <2>5
<1>6. [u \in Traders |-> [d \in Currencies |-> LedgerOf(u, d)]]'
         = [[u \in Traders |-> [d \in Currencies |-> LedgerOf(u, d)]] EXCEPT ![t][c] = @ + a]
  <2> DEFINE L0 == [u \in Traders |-> [d \in Currencies |-> LedgerOf(u, d)]]
             L1 == [L0 EXCEPT ![t][c] = @ + a]
             L  == [u \in Traders |-> [d \in Currencies |-> LedgerOf(u, d)]]'
  <2>1. L0 \in [Traders -> [Currencies -> Int]]
    BY <1>5
  <2>2. L \in [Traders -> [Currencies -> Int]]
    BY <1>4, <1>5
  <2>3. \A u \in Traders, d \in Currencies : L0[u][d] = LedgerOf(u, d) /\ L[u][d] = LedgerOf(u, d)'
    OBVIOUS
  <2> HIDE DEF L0, L
  <2>4. /\ L1 \in [Traders -> [Currencies -> Int]]
        /\ \A u \in Traders, d \in Currencies :
              L1[u][d] = IF u = t /\ d = c THEN L0[u][d] + a ELSE L0[u][d]
    BY <1>4, <2>1
  <2> HIDE DEF L1
  <2>5. ASSUME NEW u \in Traders, NEW d \in Currencies PROVE L[u][d] = L1[u][d]
    BY <1>4, <1>5, <2>3, <2>4
  <2>6. L = L1
    BY <2>2, <2>4, <2>5
  <2> QED
    BY <2>6 DEF L, L0, L1
<1> QED
  BY <1>2, <1>3, <1>6 DEF E!Deposit

\* The steps of a session that Exchange does not see.
LEMMA LoopMaps ==
    ASSUME Serial, TypeOK, TypeOK', NothingOwed, NEW s \in Sessions, TablesInv(s),
           \/ RegisterStatus(s) \/ Load(s) \/ NextMarket(s) \/ BeginLimits(s) \/ NextBuy(s)
           \/ Pick(s) \/ EndPass(s)
    PROVE  UNCHANGED E!vars
<1>1. /\ orders' = orders /\ deposits' = deposits /\ traderRow' = traderRow /\ balance' = balance
      /\ pc[s] \notin Updating /\ pc[s] # "settle"
      /\ settle' = settle \/ settle' = [settle EXCEPT ![s] = <<>>]
      /\ upd'[s] = upd[s] \/ upd'[s] = <<>>
  BY DEF RegisterStatus, Load, NextMarket, BeginLimits, NextBuy, Pick, EndPass, Forget, store,
     counters, posting, Updating, TypeOK, Types
<1>2. settle[s] = <<>> /\ upd[s] = <<>>
  BY <1>1 DEF NothingOwed, TablesInv, Clean
<1>3. settle' = settle /\ upd'[s] = <<>>
  BY <1>1, <1>2 DEF TypeOK, Types
<1>4. \A id \in Ids : BookOf(id)' = BookOf(id)
  <2>1. Members(<<>>) = {}
    BY EmptySeq DEF Members
  <2> QED
    BY <1>1, <1>2, <1>3, <2>1, BookSame
<1>5. \A t \in Traders, c \in Currencies : LedgerOf(t, c)' = LedgerOf(t, c)
  BY <1>1, <1>3, LedgersSame
<1> QED
  BY <1>1, <1>4, <1>5, Stutters

\* Writing what a match has fixed is invisible: the book has it already.
LEMMA UpdateMaps ==
    ASSUME Serial, TypeOK, TypeOK', NEW s \in Sessions, TablesInv(s),
           UpdateReplace(s) \/ UpdateSame(s) \/ UpdateDelete(s) \/ UpdateInsert(s)
    PROVE  UNCHANGED E!vars
<1> DEFINE h == Head(upd[s])
<1>1. /\ pc[s] \in Updating
      /\ UNCHANGED << orders, deposits, mem, balance, settle >>
  BY DEF UpdateReplace, UpdateSame, UpdateDelete, UpdateInsert, Updating, loops, counters, posting, store
<1>2. /\ upd[s] \in Seq(Ids) /\ upd[s] # <<>> /\ h \in Ids /\ h \in Known /\ traderRow[h] # NoRow
      /\ Members(upd[s]) = {h} \cup Members(Tail(upd[s]))
  BY <1>1, UpdateHead
<1>3. \A id \in Ids : BookOf(id)' = BookOf(id)
  <2>1. CASE UpdateReplace(s)
    <3>1. upd' = upd /\ \A id \in Ids \ {h} : traderRow'[id] = traderRow[id]
      BY <2>1 DEF UpdateReplace, TypeOK, Types
    <3> QED
      BY <1>1, <1>2, <3>1, BookSame
  <2>2. CASE UpdateDelete(s)
    <3>1. upd' = upd /\ traderRow' = traderRow
      BY <2>2 DEF UpdateDelete, posting
    <3> QED
      BY <1>1, <3>1, BookSame
  <2>3. CASE UpdateSame(s) \/ UpdateInsert(s)
    <3>1. upd'[s] = Tail(upd[s]) /\ traderRow' = traderRow /\ pc[s] \in {"same", "delete", "insert"}
      BY <2>3 DEF UpdateSame, UpdateInsert, Updated, TypeOK, Types
    <3>2. traderRow[h] = mem[s][h]
      <4>1. Moving(s, h) /\ pc[s] \in Pass
        BY <1>1, <3>1 DEF Moving, Pass
      <4> QED
        BY <1>2, <4>1, PassFacts DEF Moved
    <3> HIDE DEF h
    <3> QED
      BY <1>1, <1>2, <3>1, <3>2, BookSame
  <2> QED
    BY <2>1, <2>2, <2>3
<1>4. \A t \in Traders, c \in Currencies : LedgerOf(t, c)' = LedgerOf(t, c)
  BY <1>1, LedgersSame
<1> QED
  BY <1>1, <1>3, <1>4, Stutters

\* So is making a posting that the ledger has already.
LEMMA SettleMaps ==
    ASSUME Serial, TypeOK, TypeOK', NEW s \in Sessions, Settle(s)
    PROVE  UNCHANGED E!vars
<1>1. UNCHANGED << orders, deposits, mem, traderRow, upd >>
  BY DEF Settle, loops, counters
<1>2. \A id \in Ids : BookOf(id)' = BookOf(id)
  BY <1>1, BookSame
<1>3. \A t \in Traders, c \in Currencies : LedgerOf(t, c)' = LedgerOf(t, c)
  BY OneSession, SettleKeepsLedgers
<1> QED
  BY <1>1, <1>2, <1>3, Stutters

\* A check rejects, matches or goes on to the other order.
LEMMA CheckMaps ==
    ASSUME Serial, TypeOK, TypeOK', NothingOwed, NEW s \in Sessions, TablesInv(s), Passing(s),
           Checked(s), CheckTaker(s) \/ CheckMaker(s)
    PROVE  [E!Next]_E!vars
<1>0. pc[s] \in Matching /\ taker[s] \in Ids /\ maker[s] \in Ids /\ taker[s] # maker[s]
  <2>1. pc[s] \in Matching
    BY DEF CheckTaker, CheckMaker, Matching
  <2> QED
    BY <2>1, MatchFacts
<1>1. CASE CheckTaker(s) /\ Affordable(s, taker[s])
  <2>1. UNCHANGED << orders, deposits, traderRow, balance, mem, upd, settle >>
    BY <1>1 DEF CheckTaker, store, counters
  <2>2. \A id \in Ids : BookOf(id)' = BookOf(id)
    BY <2>1, BookSame
  <2>3. \A t \in Traders, c \in Currencies : LedgerOf(t, c)' = LedgerOf(t, c)
    BY <2>1, LedgersSame
  <2> QED
    BY <2>1, <2>2, <2>3, Stutters
<1>2. CASE CheckTaker(s) /\ ~ Affordable(s, taker[s])
  <2>1. Cancel(s, taker[s]) /\ UNCHANGED << store, deposits >>
    BY <1>2 DEF CheckTaker, counters
  <2>2. E!Reject(taker[s], maker[s])
    BY <1>0, <1>2, <2>1, RejectMaps
  <2> QED
    BY <1>0, <2>2 DEF E!Next
<1>3. CASE CheckMaker(s) /\ ~ Affordable(s, maker[s])
  <2>1. Cancel(s, maker[s]) /\ UNCHANGED << store, deposits >> /\ Affordable(s, taker[s])
    BY <1>3 DEF CheckMaker, counters, Checked
  <2>2. E!Reject(taker[s], maker[s])
    BY <1>0, <1>3, <2>1, RejectMaps
  <2> QED
    BY <1>0, <2>2 DEF E!Next
<1>4. CASE CheckMaker(s) /\ Affordable(s, maker[s])
  <2>1. E!Match(taker[s], maker[s])
    BY <1>4, MatchMaps
  <2> QED
    BY <1>0, <2>1 DEF E!Next
<1> QED
  BY <1>1, <1>2, <1>3, <1>4

\* Every step maps to a step of Exchange or to none.
LEMMA NextMaps ==
    ASSUME Serial, TypeOK, TypeOK', NothingOwed, NEW s \in Sessions, TablesInv(s), Passing(s),
           Checked(s), Drafts(s), [Next]_vars
    PROVE  [E!Next]_E!vars
<1>1. ASSUME UNCHANGED << orders, deposits, traderRow, balance, mem, upd, settle >>
      PROVE  UNCHANGED E!vars
  <2>1. \A id \in Ids : BookOf(id)' = BookOf(id)
    BY <1>1, BookSame
  <2>2. \A t \in Traders, c \in Currencies : LedgerOf(t, c)' = LedgerOf(t, c)
    BY <1>1, LedgersSame
  <2> QED
    BY <1>1, <2>1, <2>2, Stutters
<1>2. CASE UNCHANGED vars \/ Wait
  BY <1>1, <1>2 DEF Wait, vars, store, counters, loops, posting
<1>3. CASE \E req \in Requests : Submit(s, req)
  BY <1>1, <1>3 DEF Submit, store, loops, posting
<1>4. ASSUME NEW t \in Traders, NEW c \in Currencies, NEW a \in DepositAmounts, Deposit(t, c, a)
      PROVE  E!Next
  BY <1>4, DepositMaps DEF E!Next
<1>5. CASE GenerateId(s)
  BY <1>5, IdentifyMaps DEF E!Next
<1>6. CASE RegisterTrader(s)
  BY <1>6, PlaceMaps DEF E!Next
<1> QED
  BY <1>2, <1>3, <1>4, <1>5, <1>6, SerialStep, LoopMaps, CheckMaps, UpdateMaps, SettleMaps DEF Step

\* One request at a time: the dozen table operations of a match, its settlement and the
\* deposits between them are, to whoever looks at the book and the ledger, one match.
THEOREM MatchesAreAtomic == Serial /\ DepositsAdd => (Spec => ImplementsExchange)
<1> SUFFICES ASSUME Serial, DepositsAdd PROVE Spec => ImplementsExchange
  OBVIOUS
<1> DEFINE Each == \A s \in Sessions : TablesInv(s) /\ Passing(s) /\ Checked(s) /\ Drafts(s)
           IInv == TypeOK /\ AllGood /\ NothingOwed /\ Each
<1>1. Init => IInv /\ E!Init
  <2>1. Init => \A s \in Sessions : Checked(s) /\ Drafts(s)
    BY EmptySeq DEF Init, Checked, Drafts
  <2> QED
    BY <2>1, InitTypes, InitGood, InitOwed, InitTables, InitPassing, InitMaps
<1>2. IInv /\ [Next]_vars => IInv'
  BY NextTypes, NextGood, NextOwed, NextTables, NextPassing, NextChecked, NextDrafts
<1>3. IInv /\ IInv' /\ [Next]_vars => [E!Next]_E!vars
  <2>1. \E s \in Sessions : TRUE
    BY DEF Serial
  <2> QED
    BY <2>1, NextMaps
<1> HIDE DEF IInv
<1> QED
  BY <1>1, <1>2, <1>3, PTL DEF Spec, ImplementsExchange, E!Spec

-----------------------------------------------------------------------------
(* One request at a time: what the two sides of an instrument exchange.    *)

\* Of two orders of the book, each names the other or neither does; and on every
\* instrument the buyers of the book have exchanged as much as the sellers.
Symmetric == \A i, j \in Known : i \in BookOf(j).matched <=> j \in BookOf(i).matched
OnSide(a, side) == {id \in Known : orders[id].asset = a /\ orders[id].action = side}
BookExchanged(a, side) == SumFunctionOnSet([id \in Known |-> BookOf(id).exchanged], OnSide(a, side))
Balanced == \A a \in Assets : BookExchanged(a, "Buy") = BookExchanged(a, "Sell")

\* An order without id has no entry in the book.
LEMMA BookTyped ==
    ASSUME Serial, TypeOK, TypeOK', NEW id \in Ids
    PROVE  /\ BookOf(id).exchanged \in Int /\ BookOf(id)'.exchanged \in Int
           /\ id \notin Known => BookOf(id) = NoRow
<1>1. PICK s \in Sessions : Sessions = {s}
  BY DEF Serial
<1>2. /\ BookOf(id) = IF id \in Members(upd[s]) THEN mem[s][id] ELSE traderRow[id]
      /\ BookOf(id)' = IF id \in Members(upd'[s]) THEN mem'[s][id] ELSE traderRow'[id]
  BY TheBook
<1>3. BookOf(id) \in Row /\ BookOf(id)' \in Row
  <2>1. mem[s][id] \in Row /\ mem'[s][id] \in Row /\ traderRow[id] \in Row /\ traderRow'[id] \in Row
    BY DEF TypeOK, Types
  <2> QED
    BY <1>2, <2>1
<1>4. id \notin Known => BookOf(id) = NoRow
  BY <1>2 DEF TypeOK, OnlyKnown
<1> QED
  BY <1>3, <1>4 DEF Row, Rows, NoRow

\* The orders of one side are finitely many, so their sum is defined.
LEMMA SidesFinite ==
    ASSUME TypeOK, NEW a, NEW side
    PROVE  IsFiniteSet(OnSide(a, side)) /\ OnSide(a, side) \subseteq Known
<1>1. IsFiniteSet(Known)
  BY LenProperties, FS_Interval DEF Known, TypeOK, Types
<1>2. OnSide(a, side) \subseteq Known
  BY DEF OnSide
<1> QED
  BY <1>1, <1>2, FS_Subset

\* A step that changes statuses only.
LEMMA KeepFills ==
    ASSUME Serial, TypeOK, TypeOK', Symmetric, Balanced, orders' = orders,
           \A id \in Ids : /\ BookOf(id)'.exchanged = BookOf(id).exchanged
                           /\ BookOf(id)'.matched = BookOf(id).matched
    PROVE  Symmetric' /\ Balanced'
<1>1. Known' = Known /\ Known \subseteq Ids
  BY KnownIds DEF Known
<1>2. Symmetric'
  BY <1>1 DEF Symmetric
<1>3. ASSUME NEW a, NEW side PROVE BookExchanged(a, side)' = BookExchanged(a, side)
  <2>1. [id \in Known |-> BookOf(id).exchanged]' = [id \in Known |-> BookOf(id).exchanged]
    BY <1>1
  <2>2. OnSide(a, side)' = OnSide(a, side)
    BY <1>1 DEF OnSide
  <2> QED
    BY <2>1, <2>2 DEF BookExchanged
<1>4. Balanced'
  BY <1>3 DEF Balanced
<1> QED
  BY <1>2, <1>4

\* A new order has exchanged nothing with nobody.
LEMMA IdentifyFills ==
    ASSUME Serial, TypeOK, TypeOK', AllGood, NEW s \in Sessions, Drafts(s), Symmetric, Balanced,
           GenerateId(s)
    PROVE  Symmetric' /\ Balanced'
<1> DEFINE n == Len(orders) + 1
<1>1. \A id \in Ids : BookOf(id)' = BookOf(id)
  BY IdentifyMaps DEF E!Identify
<1>2. orders' = Append(orders, Head(draft[s])) /\ Head(draft[s]) \in TraderOrder
  <2>1. draft[s] \in Seq(TraderOrder) /\ draft[s] # <<>>
    BY DEF GenerateId, TypeOK, Types, Ready
  <2> QED
    BY <2>1, HeadTail DEF GenerateId
<1>3. n \in Ids /\ n \notin Known /\ Known' = Known \cup {n} /\ Known \subseteq Ids
  <2>1. Len(orders') = n /\ Len(orders) \in Nat
    BY <1>2, AppendProperties, LenProperties DEF TypeOK, Types
  <2>2. n \in Ids
    BY <2>1, ExecutorAssumption DEF GenerateId, Ids
  <2>3. Known \subseteq Ids
    BY KnownIds
  <2>4. n \notin Known /\ Known' = Known \cup {n}
    BY <2>1 DEF Known
  <2> QED
    BY <2>2, <2>3, <2>4
<1>4. \A id \in Known : orders'[id] = orders[id]
  BY <1>2, AppendProperties DEF TypeOK, Types, Known
<1>5. BookOf(n) = NoRow
  BY <1>3, BookTyped
<1> HIDE DEF n
<1>6. \A id \in Known : n \notin BookOf(id).matched
  <2> SUFFICES ASSUME NEW id \in Known, n \in BookOf(id).matched PROVE FALSE
    OBVIOUS
  <2>1. BookOf(id) = IF id \in Members(upd[s]) THEN mem[s][id] ELSE traderRow[id]
    BY TheBook
  <2>2. BookOf(id) \in Copies(id)
    BY <2>1 DEF Copies
  <2>3. TradesLegal
    BY AllGoodMeans
  <2> QED
    BY <1>3, <2>2, <2>3 DEF TradesLegal
<1>7. Symmetric'
  <2> SUFFICES ASSUME NEW i \in Known \cup {n}, NEW j \in Known \cup {n}
               PROVE  i \in BookOf(j).matched <=> j \in BookOf(i).matched
    BY <1>1, <1>3 DEF Symmetric
  <2>1. i \in Known /\ j \in Known => (i \in BookOf(j).matched <=> j \in BookOf(i).matched)
    BY DEF Symmetric
  <2>2. BookOf(n).matched = {}
    BY <1>5 DEF NoRow
  <2> QED
    BY <1>6, <2>1, <2>2
<1>8. ASSUME NEW a, NEW side PROVE BookExchanged(a, side)' = BookExchanged(a, side)
  <2> DEFINE f == [id \in Known |-> BookOf(id).exchanged]
             g == [id \in Known' |-> BookOf(id)'.exchanged]
             S == OnSide(a, side)
             T == OnSide(a, side)'
  <2>1. \A id \in Known : f[id] \in Int /\ g[id] = f[id]
    BY <1>1, <1>3, BookTyped
  <2>2. g[n] = 0 /\ n \in Known'
    BY <1>1, <1>3, <1>5 DEF NoRow
  <2>3. T = S \/ T = S \cup {n}
    BY <1>3, <1>4 DEF OnSide
  <2>4. IsFiniteSet(S) /\ S \subseteq Known /\ n \notin S
    BY <1>3, SidesFinite
  <2>5. IsFiniteSet(S \cup {n})
    BY <2>4, FS_AddElement
  <2>6. BookExchanged(a, side) = SumFunctionOnSet(f, S) /\ BookExchanged(a, side)' = SumFunctionOnSet(g, T)
    BY DEF BookExchanged
  <2> HIDE DEF f, g, S, T
  <2>7. SumFunctionOnSet(g, S) = SumFunctionOnSet(f, S)
    BY <2>1, <2>4, SumSame
  <2>8. SumFunctionOnSet(g, S \cup {n}) = SumFunctionOnSet(g, S)
    <3>1. \A id \in S \cup {n} : g[id] \in Int
      BY <2>1, <2>2, <2>4
    <3>2. SumFunctionOnSet(g, S \cup {n}) = g[n] + SumFunctionOnSet(g, (S \cup {n}) \ {n})
      BY <2>5, <3>1, SumFacts
    <3>3. (S \cup {n}) \ {n} = S
      BY <2>4
    <3>4. SumFunctionOnSet(g, S) \in Int
      BY <2>4, <3>1, SumFacts
    <3>5. SumFunctionOnSet(g, S \cup {n}) = g[n] + SumFunctionOnSet(g, S)
      BY <3>2, <3>3
    <3> QED
      BY <2>2, <3>4, <3>5
  <2> QED
    BY <2>3, <2>6, <2>7, <2>8
<1>9. Balanced'
  BY <1>8 DEF Balanced
<1> QED
  BY <1>7, <1>9

\* Both orders of a match exchange the same volume, on opposite sides, with each other.
LEMMA MatchFills ==
    ASSUME Serial, TypeOK, TypeOK', NEW s \in Sessions, TablesInv(s), Symmetric, Balanced,
           CheckMaker(s), Affordable(s, maker[s])
    PROVE  Symmetric' /\ Balanced'
<1> DEFINE t == taker[s]
           m == maker[s]
           v == ExchangeVolume(s)
<1>1. pc[s] \in Matching
  BY DEF CheckMaker, Matching
<1>2. /\ t \in Ids /\ m \in Ids /\ t # m /\ t \in Known /\ m \in Known
      /\ orders[t] \in TraderOrder /\ orders[m] \in TraderOrder
      /\ mem[s][t] \in Rows(Ids) /\ mem[s][m] \in Rows(Ids) /\ v \in Int
  BY <1>1, MatchFacts, AmountTyped
<1>3. /\ BookOf(t) = mem[s][t] /\ BookOf(m) = mem[s][m]
      /\ \A id \in Ids : BookOf(id)' = IF id = t THEN Exchange1(orders[t], mem[s][t], v, m)
                                       ELSE IF id = m THEN Exchange1(orders[m], mem[s][m], v, t)
                                       ELSE BookOf(id)
  BY MatchBook
<1>4. orders' = orders /\ Known' = Known /\ Known \subseteq Ids
  BY KnownIds DEF CheckMaker, store, Known
<1>5. CanTrade(orders[t], orders[m])
  BY <1>1 DEF TypeOK, Ready
<1> HIDE DEF t, m, v
<1>6. \A id \in Ids :
         /\ BookOf(id)'.exchanged = IF id \in {t, m} THEN BookOf(id).exchanged + v ELSE BookOf(id).exchanged
         /\ BookOf(id)'.matched = IF id = t THEN BookOf(id).matched \cup {m}
                                  ELSE IF id = m THEN BookOf(id).matched \cup {t}
                                  ELSE BookOf(id).matched
  <2>1. /\ Exchange1(orders[t], mem[s][t], v, m).exchanged = mem[s][t].exchanged + v
        /\ Exchange1(orders[t], mem[s][t], v, m).matched = mem[s][t].matched \cup {m}
    BY <1>2, Exchange1Typed
  <2>2. /\ Exchange1(orders[m], mem[s][m], v, t).exchanged = mem[s][m].exchanged + v
        /\ Exchange1(orders[m], mem[s][m], v, t).matched = mem[s][m].matched \cup {t}
    BY <1>2, Exchange1Typed
  <2> QED
    BY <1>2, <1>3, <2>1, <2>2
<1>7. Symmetric'
  <2> SUFFICES ASSUME NEW i \in Known, NEW j \in Known
               PROVE  i \in BookOf(j)'.matched <=> j \in BookOf(i)'.matched
    BY <1>4 DEF Symmetric
  <2>1. i \in BookOf(j).matched <=> j \in BookOf(i).matched
    BY DEF Symmetric
  <2> QED
    BY <1>2, <1>4, <1>6, <2>1
<1>8. ASSUME NEW a, NEW side \in {"Buy", "Sell"}
      PROVE  /\ BookExchanged(a, side)' = BookExchanged(a, side) + (IF a = orders[t].asset THEN v ELSE 0)
             /\ BookExchanged(a, side) \in Int
  <2> DEFINE f == [id \in Known |-> BookOf(id).exchanged]
             g == [id \in Known |-> BookOf(id)'.exchanged]
             S == OnSide(a, side)
  <2>1. \A id \in Known : f[id] \in Int /\ g[id] \in Int /\ g[id] = IF id \in {t, m} THEN f[id] + v ELSE f[id]
    BY <1>4, <1>6, BookTyped
  <2>2. IsFiniteSet(S) /\ S \subseteq Known
    BY SidesFinite
  <2>3. BookExchanged(a, side) = SumFunctionOnSet(f, S) /\ BookExchanged(a, side)' = SumFunctionOnSet(g, S)
    BY <1>4 DEF BookExchanged, OnSide
  <2>4. IF a = orders[t].asset THEN \E x \in {t, m} : x \in S /\ \A y \in {t, m} \ {x} : y \notin S
                               ELSE t \notin S /\ m \notin S
    <3>1. /\ orders[t].asset = orders[m].asset /\ orders[t].action # orders[m].action
          /\ orders[t].action \in {"Buy", "Sell"} /\ orders[m].action \in {"Buy", "Sell"}
      BY <1>2, <1>5 DEF CanTrade, TraderOrder, MarketOrder, LimitOrder
    <3> QED
      BY <1>2, <3>1 DEF OnSide
  <2> HIDE DEF f, g, S
  <2>5. SumFunctionOnSet(f, S) \in Int
    BY <2>1, <2>2, SumFacts
  <2>6. CASE a = orders[t].asset
    <3>1. PICK x \in S : x \in {t, m} /\ \A y \in {t, m} \ {x} : y \notin S
      BY <2>4, <2>6
    <3>2. \A y \in S : f[y] \in Int /\ g[y] \in Int
      BY <2>1, <2>2
    <3>3. \A y \in S \ {x} : g[y] = f[y]
      BY <2>1, <2>2, <3>1
    <3>4. SumFunctionOnSet(g, S) = SumFunctionOnSet(f, S) + g[x] - f[x]
      <4>1. IsFiniteSet(S)
        BY <2>2
      <4> HIDE <1>8, <2>6
      <4> QED
        BY <3>2, <3>3, <4>1, SumChange
    <3>5. g[x] = f[x] + v /\ f[x] \in Int
      BY <2>1, <2>2, <3>1
    <3> QED
      BY <1>2, <2>3, <2>5, <2>6, <3>4, <3>5
  <2>7. CASE a # orders[t].asset
    <3>1. \A y \in S : f[y] \in Int /\ g[y] = f[y]
      BY <2>1, <2>2, <2>4, <2>7
    <3>2. SumFunctionOnSet(g, S) = SumFunctionOnSet(f, S)
      BY <2>2, <3>1, SumSame
    <3> QED
      BY <2>3, <2>5, <2>7, <3>2
  <2> QED
    BY <2>6, <2>7
<1>9. Balanced'
  <2> SUFFICES ASSUME NEW a \in Assets PROVE BookExchanged(a, "Buy")' = BookExchanged(a, "Sell")'
    BY DEF Balanced
  <2>1. BookExchanged(a, "Buy") = BookExchanged(a, "Sell")
    BY DEF Balanced
  <2> QED
    BY <1>8, <2>1
<1> QED
  BY <1>7, <1>9

\* Every step keeps both.
LEMMA NextFills ==
    ASSUME Serial, TypeOK, TypeOK', AllGood, NothingOwed, NEW s \in Sessions, TablesInv(s), Drafts(s),
           Symmetric, Balanced, [Next]_vars
    PROVE  Symmetric' /\ Balanced'
<1>1. ASSUME orders' = orders, UNCHANGED [id \in Ids |-> BookOf(id)] PROVE Symmetric' /\ Balanced'
  <2>1. \A id \in Ids : BookOf(id)' = BookOf(id)
    BY <1>1
  <2> QED
    BY <1>1, <2>1, KeepFills
<1>2. ASSUME UNCHANGED << orders, traderRow, mem, upd >> PROVE Symmetric' /\ Balanced'
  <2>1. \A id \in Ids : BookOf(id)' = BookOf(id)
    BY <1>2, BookSame
  <2> QED
    BY <1>2, <2>1, KeepFills
<1>3. CASE UNCHANGED vars \/ Wait
  BY <1>2, <1>3 DEF Wait, vars, store, loops, posting
<1>4. CASE \E req \in Requests : Submit(s, req)
  BY <1>2, <1>4 DEF Submit, store, loops, posting
<1>5. ASSUME NEW t \in Traders, NEW c \in Currencies, NEW a \in DepositAmounts, Deposit(t, c, a)
      PROVE  Symmetric' /\ Balanced'
  BY <1>2, <1>5 DEF Deposit, loops, posting
<1>6. CASE RegisterTrader(s)
  <2>1. PICK id \in Ids : E!Place(id)
    BY <1>6, PlaceMaps
  <2>2. /\ BookOf(id) = NoRow /\ orders' = orders
        /\ [k \in Ids |-> BookOf(k)]' = [[k \in Ids |-> BookOf(k)] EXCEPT ![id] = Fresh]
    BY <2>1, SameOperators DEF E!Place
  <2>3. \A k \in Ids : BookOf(k)' = IF k = id THEN Fresh ELSE BookOf(k)
    BY <2>2
  <2> QED
    BY <2>2, <2>3, KeepFills DEF Fresh, NoRow
<1>7. ASSUME UNCHANGED E!vars PROVE Symmetric' /\ Balanced'
  BY <1>1, <1>7 DEF E!vars
<1>8. CASE CheckTaker(s) \/ CheckMaker(s)
  <2>1. pc[s] \in Matching
    BY <1>8 DEF CheckTaker, CheckMaker, Matching
  <2>2. CASE CheckTaker(s) /\ Affordable(s, taker[s])
    BY <1>2, <2>2 DEF CheckTaker, store
  <2>3. CASE CheckMaker(s) /\ Affordable(s, maker[s])
    BY <2>3, MatchFills
  <2>4. ASSUME NEW k \in {taker[s], maker[s]}, Cancel(s, k), UNCHANGED << store, deposits >>
        PROVE  Symmetric' /\ Balanced'
    <3>1. /\ k \in Ids /\ BookOf(k) \in Rows(Ids)
          /\ \A id \in Ids : BookOf(id)' = IF id = k THEN [BookOf(k) EXCEPT !.status = "Canceled"]
                                                     ELSE BookOf(id)
      BY <2>1, <2>4, CancelBook
    <3>2. \A id \in Ids : /\ BookOf(id)'.exchanged = BookOf(id).exchanged
                          /\ BookOf(id)'.matched = BookOf(id).matched
      BY <3>1 DEF Rows
    <3> QED
      BY <2>4, <3>2, KeepFills DEF store
  <2> QED
    BY <1>8, <2>2, <2>3, <2>4 DEF CheckTaker, CheckMaker, counters
<1> QED
  BY <1>3, <1>4, <1>5, <1>6, <1>7, <1>8, SerialStep, IdentifyFills, LoopMaps, UpdateMaps, SettleMaps DEF Step

\* One request at a time: once it has returned, both sides of every match are in the
\* traders' rows, for the same volume.
THEOREM FillsAlwaysBalance == Serial => (Spec => []FillsBalance)
<1> SUFFICES ASSUME Serial PROVE Spec => []FillsBalance
  OBVIOUS
<1> DEFINE Each == \A s \in Sessions : TablesInv(s) /\ Drafts(s)
           IInv == TypeOK /\ AllGood /\ NothingOwed /\ Each /\ Symmetric /\ Balanced
<1>1. Init => IInv
  <2> SUFFICES ASSUME Init PROVE Each /\ Symmetric /\ Balanced
    BY InitTypes, InitGood, InitOwed
  <2>1. Each
    BY InitTables, EmptySeq DEF Init, Drafts
  <2>2. Known = {}
    BY EmptySeq DEF Init, Known
  <2>3. Symmetric
    BY <2>2 DEF Symmetric
  <2>4. \A a, side : OnSide(a, side) = {}
    BY <2>2 DEF OnSide
  <2>5. \A a, side : BookExchanged(a, side) = SumFunctionOnSet([id \in Known |-> BookOf(id).exchanged], {})
    BY <2>4 DEF BookExchanged
  <2> QED
    BY <2>1, <2>3, <2>5 DEF Balanced
<1>2. IInv /\ [Next]_vars => IInv'
  <2> SUFFICES ASSUME IInv, [Next]_vars PROVE IInv'
    OBVIOUS
  <2>1. TypeOK' /\ AllGood' /\ NothingOwed'
    BY NextTypes, NextGood, NextOwed
  <2>2. Each'
    BY <2>1, NextTables, NextDrafts
  <2>3. Symmetric' /\ Balanced'
    <3>1. \E s \in Sessions : TRUE
      BY DEF Serial
    <3> QED
      BY <2>1, <3>1, NextFills
  <2> QED
    BY <2>1, <2>2, <2>3
<1>3. IInv => FillsBalance
  <2> SUFFICES ASSUME IInv, Quiescent
               PROVE  /\ \A a \in Assets : Exchanged(a, "Buy") = Exchanged(a, "Sell")
                      /\ \A i, j \in Known : i \in traderRow[j].matched <=> j \in traderRow[i].matched
    BY DEF FillsBalance
  <2>1. PICK s \in Sessions : Sessions = {s}
    BY DEF Serial
  <2>2. \A id : BookOf(id) = traderRow[id]
    <3>1. upd[s] = <<>>
      <4>1. pc[s] = "idle"
        BY DEF Quiescent
      <4> QED
        BY <4>1 DEF TablesInv, Clean, Updating
    <3>2. \A r \in Sessions : DOMAIN upd[r] = {}
      BY <2>1, <3>1
    <3> QED
      BY <3>2 DEF BookOf
  <2>3. \A a, side : Exchanged(a, side) = BookExchanged(a, side)
    BY <2>2 DEF Exchanged, BookExchanged, OnSide
  <2> QED
    BY <2>2, <2>3 DEF Symmetric, Balanced
<1> HIDE DEF IInv
<1> QED
  BY <1>1, <1>2, <1>3, PTL DEF Spec
=============================================================================
