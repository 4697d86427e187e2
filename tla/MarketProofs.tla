------------------------------ MODULE MarketProofs ------------------------------
(***************************************************************************)
(* What is conserved by the bank and the market, for all characters,       *)
(* prices and amounts: no balance is ever negative, and money and goods    *)
(* are neither made nor lost.  The argument is by balances: what a step    *)
(* adds to the accounts of all characters together, it takes from what the *)
(* offers hold, or from what counts as fees and losses.                    *)
(***************************************************************************)
EXTENDS Market, Facts

Delta == [cash : Int, bank : Int, goods : Int]

(* What offers of a side hold together.                                    *)
AmountOf == [o \in Offer |-> o.amount]
OnSide(side, S) == {o \in S : o.side = side}
Lot(side, S) == SumFunctionOnSet(AmountOf, OnSide(side, S))

(* What characters have, and what a change adds to it.                     *)
MoneyOf == [c \in Chars |-> Worth(Current(c))]
GoodsOf == [c \in Chars |-> Current(c).goods]
Money == SumFunctionOnSet(MoneyOf, Chars)
Goods == SumFunctionOnSet(GoodsOf, Chars)
MoneyIn(d) == SumFunctionOnSet([c \in Chars |-> Worth(d[c])], Chars)
GoodsIn(d) == SumFunctionOnSet([c \in Chars |-> d[c].goods], Chars)

(* Ids are given out once: without it a replaced offer could coincide with *)
(* another one, and a sum over offers would lose it.                       *)
OffersOK ==
    /\ IsFiniteSet(offers) /\ IsFiniteSet(result)
    /\ \A o \in offers : o.id \in used
    /\ \A o \in offers : \A u \in offers : o.id = u.id => o = u

---------------------------------------------------------------------------
(* Changes of accounts.                                                    *)

LEMMA PlusIs ==
    ASSUME NEW a \in Account, NEW d \in Delta
    PROVE  Plus(a, d) = [cash |-> a.cash + d.cash, bank |-> a.bank + d.bank,
                         goods |-> a.goods + d.goods]
BY DEF Plus, Account, Delta

LEMMA MinIs == ASSUME NEW m \in Int, NEW n \in Int PROVE Min({n, m}) = IF n <= m THEN n ELSE m
BY DEF Min

(* A sum with one summand other than 0, and with two.                      *)
LEMMA SumOfNone ==
    ASSUME NEW f, NEW S, IsFiniteSet(S), \A x \in S : f[x] = 0
    PROVE  SumFunctionOnSet(f, S) = 0
<1>1. SumFunctionOnSet(f, S) = SumFunctionOnSet(f, S) * 0
  BY SumTimes
<1>. QED
  BY <1>1, SumTakes

LEMMA SumOfOne ==
    ASSUME NEW f, NEW S, IsFiniteSet(S), NEW p \in S, f[p] \in Int,
           \A x \in S : x # p => f[x] = 0
    PROVE  SumFunctionOnSet(f, S) = f[p]
<1>1. IsFiniteSet(S \ {p})
  BY FS_Subset
<1>2. SumFunctionOnSet(f, S \ {p}) = 0
  BY <1>1, SumOfNone
<1>. QED
  BY <1>2, SumTakes

LEMMA SumOfTwo ==
    ASSUME NEW f, NEW S, IsFiniteSet(S), NEW p \in S, NEW q \in S, p # q,
           f[p] \in Int, f[q] \in Int, \A x \in S : x # p /\ x # q => f[x] = 0
    PROVE  SumFunctionOnSet(f, S) = f[p] + f[q]
<1>1. IsFiniteSet(S \ {p})
  BY FS_Subset
<1>2. SumFunctionOnSet(f, S \ {p}) = f[q]
  BY <1>1, SumOfOne
<1>3. SumFunctionOnSet(f, S) = f[p] + SumFunctionOnSet(f, S \ {p})
  BY SumTakes
<1>. QED
  BY <1>2, <1>3

(* The change of one account, and of two.                                  *)
LEMMA ForOne ==
    ASSUME NEW p \in Chars, NEW d \in Delta
    PROVE  /\ For(p, d) \in [Chars -> Delta]
           /\ For(p, d)[p] = d /\ \A c \in Chars : c # p => For(p, d)[c] = Nothing
           /\ MoneyIn(For(p, d)) = d.cash + d.bank
           /\ GoodsIn(For(p, d)) = d.goods
<1>1. Nothing \in Delta /\ Worth(Nothing) = 0 /\ Nothing.goods = 0
  BY DEF Nothing, Delta, Worth
<1>2. /\ For(p, d) \in [Chars -> Delta] /\ For(p, d)[p] = d
      /\ \A c \in Chars : c # p => For(p, d)[c] = Nothing
  BY <1>1 DEF For
<1> HIDE DEF For
<1>3. Worth(d) \in Int /\ Worth(d) = d.cash + d.bank /\ d.goods \in Int
  BY DEF Worth, Delta
<1>4. SumFunctionOnSet([c \in Chars |-> Worth(For(p, d)[c])], Chars) = Worth(d)
  <2> DEFINE f == [c \in Chars |-> Worth(For(p, d)[c])]
  <2>1. f[p] = Worth(d) /\ \A c \in Chars : c # p => f[c] = 0
    BY <1>1, <1>2
  <2> HIDE DEF f
  <2>2. SumFunctionOnSet(f, Chars) = f[p]
    BY <1>3, <2>1, SumOfOne, MarketAssumption
  <2>. QED
    BY <2>1, <2>2 DEF f
<1>5. SumFunctionOnSet([c \in Chars |-> For(p, d)[c].goods], Chars) = d.goods
  <2> DEFINE f == [c \in Chars |-> For(p, d)[c].goods]
  <2>1. f[p] = d.goods /\ \A c \in Chars : c # p => f[c] = 0
    BY <1>1, <1>2
  <2> HIDE DEF f
  <2>2. SumFunctionOnSet(f, Chars) = f[p]
    BY <1>3, <2>1, SumOfOne, MarketAssumption
  <2>. QED
    BY <2>1, <2>2 DEF f
<1>. QED
  BY <1>2, <1>3, <1>4, <1>5 DEF MoneyIn, GoodsIn

LEMMA ForTwo ==
    ASSUME NEW p \in Chars, NEW d \in Delta, NEW q \in Chars, NEW e \in Delta, p # q
    PROVE  LET b == ForBoth(p, d, q, e) IN
           /\ b \in [Chars -> Delta] /\ b[p] = d /\ b[q] = e
           /\ \A c \in Chars : c # p /\ c # q => b[c] = Nothing
           /\ MoneyIn(b) = (d.cash + d.bank) + (e.cash + e.bank)
           /\ GoodsIn(b) = d.goods + e.goods
<1> DEFINE b == ForBoth(p, d, q, e)
<1>1. Nothing \in Delta /\ Worth(Nothing) = 0 /\ Nothing.goods = 0
  BY DEF Nothing, Delta, Worth
<1>2. /\ b \in [Chars -> Delta] /\ b[p] = d /\ b[q] = e
      /\ \A c \in Chars : c # p /\ c # q => b[c] = Nothing
  BY <1>1 DEF ForBoth
<1> HIDE DEF b
<1>3. /\ Worth(d) \in Int /\ Worth(d) = d.cash + d.bank /\ d.goods \in Int
      /\ Worth(e) \in Int /\ Worth(e) = e.cash + e.bank /\ e.goods \in Int
  BY DEF Worth, Delta
<1>4. SumFunctionOnSet([c \in Chars |-> Worth(b[c])], Chars) = Worth(d) + Worth(e)
  <2> DEFINE f == [c \in Chars |-> Worth(b[c])]
  <2>1. f[p] = Worth(d) /\ f[q] = Worth(e) /\ \A c \in Chars : c # p /\ c # q => f[c] = 0
    BY <1>1, <1>2
  <2> HIDE DEF f
  <2>2. SumFunctionOnSet(f, Chars) = f[p] + f[q]
    BY <1>3, <2>1, SumOfTwo, MarketAssumption
  <2>. QED
    BY <2>1, <2>2 DEF f
<1>5. SumFunctionOnSet([c \in Chars |-> b[c].goods], Chars) = d.goods + e.goods
  <2> DEFINE f == [c \in Chars |-> b[c].goods]
  <2>1. f[p] = d.goods /\ f[q] = e.goods /\ \A c \in Chars : c # p /\ c # q => f[c] = 0
    BY <1>1, <1>2
  <2> HIDE DEF f
  <2>2. SumFunctionOnSet(f, Chars) = f[p] + f[q]
    BY <1>3, <2>1, SumOfTwo, MarketAssumption
  <2>. QED
    BY <2>1, <2>2 DEF f
<1>. QED
  BY <1>2, <1>3, <1>4, <1>5 DEF MoneyIn, GoodsIn, b

(* Accounts change by what is added to them and keep their type if nobody  *)
(* is left with less than nothing: the account that counts, in the Player  *)
(* or in the row, is the one that changes.                                 *)
LEMMA Changed ==
    ASSUME TypeOK, NEW d \in [Chars -> Delta], NEW S, Change(d, S),
           \A c \in Chars : Plus(Current(c), d[c]) \in Account
    PROVE  /\ mem' \in [Chars -> Account] /\ row' \in [Chars -> Account] /\ where' = where
           /\ Money' \in Int /\ Money' = Money + MoneyIn(d)
           /\ Goods' \in Int /\ Goods' = Goods + GoodsIn(d)
           /\ Money \in Int /\ Goods \in Int
<1>1. ASSUME NEW c \in Chars
      PROVE  /\ Current(c) \in Account /\ d[c] \in Delta
             /\ mem'[c] \in Account /\ row'[c] \in Account
             /\ Current(c)' = Plus(Current(c), d[c])
  <2>1. Current(c) \in Account /\ mem[c] \in Account /\ row[c] \in Account
    BY DEF TypeOK, Current
  <2>2. CASE where[c] = "world"
    <3>1. Plus(mem[c], d[c]) \in Account
      BY <2>2 DEF Current
    <3>. QED
      BY <2>1, <2>2, <3>1 DEF Change, Current
  <2>3. CASE where[c] # "world"
    <3>1. Plus(row[c], d[c]) \in Account
      BY <2>3 DEF Current
    <3>. QED
      BY <2>1, <2>3, <3>1 DEF Change, Current
  <2>. QED
    BY <2>1, <2>2, <2>3
<1>2. /\ mem' \in [Chars -> Account] /\ row' \in [Chars -> Account] /\ where' = where
  BY <1>1 DEF Change
<1>3. \A c \in Chars : /\ Worth(Current(c)) \in Int /\ Worth(d[c]) \in Int
                       /\ Worth(Current(c)') = Worth(Current(c)) + Worth(d[c])
                       /\ Current(c).goods \in Int /\ d[c].goods \in Int
                       /\ Current(c)'.goods = Current(c).goods + d[c].goods
  BY <1>1, PlusIs DEF Account, Delta, Worth
<1>4. Money \in Int /\ Money' \in Int /\ Money' = Money + MoneyIn(d)
  <2> DEFINE m == MoneyOf  n == [c \in Chars |-> Worth(Current(c)')]
             b == [c \in Chars |-> Worth(d[c])]
  <2>1. n = MoneyOf'
    BY DEF MoneyOf, Worth
  <2>2. \A c \in Chars : m[c] \in Int /\ b[c] \in Int /\ n[c] = m[c] + b[c]
    BY <1>3 DEF MoneyOf
  <2>3. Money = SumFunctionOnSet(m, Chars) /\ MoneyIn(d) = SumFunctionOnSet(b, Chars)
        /\ Money' = SumFunctionOnSet(n, Chars)
    BY <2>1 DEF Money, MoneyIn
  <2> HIDE DEF m, n, b
  <2>4. \A c \in Chars : n[c] \in Int
    BY <2>2
  <2>. QED
    BY <2>2, <2>3, <2>4, SumPlus, SumTakes, MarketAssumption
<1>5. Goods \in Int /\ Goods' \in Int /\ Goods' = Goods + GoodsIn(d)
  <2> DEFINE m == GoodsOf  n == [c \in Chars |-> Current(c)'.goods]
             b == [c \in Chars |-> d[c].goods]
  <2>1. n = GoodsOf'
    BY DEF GoodsOf
  <2>2. \A c \in Chars : m[c] \in Int /\ b[c] \in Int /\ n[c] = m[c] + b[c]
    BY <1>3 DEF GoodsOf
  <2>3. Goods = SumFunctionOnSet(m, Chars) /\ GoodsIn(d) = SumFunctionOnSet(b, Chars)
        /\ Goods' = SumFunctionOnSet(n, Chars)
    BY <2>1 DEF Goods, GoodsIn
  <2> HIDE DEF m, n, b
  <2>4. \A c \in Chars : n[c] \in Int
    BY <2>2
  <2>. QED
    BY <2>2, <2>3, <2>4, SumPlus, SumTakes, MarketAssumption
<1>. QED
  BY <1>2, <1>4, <1>5

(* The accounts that do not change, or grow.                               *)
LEMMA CurrentKept ==
    ASSUME TypeOK, NEW c \in Chars
    PROVE  /\ Current(c) \in Account /\ Plus(Current(c), Nothing) \in Account
           /\ \A e \in Account : Plus(Current(c), e) \in Account
<1>1. Current(c) \in Account
  BY DEF TypeOK, Current
<1>2. ASSUME NEW e \in Account PROVE Plus(Current(c), e) \in Account
  <2>1. e \in Delta
    BY DEF Account, Delta
  <2>. QED
    BY <1>1, <2>1, PlusIs DEF Account
<1>3. Nothing \in Account
  BY DEF Nothing, Account
<1>. QED
  BY <1>1, <1>2, <1>3

(* The change of one account, that of a character in the world.            *)
LEMMA ChangedOne ==
    ASSUME TypeOK, NEW p \in Chars, where[p] = "world", NEW d \in Delta, NEW S,
           Change(For(p, d), S), Plus(mem[p], d) \in Account
    PROVE  /\ mem' \in [Chars -> Account] /\ row' \in [Chars -> Account] /\ where' = where
           /\ Money' \in Int /\ Money' = Money + (d.cash + d.bank)
           /\ Goods' \in Int /\ Goods' = Goods + d.goods
           /\ Money \in Int /\ Goods \in Int
<1>1. /\ For(p, d) \in [Chars -> Delta]
      /\ For(p, d)[p] = d /\ \A c \in Chars : c # p => For(p, d)[c] = Nothing
      /\ MoneyIn(For(p, d)) = d.cash + d.bank
      /\ GoodsIn(For(p, d)) = d.goods
  BY ForOne
<1>2. ASSUME NEW c \in Chars PROVE Plus(Current(c), For(p, d)[c]) \in Account
  BY <1>1, CurrentKept DEF Current
<1>. QED
  BY <1>1, <1>2, Changed

(* Those of two: the second may be away.                                   *)
LEMMA ChangedTwo ==
    ASSUME TypeOK, NEW p \in Chars, where[p] = "world", NEW d \in Delta,
           NEW q \in Chars, p # q, NEW e \in Account, NEW S,
           Change(ForBoth(p, d, q, e), S), Plus(mem[p], d) \in Account
    PROVE  /\ mem' \in [Chars -> Account] /\ row' \in [Chars -> Account] /\ where' = where
           /\ Money' \in Int /\ Money' = Money + ((d.cash + d.bank) + (e.cash + e.bank))
           /\ Goods' \in Int /\ Goods' = Goods + (d.goods + e.goods)
           /\ Money \in Int /\ Goods \in Int
<1> DEFINE b == ForBoth(p, d, q, e)
<1>0. e \in Delta
  BY DEF Account, Delta
<1>1. /\ b \in [Chars -> Delta] /\ b[p] = d /\ b[q] = e
      /\ \A c \in Chars : c # p /\ c # q => b[c] = Nothing
      /\ MoneyIn(b) = (d.cash + d.bank) + (e.cash + e.bank)
      /\ GoodsIn(b) = d.goods + e.goods
  BY <1>0, ForTwo
<1>2. Change(b, S)
  OBVIOUS
<1> HIDE DEF b
<1>3. ASSUME NEW c \in Chars PROVE Plus(Current(c), b[c]) \in Account
  BY <1>1, CurrentKept DEF Current
<1>. QED
  BY <1>1, <1>2, <1>3, Changed

---------------------------------------------------------------------------
(* What offers hold.                                                       *)

LEMMA LotTyped ==
    ASSUME NEW S \in SUBSET Offer, IsFiniteSet(S), NEW side
    PROVE  /\ IsFiniteSet(OnSide(side, S)) /\ Lot(side, S) \in Nat
           /\ \A o \in S : AmountOf[o] = o.amount /\ o.amount \in Nat
<1>1. IsFiniteSet(OnSide(side, S)) /\ OnSide(side, S) \subseteq S
  BY FS_Subset DEF OnSide
<1>2. \A o \in S : AmountOf[o] = o.amount /\ o.amount \in Nat
  BY DEF AmountOf, Offer
<1>3. \A o \in OnSide(side, S) : AmountOf[o] \in Nat
  BY <1>1, <1>2
<1>. QED
  BY <1>1, <1>2, <1>3, SumNat DEF Lot

(* An offer more, or less.                                                 *)
LEMMA LotPut ==
    ASSUME NEW S \in SUBSET Offer, IsFiniteSet(S), NEW side, NEW o \in Offer, o \notin S
    PROVE  Lot(side, S \cup {o}) = Lot(side, S) + IF o.side = side THEN o.amount ELSE 0
<1>1. CASE o.side = side
  <2>1. OnSide(side, S \cup {o}) = OnSide(side, S) \cup {o} /\ o \notin OnSide(side, S)
    BY <1>1 DEF OnSide
  <2>2. \A x \in OnSide(side, S) \cup {o} : AmountOf[x] \in Int
    BY LotTyped DEF OnSide, AmountOf, Offer
  <2>3. AmountOf[o] = o.amount /\ o.amount \in Int
    BY DEF AmountOf, Offer
  <2>4. Lot(side, S) \in Nat /\ IsFiniteSet(OnSide(side, S))
    BY LotTyped
  <2>5. SumFunctionOnSet(AmountOf, OnSide(side, S) \cup {o})
            = AmountOf[o] + SumFunctionOnSet(AmountOf, OnSide(side, S))
    BY <2>1, <2>2, <2>4, SumPuts
  <2>6. Lot(side, S \cup {o}) = o.amount + Lot(side, S)
    BY <2>1, <2>3, <2>5 DEF Lot
  <2>. QED
    BY <1>1, <2>3, <2>4, <2>6
<1>2. CASE o.side # side
  <2>1. OnSide(side, S \cup {o}) = OnSide(side, S)
    BY <1>2 DEF OnSide
  <2>. QED
    BY <1>2, <2>1, LotTyped DEF Lot
<1>. QED
  BY <1>1, <1>2

LEMMA LotTake ==
    ASSUME NEW S \in SUBSET Offer, IsFiniteSet(S), NEW side, NEW o \in S
    PROVE  Lot(side, S \ {o}) = Lot(side, S) - IF o.side = side THEN o.amount ELSE 0
<1>1. IsFiniteSet(S \ {o}) /\ (S \ {o}) \cup {o} = S
  BY FS_Subset
<1>2. Lot(side, S) = Lot(side, S \ {o}) + IF o.side = side THEN o.amount ELSE 0
  BY <1>1, LotPut
<1>3. Lot(side, S \ {o}) \in Nat /\ o.amount \in Nat
  BY <1>1, LotTyped DEF Offer
<1>. QED
  BY <1>2, <1>3

(* Several less.                                                           *)
LEMMA LotWithout ==
    ASSUME NEW S \in SUBSET Offer, IsFiniteSet(S), NEW side, NEW D \in SUBSET S
    PROVE  Lot(side, S \ D) = Lot(side, S) - Lot(side, D)
<1> DEFINE T == {A \in SUBSET D : Lot(side, S \ A) = Lot(side, S) - Lot(side, A)}
<1>0. IsFiniteSet(D) /\ \A A \in SUBSET D : /\ IsFiniteSet(A) /\ IsFiniteSet(S \ A)
                                            /\ Lot(side, A) \in Nat /\ Lot(side, S \ A) \in Nat
  BY FS_Subset, LotTyped
<1>1. {} \in T
  <2>1. OnSide(side, {}) = {} /\ S \ {} = S
    BY DEF OnSide
  <2>2. Lot(side, {}) = 0
    BY <2>1, SumEmpty DEF Lot
  <2>. QED
    BY <2>1, <2>2, LotTyped
<1>2. ASSUME NEW A \in SUBSET D, NEW x \in D \ A, A \in T PROVE A \cup {x} \in T
  <2>1. S \ (A \cup {x}) = (S \ A) \ {x} /\ x \in S \ A
    OBVIOUS
  <2>2. Lot(side, S \ (A \cup {x})) = Lot(side, S \ A) - IF x.side = side THEN x.amount ELSE 0
    BY <1>0, <2>1, LotTake
  <2>3. Lot(side, A \cup {x}) = Lot(side, A) + IF x.side = side THEN x.amount ELSE 0
    BY <1>0, LotPut
  <2>4. x.amount \in Nat /\ Lot(side, S) \in Nat
    BY LotTyped
  <2>5. Lot(side, A) \in Nat /\ Lot(side, S \ A) = Lot(side, S) - Lot(side, A)
    BY <1>0, <1>2
  <2>6. CASE x.side = side
    BY <2>2, <2>3, <2>4, <2>5, <2>6
  <2>7. CASE x.side # side
    BY <2>2, <2>3, <2>4, <2>5, <2>7
  <2>. QED
    BY <2>6, <2>7
<1>3. D \in T
  <2> HIDE DEF T
  <2>. QED
    BY <1>0, <1>1, <1>2, SetOfSubsets
<1>. QED
  BY <1>3

(* What the properties say of money and goods, in these terms.             *)
MoneyBalance == (Money + Lot("buy", offers) * Price) + spent
GoodsBalance == (Goods + Lot("sell", offers)) + lost

LEMMA SumOfAmounts ==
    ASSUME NEW S \in SUBSET Offer
    PROVE  MapThenSumSet(LAMBDA o : o.amount, S) = SumFunctionOnSet(AmountOf, S)
BY DEF AmountOf, MapThenSumSet, SumFunctionOnSet, FoldFunctionOnSet, MapThenFoldSet

LEMMA BalancesMeant ==
    ASSUME TypeOK
    PROVE  /\ SumFunction([c \in Chars |-> Worth(Current(c))]) = Money
           /\ SumFunction([c \in Chars |-> Current(c).goods]) = Goods
           /\ Held("buy") = Lot("buy", offers) /\ Held("sell") = Lot("sell", offers)
<1>1. \A side : Held(side) = Lot(side, offers)
  <2>1. \A side : OnSide(side, offers) \in SUBSET Offer
    BY DEF TypeOK, OnSide
  <2>. QED
    BY <2>1, SumOfAmounts DEF Held, Lot, OnSide
<1>2. /\ SumFunction([c \in Chars |-> Worth(Current(c))]) = Money
      /\ SumFunction([c \in Chars |-> Current(c).goods]) = Goods
  BY DEF SumFunction, Money, Goods, MoneyOf, GoodsOf
<1>. QED
  BY <1>1, <1>2

---------------------------------------------------------------------------
(* Steps.                                                                  *)

Typed == TypeOK /\ OffersOK
Balanced == MoneyBalance' = MoneyBalance /\ GoodsBalance' = GoodsBalance

(* Payments in which both parts are used: coins first, or the bank first.  *)
LEMMA CoinsFirstPays ==
    ASSUME NEW a \in Account, NEW n \in Nat, Worth(a) >= n
    PROVE  /\ CoinsFirst(a, n) \in Delta /\ Plus(a, CoinsFirst(a, n)) \in Account
           /\ CoinsFirst(a, n).cash + CoinsFirst(a, n).bank = -n /\ CoinsFirst(a, n).goods = 0
<1> DEFINE k == Min({n, a.cash})
<1>1. /\ a.cash \in Nat /\ a.bank \in Nat /\ a.goods \in Nat /\ a.cash + a.bank >= n
  BY DEF Account, Worth
<1>2. k \in Nat /\ k <= n /\ k <= a.cash /\ n - k <= a.bank
  BY <1>1, MinIs
<1>3. CoinsFirst(a, n) = [cash |-> -k, bank |-> k - n, goods |-> 0]
  BY DEF CoinsFirst
<1> HIDE DEF k
<1>4. CoinsFirst(a, n) \in Delta
  BY <1>2, <1>3 DEF Delta
<1>5. Plus(a, CoinsFirst(a, n)) = [cash |-> a.cash + (-k), bank |-> a.bank + (k - n), goods |-> a.goods + 0]
  BY <1>3, <1>4, PlusIs
<1>6. a.cash + (-k) \in Nat /\ a.bank + (k - n) \in Nat /\ a.goods + 0 \in Nat
  BY <1>1, <1>2
<1>7. Plus(a, CoinsFirst(a, n)) \in Account
  BY <1>5, <1>6 DEF Account
<1>. QED
  BY <1>2, <1>3, <1>4, <1>7

LEMMA BankFirstPays ==
    ASSUME NEW a \in Account, NEW n \in Nat, Worth(a) >= n
    PROVE  /\ BankFirst(a, n) \in Delta /\ Plus(a, BankFirst(a, n)) \in Account
           /\ BankFirst(a, n).cash + BankFirst(a, n).bank = -n /\ BankFirst(a, n).goods = 0
<1> DEFINE k == Min({n, a.bank})
<1>1. /\ a.cash \in Nat /\ a.bank \in Nat /\ a.goods \in Nat /\ a.cash + a.bank >= n
  BY DEF Account, Worth
<1>2. k \in Nat /\ k <= n /\ k <= a.bank /\ n - k <= a.cash
  BY <1>1, MinIs
<1>3. BankFirst(a, n) = [cash |-> k - n, bank |-> -k, goods |-> 0]
  BY DEF BankFirst
<1> HIDE DEF k
<1>4. BankFirst(a, n) \in Delta
  BY <1>2, <1>3 DEF Delta
<1>5. Plus(a, BankFirst(a, n)) = [cash |-> a.cash + (k - n), bank |-> a.bank + (-k), goods |-> a.goods + 0]
  BY <1>3, <1>4, PlusIs
<1>6. a.cash + (k - n) \in Nat /\ a.bank + (-k) \in Nat /\ a.goods + 0 \in Nat
  BY <1>1, <1>2
<1>7. Plus(a, BankFirst(a, n)) \in Account
  BY <1>5, <1>6 DEF Account
<1>. QED
  BY <1>2, <1>3, <1>4, <1>7

(* A payment for which goods change hands, too.                            *)
LEMMA WithGoods ==
    ASSUME NEW a \in Account, NEW d \in Delta, NEW n \in Int,
           Plus(a, d) \in Account, a.goods + n >= 0
    PROVE  LET e == [d EXCEPT !.goods = n] IN
           /\ e \in Delta /\ Plus(a, e) \in Account
           /\ e.cash = d.cash /\ e.bank = d.bank /\ e.goods = n
<1> DEFINE e == [d EXCEPT !.goods = n]
<1>1. e \in Delta /\ e.cash = d.cash /\ e.bank = d.bank /\ e.goods = n
  BY DEF Delta
<1> HIDE DEF e
<1>2. /\ Plus(a, d) = [cash |-> a.cash + d.cash, bank |-> a.bank + d.bank, goods |-> a.goods + d.goods]
      /\ Plus(a, e) = [cash |-> a.cash + d.cash, bank |-> a.bank + d.bank, goods |-> a.goods + n]
  BY <1>1, PlusIs
<1>3. a.cash + d.cash \in Nat /\ a.bank + d.bank \in Nat
  BY <1>2 DEF Account
<1>4. a.goods + n \in Nat
  BY DEF Account
<1>5. Plus(a, e) \in Account
  BY <1>2, <1>3, <1>4 DEF Account
<1>. QED
  BY <1>1, <1>5 DEF e

(* Multiplication by the price.                                            *)
LEMMA Priced ==
    /\ Price \in Nat
    /\ \A n \in Nat : n * Price \in Nat
    /\ \A m \in Int, n \in Int : /\ (m + n) * Price = m * Price + n * Price
                                 /\ (m - n) * Price = m * Price - n * Price
                                 /\ m * Price \in Int
<1>1. Price \in Nat
  BY MarketAssumption
<1>. QED
  BY <1>1

(* The accounts and the offers change by amounts that cancel.              *)
LEMMA Balances ==
    ASSUME Money \in Int, Goods \in Int, Money' \in Int, Goods' \in Int,
           spent \in Int, lost \in Int, spent' \in Int, lost' \in Int,
           Lot("buy", offers) \in Int, Lot("buy", offers)' \in Int,
           Lot("sell", offers) \in Int, Lot("sell", offers)' \in Int,
           Money' = (Money - (Lot("buy", offers)' - Lot("buy", offers)) * Price) - (spent' - spent),
           Goods' = (Goods - (Lot("sell", offers)' - Lot("sell", offers))) - (lost' - lost)
    PROVE  Balanced
<1>1. MoneyBalance' = MoneyBalance
  <2>1. (Money' + Lot("buy", offers)' * Price) + spent' = (Money + Lot("buy", offers) * Price) + spent
    BY Priced
  <2>. QED
    BY <2>1, Zenon DEF MoneyBalance
<1>2. GoodsBalance' = GoodsBalance
  <2>1. (Goods' + Lot("sell", offers)') + lost' = (Goods + Lot("sell", offers)) + lost
    OBVIOUS
  <2>. QED
    BY <2>1, Zenon DEF GoodsBalance
<1>. QED
  BY <1>1, <1>2 DEF Balanced

(* Deposit, withdrawal and transfer: the offers stay as they are.          *)
LEMMA LotsTyped ==
    ASSUME Typed
    PROVE  /\ offers \in SUBSET Offer /\ IsFiniteSet(offers)
           /\ spent \in Nat /\ lost \in Nat
           /\ Lot("buy", offers) \in Nat /\ Lot("sell", offers) \in Nat
BY LotTyped DEF Typed, TypeOK, OffersOK

LEMMA BankSteps ==
    ASSUME Typed, NEW p \in Chars, NEW n \in Lots,
           \/ Deposit(p, n) \/ Withdraw(p, n) \/ \E q \in Chars : TransferTo(p, q, n)
    PROVE  Typed' /\ Balanced
<1>0. n \in Nat /\ mem[p] \in Account
  BY MarketAssumption DEF Typed, TypeOK
<1>1. /\ mem' \in [Chars -> Account] /\ row' \in [Chars -> Account] /\ where' = where
      /\ Money \in Int /\ Goods \in Int /\ Money' = Money + 0 /\ Goods' = Goods + 0
  <2>1. CASE Deposit(p, n)
    <3> DEFINE d == [cash |-> -n, bank |-> n, goods |-> 0]
    <3>1. d \in Delta /\ d.cash + d.bank = 0 /\ d.goods = 0
      BY <1>0 DEF Delta
    <3>2. Change(For(p, d), {}) /\ where[p] = "world" /\ mem[p].cash >= n
      BY <2>1 DEF Deposit
    <3>3. Plus(mem[p], d) \in Account
      BY <1>0, <3>1, <3>2, PlusIs DEF Account
    <3> HIDE DEF d
    <3>. QED
      BY <3>1, <3>2, <3>3, ChangedOne DEF Typed
  <2>2. CASE Withdraw(p, n)
    <3> DEFINE d == [cash |-> n, bank |-> -n, goods |-> 0]
    <3>1. d \in Delta /\ d.cash + d.bank = 0 /\ d.goods = 0
      BY <1>0 DEF Delta
    <3>2. Change(For(p, d), {}) /\ where[p] = "world" /\ mem[p].bank >= n
      BY <2>2 DEF Withdraw
    <3>3. Plus(mem[p], d) \in Account
      BY <1>0, <3>1, <3>2, PlusIs DEF Account
    <3> HIDE DEF d
    <3>. QED
      BY <3>1, <3>2, <3>3, ChangedOne DEF Typed
  <2>3. ASSUME NEW q \in Chars, TransferTo(p, q, n)
        PROVE  /\ mem' \in [Chars -> Account] /\ row' \in [Chars -> Account] /\ where' = where
               /\ Money \in Int /\ Goods \in Int /\ Money' = Money + 0 /\ Goods' = Goods + 0
    <3> DEFINE d == Bank(-n)  e == Bank(n)
    <3>1. d \in Delta /\ e \in Account /\ (d.cash + d.bank) + (e.cash + e.bank) = 0
          /\ d.goods + e.goods = 0
      BY <1>0 DEF Delta, Account, Bank
    <3>2. Change(ForBoth(p, d, q, e), {}) /\ where[p] = "world" /\ mem[p].bank >= n /\ p # q
      BY <2>3 DEF TransferTo
    <3>3. Plus(mem[p], d) \in Account
      BY <1>0, <3>1, <3>2, PlusIs DEF Account, Bank
    <3> HIDE DEF d, e
    <3>. QED
      BY <3>1, <3>2, <3>3, ChangedTwo DEF Typed
  <2>. QED
    BY <2>1, <2>2, <2>3
<1>2. UNCHANGED <<offerVars, expiryVars, ghostVars>>
  BY DEF Deposit, Withdraw, TransferTo
<1>3. Typed'
  BY <1>1, <1>2 DEF Typed, TypeOK, OffersOK, offerVars, expiryVars, ghostVars
<1>4. UNCHANGED <<offers, spent, lost>>
  BY <1>2 DEF offerVars, ghostVars
<1>5. /\ Lot("buy", offers)' = Lot("buy", offers)
      /\ Lot("sell", offers)' = Lot("sell", offers)
  BY <1>4
<1>6. /\ Money' = (Money - (Lot("buy", offers)' - Lot("buy", offers)) * Price) - (spent' - spent)
      /\ Goods' = (Goods - (Lot("sell", offers)' - Lot("sell", offers))) - (lost' - lost)
  BY <1>1, <1>4, <1>5, LotsTyped, Priced
<1>7. Balanced
  BY <1>1, <1>4, <1>5, <1>6, LotsTyped, Balances
<1>. QED
  BY <1>3, <1>7

(* An offer is added, under an id no other one has...                      *)
LEMMA Inserted ==
    ASSUME Typed, NEW p \in Chars, NEW side \in {"buy", "sell"}, NEW n \in Nat,
           Insert(p, side, n), result' = result
    PROVE  /\ offers' \subseteq Offer /\ used' \subseteq Ids /\ OffersOK'
           /\ \A s : /\ Lot(s, offers)' = Lot(s, offers) + IF s = side THEN n ELSE 0
                     /\ Lot(s, offers)' \in Nat /\ Lot(s, offers) \in Nat
<1>1. PICK i \in Ids \ used :
          /\ used' = used \cup {i}
          /\ offers' = offers \cup {[id |-> i, owner |-> p, side |-> side, amount |-> n, old |-> FALSE]}
  BY DEF Insert
<1> DEFINE o == [id |-> i, owner |-> p, side |-> side, amount |-> n, old |-> FALSE]
<1>2. o \in Offer /\ o.id = i /\ o.side = side /\ o.amount = n
  BY DEF Offer
<1>3. offers' = offers \cup {o} /\ used' = used \cup {i}
  BY <1>1
<1> HIDE DEF o
<1>4. offers \subseteq Offer /\ used \subseteq Ids /\ OffersOK
  BY DEF Typed, TypeOK
<1>5. o \notin offers /\ \A u \in offers : u.id # o.id
  BY <1>2, <1>4 DEF OffersOK
<1>6. IsFiniteSet(offers') /\ offers' \subseteq Offer /\ used' \subseteq Ids
  BY <1>2, <1>3, <1>4, FS_AddElement DEF OffersOK
<1>7. OffersOK'
  BY <1>2, <1>3, <1>4, <1>5, <1>6 DEF OffersOK
<1>8. ASSUME NEW s PROVE Lot(s, offers)' = Lot(s, offers) + IF s = side THEN n ELSE 0
  <2>1. Lot(s, offers \cup {o}) = Lot(s, offers) + IF o.side = s THEN o.amount ELSE 0
    BY <1>2, <1>4, <1>5, LotPut DEF OffersOK
  <2>. QED
    BY <1>2, <1>3, <2>1
<1>9. \A s : Lot(s, offers') \in Nat /\ Lot(s, offers) \in Nat
  BY <1>4, <1>6, LotTyped DEF OffersOK
<1>. QED
  BY <1>6, <1>7, <1>8, <1>9

(* ... one is deleted...                                                   *)
LEMMA Deleted ==
    ASSUME Typed, NEW o \in offers, offers' = offers \ {o}, used' = used, result' = result
    PROVE  /\ offers' \subseteq Offer /\ used' \subseteq Ids /\ OffersOK'
           /\ \A s : /\ Lot(s, offers)' = Lot(s, offers) - IF s = o.side THEN o.amount ELSE 0
                     /\ Lot(s, offers)' \in Nat /\ Lot(s, offers) \in Nat
<1>1. offers \subseteq Offer /\ used \subseteq Ids /\ OffersOK
  BY DEF Typed, TypeOK
<1>2. IsFiniteSet(offers') /\ offers' \subseteq Offer
  BY <1>1, FS_Subset DEF OffersOK
<1>3. OffersOK'
  BY <1>1, <1>2 DEF OffersOK
<1>4. ASSUME NEW s PROVE Lot(s, offers)' = Lot(s, offers) - IF s = o.side THEN o.amount ELSE 0
  <2>1. Lot(s, offers \ {o}) = Lot(s, offers) - IF o.side = s THEN o.amount ELSE 0
    BY <1>1, LotTake DEF OffersOK
  <2>. QED
    BY <2>1
<1>5. \A s : Lot(s, offers') \in Nat /\ Lot(s, offers) \in Nat
  BY <1>1, <1>2, LotTyped DEF OffersOK
<1>. QED
  BY <1>1, <1>2, <1>3, <1>4, <1>5

(* ... or replaced by another version of itself.                           *)
LEMMA Replaced ==
    ASSUME Typed, NEW o \in offers, NEW u \in Offer, u.id = o.id, u.side = o.side,
           offers' = (offers \ {o}) \cup {u}, used' = used, result' = result
    PROVE  /\ offers' \subseteq Offer /\ used' \subseteq Ids /\ OffersOK'
           /\ \A s : /\ Lot(s, offers)' = Lot(s, offers) + IF s = o.side THEN u.amount - o.amount ELSE 0
                     /\ Lot(s, offers)' \in Nat /\ Lot(s, offers) \in Nat
<1>1. offers \subseteq Offer /\ used \subseteq Ids /\ OffersOK
  BY DEF Typed, TypeOK
<1> DEFINE rest == offers \ {o}
<1>2. IsFiniteSet(rest) /\ rest \subseteq Offer /\ u \notin rest /\ \A v \in rest : v.id # u.id
  BY <1>1, FS_Subset DEF OffersOK
<1>3. IsFiniteSet(offers') /\ offers' \subseteq Offer
  BY <1>2, FS_AddElement
<1>4. OffersOK'
  <2>1. \A v \in offers' : v.id \in used'
    BY <1>1 DEF OffersOK
  <2>2. \A v, w \in offers' : v.id = w.id => v = w
    BY <1>1, <1>2 DEF OffersOK
  <2>. QED
    BY <1>1, <1>3, <2>1, <2>2 DEF OffersOK
<1>5. ASSUME NEW s
      PROVE  Lot(s, offers)' = Lot(s, offers) + IF s = o.side THEN u.amount - o.amount ELSE 0
  <2>1. Lot(s, rest) = Lot(s, offers) - IF o.side = s THEN o.amount ELSE 0
    BY <1>1, LotTake DEF OffersOK
  <2>2. Lot(s, rest \cup {u}) = Lot(s, rest) + IF u.side = s THEN u.amount ELSE 0
    BY <1>2, LotPut
  <2>3. Lot(s, offers) \in Nat /\ o.amount \in Nat /\ u.amount \in Nat
    BY <1>1, LotTyped DEF OffersOK, Offer
  <2>4. CASE s = o.side
    BY <2>1, <2>2, <2>3, <2>4
  <2>5. CASE s # o.side
    BY <2>1, <2>2, <2>3, <2>5
  <2>. QED
    BY <2>4, <2>5
<1>6. \A s : Lot(s, offers') \in Nat /\ Lot(s, offers) \in Nat
  BY <1>1, <1>3, LotTyped DEF OffersOK
<1>. QED
  BY <1>1, <1>3, <1>4, <1>5, <1>6

(* A part, or all, of an offer is accepted.                                *)
LEMMA Taken ==
    ASSUME Typed, NEW o \in offers, NEW n \in Nat, n <= o.amount, Take(o, n),
           used' = used, result' = result
    PROVE  /\ offers' \subseteq Offer /\ used' \subseteq Ids /\ OffersOK'
           /\ \A s : /\ Lot(s, offers)' = Lot(s, offers) - IF s = o.side THEN n ELSE 0
                     /\ Lot(s, offers)' \in Nat /\ Lot(s, offers) \in Nat
<1>1. o \in Offer /\ o.amount \in Nat
  BY DEF Typed, TypeOK, Offer
<1>2. CASE o.amount = n
  <2>1. offers' = offers \ {o}
    BY <1>2 DEF Take
  <2>. QED
    BY <1>2, <2>1, Deleted
<1>3. CASE o.amount # n
  <2> DEFINE u == [o EXCEPT !.amount = @ - n]
  <2>1. offers' = (offers \ {o}) \cup {u}
    BY <1>3 DEF Take
  <2>2. /\ u \in Offer /\ u.id = o.id /\ u.side = o.side /\ u.amount = o.amount - n
    BY <1>1 DEF Offer
  <2> HIDE DEF u
  <2>3. /\ offers' \subseteq Offer /\ used' \subseteq Ids /\ OffersOK'
        /\ \A s : /\ Lot(s, offers)' = Lot(s, offers) + IF s = o.side THEN u.amount - o.amount ELSE 0
                  /\ Lot(s, offers)' \in Nat /\ Lot(s, offers) \in Nat
    BY <2>1, <2>2, Replaced
  <2>4. ASSUME NEW s PROVE Lot(s, offers)' = Lot(s, offers) - IF s = o.side THEN n ELSE 0
    <3>1. CASE s = o.side
      BY <1>1, <2>2, <2>3, <3>1
    <3>2. CASE s # o.side
      BY <2>3, <3>2
    <3>. QED
      BY <3>1, <3>2
  <2>. QED
    BY <2>3, <2>4
<1>. QED
  BY <1>2, <1>3

---------------------------------------------------------------------------
(* The market.                                                             *)

(* What is left of the types, once accounts and offers are dealt with.     *)
LEMMA RestTyped ==
    ASSUME Typed, mem' \in [Chars -> Account], row' \in [Chars -> Account], where' = where,
           offers' \subseteq Offer, used' \subseteq Ids, OffersOK',
           spent' \in Nat, lost' \in Nat, UNCHANGED <<query, result, disturbed>>
    PROVE  Typed'
BY DEF Typed, TypeOK

LEMMA CreateBuyOfferSteps ==
    ASSUME Typed, NEW p \in Chars, NEW n \in Lots, CreateBuyOffer(p, n)
    PROVE  Typed' /\ Balanced
<1> DEFINE cost == n * Price + Fee  d == CoinsFirst(mem[p], cost)
<1>1. n \in Nat /\ cost \in Nat /\ mem[p] \in Account /\ Fee \in Nat
  <2>1. n \in Nat /\ mem[p] \in Account /\ Fee \in Nat
    BY MarketAssumption DEF Typed, TypeOK
  <2>2. n * Price \in Nat
    BY <2>1, Priced
  <2>. QED
    BY <2>1, <2>2
<1>2. /\ where[p] = "world" /\ Worth(mem[p]) >= cost /\ Change(For(p, d), {p})
      /\ Insert(p, "buy", n) /\ spent' = spent + Fee
      /\ UNCHANGED <<expiryVars, lost, disturbed>>
  BY DEF CreateBuyOffer
<1>3. d \in Delta /\ Plus(mem[p], d) \in Account /\ d.cash + d.bank = -cost /\ d.goods = 0
  <2> HIDE DEF cost
  <2>. QED
    BY <1>1, <1>2, CoinsFirstPays
<1> HIDE DEF d
<1>4. /\ mem' \in [Chars -> Account] /\ row' \in [Chars -> Account] /\ where' = where
      /\ Money' \in Int /\ Money' = Money + (-cost)
      /\ Goods' \in Int /\ Goods' = Goods + 0
      /\ Money \in Int /\ Goods \in Int
  BY <1>2, <1>3, ChangedOne DEF Typed
<1>5. /\ offers' \subseteq Offer /\ used' \subseteq Ids /\ OffersOK'
      /\ \A s : /\ Lot(s, offers)' = Lot(s, offers) + IF s = "buy" THEN n ELSE 0
                /\ Lot(s, offers)' \in Nat /\ Lot(s, offers) \in Nat
  BY <1>1, <1>2, Inserted DEF expiryVars
<1>6. spent \in Nat /\ lost \in Nat /\ spent' \in Nat /\ lost' = lost
  BY <1>1, <1>2 DEF Typed, TypeOK
<1>7. Typed'
  BY <1>2, <1>4, <1>5, <1>6, RestTyped DEF expiryVars
<1>8. /\ Lot("buy", offers)' = Lot("buy", offers) + n
      /\ Lot("sell", offers)' = Lot("sell", offers)
      /\ Lot("buy", offers) \in Nat /\ Lot("sell", offers) \in Nat
  BY <1>5
<1>9. /\ Money' = (Money - (Lot("buy", offers)' - Lot("buy", offers)) * Price) - (spent' - spent)
      /\ Goods' = (Goods - (Lot("sell", offers)' - Lot("sell", offers))) - (lost' - lost)
  <2>1. (Lot("buy", offers)' - Lot("buy", offers)) * Price = n * Price /\ n * Price \in Nat
    BY <1>1, <1>8, Priced
  <2>2. spent' - spent = Fee
    BY <1>1, <1>2, <1>6
  <2>3. Money' = (Money - n * Price) - Fee
    BY <1>1, <1>4, <2>1
  <2>4. Goods' = (Goods - (Lot("sell", offers)' - Lot("sell", offers))) - (lost' - lost)
    BY <1>4, <1>6, <1>8
  <2>. QED
    BY <2>1, <2>2, <2>3, <2>4, Zenon
<1>10. Balanced
  BY <1>4, <1>5, <1>6, <1>8, <1>9, Balances
<1>. QED
  BY <1>7, <1>10

LEMMA CreateSellOfferSteps ==
    ASSUME Typed, NEW p \in Chars, NEW n \in Lots, CreateSellOffer(p, n)
    PROVE  Typed' /\ Balanced
<1> DEFINE d == [CoinsFirst(mem[p], Fee) EXCEPT !.goods = -n]
<1>1. n \in Nat /\ mem[p] \in Account /\ Fee \in Nat
  BY MarketAssumption DEF Typed, TypeOK
<1>2. /\ where[p] = "world" /\ Worth(mem[p]) >= Fee /\ mem[p].goods >= n
      /\ Change(For(p, d), {p})
      /\ Insert(p, "sell", n) /\ spent' = spent + Fee
      /\ UNCHANGED <<expiryVars, lost, disturbed>>
  BY DEF CreateSellOffer
<1>3. d \in Delta /\ Plus(mem[p], d) \in Account /\ d.cash + d.bank = -Fee /\ d.goods = -n
  <2> DEFINE c == CoinsFirst(mem[p], Fee)
  <2>1. c \in Delta /\ Plus(mem[p], c) \in Account /\ c.cash + c.bank = -Fee
    BY <1>1, <1>2, CoinsFirstPays
  <2>2. -n \in Int /\ mem[p].goods + (-n) >= 0
    BY <1>1, <1>2 DEF Account
  <2> HIDE DEF c
  <2>3. LET e == [c EXCEPT !.goods = -n] IN
        /\ e \in Delta /\ Plus(mem[p], e) \in Account
        /\ e.cash = c.cash /\ e.bank = c.bank /\ e.goods = -n
    BY <1>1, <2>1, <2>2, WithGoods
  <2>. QED
    BY <2>1, <2>3 DEF c
<1> HIDE DEF d
<1>4. /\ mem' \in [Chars -> Account] /\ row' \in [Chars -> Account] /\ where' = where
      /\ Money' \in Int /\ Money' = Money + (-Fee)
      /\ Goods' \in Int /\ Goods' = Goods + (-n)
      /\ Money \in Int /\ Goods \in Int
  BY <1>2, <1>3, ChangedOne DEF Typed
<1>5. /\ offers' \subseteq Offer /\ used' \subseteq Ids /\ OffersOK'
      /\ \A s : /\ Lot(s, offers)' = Lot(s, offers) + IF s = "sell" THEN n ELSE 0
                /\ Lot(s, offers)' \in Nat /\ Lot(s, offers) \in Nat
  BY <1>1, <1>2, Inserted DEF expiryVars
<1>6. spent \in Nat /\ lost \in Nat /\ spent' \in Nat /\ lost' = lost
  BY <1>1, <1>2 DEF Typed, TypeOK
<1>7. Typed'
  BY <1>2, <1>4, <1>5, <1>6, RestTyped DEF expiryVars
<1>8. /\ Lot("buy", offers)' = Lot("buy", offers)
      /\ Lot("sell", offers)' = Lot("sell", offers) + n
      /\ Lot("buy", offers) \in Nat /\ Lot("sell", offers) \in Nat
  BY <1>5
<1>9. /\ Money' = (Money - (Lot("buy", offers)' - Lot("buy", offers)) * Price) - (spent' - spent)
      /\ Goods' = (Goods - (Lot("sell", offers)' - Lot("sell", offers))) - (lost' - lost)
  <2>1. (Lot("buy", offers)' - Lot("buy", offers)) * Price = 0
    BY <1>8, Priced
  <2>2. spent' - spent = Fee
    BY <1>1, <1>2, <1>6
  <2>3. Money' = (Money - 0) - Fee
    BY <1>1, <1>4
  <2>4. Goods' = (Goods - (Lot("sell", offers)' - Lot("sell", offers))) - (lost' - lost)
    BY <1>1, <1>4, <1>6, <1>8
  <2>. QED
    BY <2>1, <2>2, <2>3, <2>4, Zenon
<1>10. Balanced
  BY <1>4, <1>5, <1>6, <1>8, <1>9, Balances
<1>. QED
  BY <1>7, <1>10

LEMMA RemoveOfferItemsFailsSteps ==
    ASSUME Typed, NEW p \in Chars, NEW n \in Lots, RemoveOfferItemsFails(p, n)
    PROVE  Typed' /\ Balanced
<1> DEFINE k == mem[p].goods  d == Items(-k)
<1>1. k \in Nat /\ mem[p] \in Account
  BY DEF Typed, TypeOK, Account
<1>2. /\ where[p] = "world" /\ Change(For(p, d), {}) /\ lost' = lost + k
      /\ UNCHANGED <<offerVars, expiryVars, spent, disturbed>>
  BY DEF RemoveOfferItemsFails
<1>3. d \in Delta /\ Plus(mem[p], d) \in Account /\ d.cash + d.bank = 0 /\ d.goods = -k
  <2>1. d \in Delta /\ d.cash = 0 /\ d.bank = 0 /\ d.goods = -k
    BY <1>1 DEF Items, Delta
  <2>. QED
    BY <1>1, <2>1, PlusIs DEF Account
<1> HIDE DEF d
<1>4. /\ mem' \in [Chars -> Account] /\ row' \in [Chars -> Account] /\ where' = where
      /\ Money' \in Int /\ Money' = Money + 0
      /\ Goods' \in Int /\ Goods' = Goods + (-k)
      /\ Money \in Int /\ Goods \in Int
  BY <1>2, <1>3, ChangedOne DEF Typed
<1>5. offers' = offers /\ used' = used /\ UNCHANGED <<query, result, disturbed, spent>>
  BY <1>2 DEF offerVars, expiryVars
<1>6. /\ spent \in Nat /\ lost \in Nat /\ spent' = spent /\ lost' \in Nat
      /\ Lot("buy", offers) \in Nat /\ Lot("sell", offers) \in Nat
      /\ Lot("buy", offers)' = Lot("buy", offers) /\ Lot("sell", offers)' = Lot("sell", offers)
  BY <1>1, <1>2, <1>5, LotsTyped
<1>7. Typed'
  BY <1>4, <1>5, <1>6, RestTyped DEF Typed, TypeOK, OffersOK
<1>9. /\ Money' = (Money - (Lot("buy", offers)' - Lot("buy", offers)) * Price) - (spent' - spent)
      /\ Goods' = (Goods - (Lot("sell", offers)' - Lot("sell", offers))) - (lost' - lost)
  <2>1. (Lot("buy", offers)' - Lot("buy", offers)) * Price = 0
    BY <1>6, Priced
  <2>2. lost' - lost = k
    BY <1>1, <1>2, <1>6
  <2> HIDE DEF k
  <2>3. Money' = (Money - 0) - (spent' - spent)
    BY <1>4, <1>6
  <2>4. Goods' = (Goods - (Lot("sell", offers)' - Lot("sell", offers))) - k
    BY <1>1, <1>4, <1>6
  <2>. QED
    BY <2>1, <2>2, <2>3, <2>4, Zenon
<1>10. Balanced
  BY <1>4, <1>6, <1>9, Balances
<1>. QED
  BY <1>7, <1>10

LEMMA CancelOfferSteps ==
    ASSUME Typed, NEW p \in Chars, NEW o \in offers, CancelOffer(p, o)
    PROVE  Typed' /\ Balanced
<1> DEFINE d == IF o.side = "buy" THEN Bank(o.amount * Price) ELSE Items(o.amount)
           a == IF o.side = "buy" THEN o.amount ELSE 0
           g == IF o.side = "sell" THEN o.amount ELSE 0
<1>1. o.amount \in Nat /\ o.side \in {"buy", "sell"} /\ mem[p] \in Account
  BY DEF Typed, TypeOK, Offer
<1>2. /\ where[p] = "world" /\ Change(For(p, d), {p}) /\ offers' = offers \ {o}
      /\ UNCHANGED <<used, expiryVars, ghostVars>>
  BY DEF CancelOffer
<1>3. a \in Nat /\ g \in Nat /\ a * Price \in Nat /\ 0 * Price = 0
  BY <1>1, Priced
<1>4. d \in Account /\ d \in Delta /\ d.cash + d.bank = a * Price /\ d.goods = g
  <2>1. CASE o.side = "buy"
    BY <1>1, <1>3, <2>1 DEF Bank, Account, Delta
  <2>2. CASE o.side = "sell"
    BY <1>1, <1>3, <2>2 DEF Items, Account, Delta
  <2>. QED
    BY <1>1, <2>1, <2>2
<1>5. Plus(mem[p], d) \in Account
  <2> HIDE DEF d
  <2>. QED
    BY <1>2, <1>4, CurrentKept DEF Typed, Current
<1>6. /\ Lot("buy", offers)' = Lot("buy", offers) - a
      /\ Lot("sell", offers)' = Lot("sell", offers) - g
      /\ offers' \subseteq Offer /\ used' \subseteq Ids /\ OffersOK'
      /\ Lot("buy", offers)' \in Nat /\ Lot("buy", offers) \in Nat
      /\ Lot("sell", offers)' \in Nat /\ Lot("sell", offers) \in Nat
  BY <1>1, <1>2, Deleted DEF expiryVars
<1> HIDE DEF d, a, g
<1>7. /\ mem' \in [Chars -> Account] /\ row' \in [Chars -> Account] /\ where' = where
      /\ Money' \in Int /\ Money' = Money + a * Price
      /\ Goods' \in Int /\ Goods' = Goods + g
      /\ Money \in Int /\ Goods \in Int
  BY <1>2, <1>4, <1>5, ChangedOne DEF Typed
<1>8. spent \in Nat /\ lost \in Nat /\ spent' = spent /\ lost' = lost
  BY <1>2 DEF Typed, TypeOK, ghostVars
<1>9. Typed'
  BY <1>2, <1>6, <1>7, <1>8, RestTyped DEF expiryVars, ghostVars
<1>10. /\ Money' = (Money - (Lot("buy", offers)' - Lot("buy", offers)) * Price) - (spent' - spent)
       /\ Goods' = (Goods - (Lot("sell", offers)' - Lot("sell", offers))) - (lost' - lost)
  <2>1. (Lot("buy", offers)' - Lot("buy", offers)) * Price = (0 - a) * Price
    BY <1>3, <1>6
  <2>2. (0 - a) * Price = 0 - a * Price
    BY <1>3, Priced
  <2>3. Money' = (Money - (0 - a * Price)) - (spent' - spent)
    BY <1>3, <1>7, <1>8
  <2>4. Goods' = (Goods - (Lot("sell", offers)' - Lot("sell", offers))) - (lost' - lost)
    BY <1>3, <1>6, <1>7, <1>8
  <2>. QED
    BY <2>1, <2>2, <2>3, <2>4, Zenon
<1>11. Balanced
  BY <1>6, <1>7, <1>8, <1>10, Balances
<1>. QED
  BY <1>9, <1>11

LEMMA AcceptBuyOfferSteps ==
    ASSUME Typed, NEW p \in Chars, NEW o \in offers, NEW n \in Lots, AcceptBuyOffer(p, o, n)
    PROVE  Typed' /\ Balanced
<1> DEFINE q == o.owner  d == [cash |-> 0, bank |-> n * Price, goods |-> -n]  e == Items(n)
<1>1. /\ o.amount \in Nat /\ q \in Chars /\ mem[p] \in Account
      /\ n \in Nat /\ n * Price \in Nat
  BY MarketAssumption, Priced DEF Typed, TypeOK, Offer
<1>2. /\ where[p] = "world" /\ o.side = "buy" /\ q # p /\ n <= o.amount /\ n <= mem[p].goods
      /\ Change(ForBoth(p, d, q, e), {p}) /\ Take(o, n)
      /\ UNCHANGED <<used, expiryVars, ghostVars>>
  BY DEF AcceptBuyOffer
<1>3. /\ d \in Delta /\ e \in Account
      /\ (d.cash + d.bank) + (e.cash + e.bank) = n * Price /\ d.goods + e.goods = 0
  BY <1>1 DEF Items, Account, Delta
<1>4. Plus(mem[p], d) \in Account
  <2>1. Plus(mem[p], d) = [cash |-> mem[p].cash + 0, bank |-> mem[p].bank + n * Price,
                           goods |-> mem[p].goods + (-n)]
    BY <1>1, <1>3, PlusIs
  <2>2. mem[p].cash \in Nat /\ mem[p].bank \in Nat /\ mem[p].goods \in Nat
    BY <1>1 DEF Account
  <2>3. mem[p].cash + 0 \in Nat /\ mem[p].bank + n * Price \in Nat /\ mem[p].goods + (-n) \in Nat
    BY <1>1, <1>2, <2>2
  <2>. QED
    BY <2>1, <2>3 DEF Account
<1>5. /\ Lot("buy", offers)' = Lot("buy", offers) - n
      /\ Lot("sell", offers)' = Lot("sell", offers)
      /\ offers' \subseteq Offer /\ used' \subseteq Ids /\ OffersOK'
      /\ Lot("buy", offers)' \in Nat /\ Lot("buy", offers) \in Nat
      /\ Lot("sell", offers)' \in Nat /\ Lot("sell", offers) \in Nat
  BY <1>1, <1>2, Taken DEF expiryVars
<1> HIDE DEF d, e
<1>6. /\ mem' \in [Chars -> Account] /\ row' \in [Chars -> Account] /\ where' = where
      /\ Money' \in Int /\ Money' = Money + n * Price
      /\ Goods' \in Int /\ Goods' = Goods + 0
      /\ Money \in Int /\ Goods \in Int
  BY <1>1, <1>2, <1>3, <1>4, ChangedTwo DEF Typed
<1>7. spent \in Nat /\ lost \in Nat /\ spent' = spent /\ lost' = lost
  BY <1>2 DEF Typed, TypeOK, ghostVars
<1>8. Typed'
  BY <1>2, <1>5, <1>6, <1>7, RestTyped DEF expiryVars, ghostVars
<1>9. /\ Money' = (Money - (Lot("buy", offers)' - Lot("buy", offers)) * Price) - (spent' - spent)
      /\ Goods' = (Goods - (Lot("sell", offers)' - Lot("sell", offers))) - (lost' - lost)
  <2>1. (Lot("buy", offers)' - Lot("buy", offers)) * Price = (0 - n) * Price
    BY <1>1, <1>5
  <2>2. (0 - n) * Price = 0 - n * Price
    BY <1>1, Priced
  <2>3. Money' = (Money - (0 - n * Price)) - (spent' - spent)
    BY <1>1, <1>6, <1>7
  <2>4. Goods' = (Goods - (Lot("sell", offers)' - Lot("sell", offers))) - (lost' - lost)
    BY <1>5, <1>6, <1>7
  <2>. QED
    BY <2>1, <2>2, <2>3, <2>4, Zenon
<1>10. Balanced
  BY <1>5, <1>6, <1>7, <1>9, Balances
<1>. QED
  BY <1>8, <1>10

LEMMA AcceptSellOfferSteps ==
    ASSUME Typed, NEW p \in Chars, NEW o \in offers, NEW n \in Lots, AcceptSellOffer(p, o, n)
    PROVE  Typed' /\ Balanced
<1> DEFINE q == o.owner  c == BankFirst(mem[p], n * Price)
           d == [c EXCEPT !.goods = n]  e == Bank(n * Price)
<1>1. /\ o.amount \in Nat /\ q \in Chars /\ mem[p] \in Account
      /\ n \in Nat /\ n * Price \in Nat
  BY MarketAssumption, Priced DEF Typed, TypeOK, Offer
<1>2. /\ where[p] = "world" /\ o.side = "sell" /\ q # p /\ n <= o.amount
      /\ n * Price <= Worth(mem[p])
      /\ Change(ForBoth(p, d, q, e), {p}) /\ Take(o, n)
      /\ UNCHANGED <<used, expiryVars, ghostVars>>
  BY DEF AcceptSellOffer
<1>3. c \in Delta /\ Plus(mem[p], c) \in Account /\ c.cash + c.bank = -(n * Price)
  <2>1. Worth(mem[p]) >= n * Price
    BY <1>1, <1>2 DEF Worth, Account
  <2>. QED
    BY <1>1, <2>1, BankFirstPays
<1>4. d \in Delta /\ Plus(mem[p], d) \in Account /\ d.cash + d.bank = -(n * Price) /\ d.goods = n
  <2>1. n \in Int /\ mem[p].goods + n >= 0
    BY <1>1 DEF Account
  <2> HIDE DEF c
  <2>2. LET f == [c EXCEPT !.goods = n] IN
        /\ f \in Delta /\ Plus(mem[p], f) \in Account
        /\ f.cash = c.cash /\ f.bank = c.bank /\ f.goods = n
    BY <1>1, <1>3, <2>1, WithGoods
  <2>. QED
    BY <1>3, <2>2
<1>5. e \in Account /\ e.cash + e.bank = n * Price /\ e.goods = 0
  BY <1>1 DEF Bank, Account
<1>6. /\ Lot("buy", offers)' = Lot("buy", offers)
      /\ Lot("sell", offers)' = Lot("sell", offers) - n
      /\ offers' \subseteq Offer /\ used' \subseteq Ids /\ OffersOK'
      /\ Lot("buy", offers)' \in Nat /\ Lot("buy", offers) \in Nat
      /\ Lot("sell", offers)' \in Nat /\ Lot("sell", offers) \in Nat
  BY <1>1, <1>2, Taken DEF expiryVars
<1> HIDE DEF c, d, e
<1>7. /\ mem' \in [Chars -> Account] /\ row' \in [Chars -> Account] /\ where' = where
      /\ Money' \in Int /\ Money' = Money + ((d.cash + d.bank) + (e.cash + e.bank))
      /\ Goods' \in Int /\ Goods' = Goods + (d.goods + e.goods)
      /\ Money \in Int /\ Goods \in Int
  BY <1>1, <1>2, <1>4, <1>5, ChangedTwo DEF Typed
<1>8. spent \in Nat /\ lost \in Nat /\ spent' = spent /\ lost' = lost
  BY <1>2 DEF Typed, TypeOK, ghostVars
<1>9. Typed'
  BY <1>2, <1>6, <1>7, <1>8, RestTyped DEF expiryVars, ghostVars
<1>10. /\ Money' = (Money - (Lot("buy", offers)' - Lot("buy", offers)) * Price) - (spent' - spent)
       /\ Goods' = (Goods - (Lot("sell", offers)' - Lot("sell", offers))) - (lost' - lost)
  <2>1. (Lot("buy", offers)' - Lot("buy", offers)) * Price = 0
    BY <1>6, Priced
  <2>2. (d.cash + d.bank) + (e.cash + e.bank) = 0 /\ d.goods + e.goods = n
    BY <1>1, <1>4, <1>5
  <2>3. Money' = (Money - 0) - (spent' - spent)
    BY <1>7, <1>8, <2>2
  <2>4. Goods' = (Goods - (Lot("sell", offers)' - Lot("sell", offers))) - (lost' - lost)
    BY <1>1, <1>6, <1>7, <1>8, <2>2
  <2>. QED
    BY <2>1, <2>3, <2>4, Zenon
<1>11. Balanced
  BY <1>6, <1>7, <1>8, <1>10, Balances
<1>. QED
  BY <1>9, <1>11

---------------------------------------------------------------------------
(* Offers past their time.                                                 *)

(* What is given back to all characters together is what the offers that   *)
(* are due held.                                                           *)
Refunds == [c \in Chars |-> Refund(c)]
OwnerOf == [o \in Offer |-> o.owner]
PartOf(c, side) == SumFunctionOnSet(AmountOf, {r \in OnSide(side, Due) : OwnerOf[r] = c})

LEMMA RefundIs ==
    ASSUME Typed, NEW c \in Chars
    PROVE  /\ PartOf(c, "buy") \in Nat /\ PartOf(c, "sell") \in Nat
           /\ Refund(c) = [cash |-> 0, bank |-> PartOf(c, "buy") * Price, goods |-> PartOf(c, "sell")]
           /\ Refund(c) \in Account
<1>1. Due \subseteq Offer /\ IsFiniteSet(Due)
  BY FS_Subset DEF Typed, TypeOK, OffersOK, Due
<1>2. ASSUME NEW side
      PROVE  /\ {r \in Due : r.owner = c /\ r.side = side} = {r \in OnSide(side, Due) : OwnerOf[r] = c}
             /\ {r \in Due : r.owner = c /\ r.side = side} \in SUBSET Offer
  BY <1>1 DEF OnSide, OwnerOf
<1>3. ASSUME NEW side PROVE PartOf(c, side) \in Nat
  <2> DEFINE S == {r \in OnSide(side, Due) : OwnerOf[r] = c}
  <2>1. IsFiniteSet(S) /\ \A r \in S : r \in Offer
    BY <1>1, FS_Subset DEF OnSide
  <2>2. \A r \in S : AmountOf[r] \in Nat
    BY <2>1 DEF AmountOf, Offer
  <2> HIDE DEF S
  <2>3. SumFunctionOnSet(AmountOf, S) \in Nat
    BY <2>1, <2>2, SumNat
  <2>. QED
    BY <2>3 DEF S, PartOf
<1>4. ASSUME NEW side
      PROVE  MapThenSumSet(LAMBDA r : r.amount, {r \in Due : r.owner = c /\ r.side = side}) = PartOf(c, side)
  BY <1>2, SumOfAmounts DEF PartOf
<1>5. Refund(c) = [cash |-> 0, bank |-> PartOf(c, "buy") * Price, goods |-> PartOf(c, "sell")]
  BY <1>4 DEF Refund
<1>6. PartOf(c, "buy") * Price \in Nat
  BY <1>3, Priced
<1>. QED
  BY <1>3, <1>5, <1>6 DEF Account

LEMMA RefundsAddUp ==
    ASSUME Typed
    PROVE  /\ Refunds \in [Chars -> Delta]
           /\ MoneyIn(Refunds) = Lot("buy", Due) * Price
           /\ GoodsIn(Refunds) = Lot("sell", Due)
<1>0. Due \subseteq Offer /\ IsFiniteSet(Due)
  BY FS_Subset DEF Typed, TypeOK, OffersOK, Due
<1>1. Refunds \in [Chars -> Delta]
  BY RefundIs DEF Refunds, Account, Delta
<1>2. ASSUME NEW side PROVE SumFunctionOnSet([c \in Chars |-> PartOf(c, side)], Chars) = Lot(side, Due)
  <2>1. IsFiniteSet(OnSide(side, Due))
    BY <1>0, LotTyped
  <2>2. \A r \in OnSide(side, Due) : AmountOf[r] \in Int /\ OwnerOf[r] \in Chars
    BY <1>0 DEF OnSide, AmountOf, OwnerOf, Offer
  <2>3. SumFunctionOnSet([c \in Chars |->
                SumFunctionOnSet(AmountOf, {r \in OnSide(side, Due) : OwnerOf[r] = c})], Chars)
            = SumFunctionOnSet(AmountOf, OnSide(side, Due))
    BY <2>1, <2>2, SumOfParts, MarketAssumption
  <2>. QED
    BY <2>3 DEF PartOf, Lot
<1>3. MoneyIn(Refunds) = Lot("buy", Due) * Price
  <2> DEFINE f == [c \in Chars |-> PartOf(c, "buy")]  h == [c \in Chars |-> Worth(Refunds[c])]
  <2>1. \A c \in Chars : f[c] \in Int /\ h[c] = f[c] * Price
    <3>1. ASSUME NEW c \in Chars PROVE PartOf(c, "buy") \in Int /\ Worth(Refunds[c]) = PartOf(c, "buy") * Price
      <4>1. PartOf(c, "buy") \in Nat /\ Worth(Refund(c)) = 0 + PartOf(c, "buy") * Price
        BY RefundIs DEF Worth
      <4>2. PartOf(c, "buy") * Price \in Nat
        BY <4>1, Priced
      <4>. QED
        BY <4>1, <4>2 DEF Refunds
    <3>. QED
      BY <3>1
  <2>2. SumFunctionOnSet(f, Chars) = Lot("buy", Due) /\ MoneyIn(Refunds) = SumFunctionOnSet(h, Chars)
    BY <1>2 DEF MoneyIn
  <2> HIDE DEF f, h
  <2>3. Price \in Int
    BY Priced
  <2>4. SumFunctionOnSet(h, Chars) = SumFunctionOnSet(f, Chars) * Price
    BY <2>1, <2>3, SumTimes, MarketAssumption
  <2>. QED
    BY <2>2, <2>4
<1>4. GoodsIn(Refunds) = Lot("sell", Due)
  <2>1. [c \in Chars |-> Refunds[c].goods] = [c \in Chars |-> PartOf(c, "sell")]
    BY RefundIs DEF Refunds
  <2>. QED
    BY <1>2, <2>1 DEF GoodsIn
<1>. QED
  BY <1>1, <1>3, <1>4

LEMMA ProcessExpiredOffersSteps ==
    ASSUME Typed, ProcessExpiredOffers
    PROVE  Typed' /\ (disturbed' \/ Balanced)
<1>1. /\ offers \subseteq Offer /\ used \subseteq Ids /\ OffersOK
      /\ spent \in Nat /\ lost \in Nat
      /\ Due \subseteq Offer /\ IsFiniteSet(Due)
  BY FS_Subset DEF Typed, TypeOK, OffersOK, Due
<1>2. /\ Change(Refunds, {}) /\ query' = "idle" /\ result' = {}
      /\ offers' = {o \in offers : \A r \in Due : r.id # o.id}
      /\ disturbed' = ~(Due \subseteq offers)
      /\ used' = used /\ spent' = spent /\ lost' = lost
  BY DEF ProcessExpiredOffers, Processed, Refunds
<1>3. ASSUME NEW c \in Chars PROVE Plus(Current(c), Refunds[c]) \in Account
  BY RefundIs, CurrentKept DEF Typed, Refunds
<1>4. /\ mem' \in [Chars -> Account] /\ row' \in [Chars -> Account] /\ where' = where
      /\ Money' \in Int /\ Money' = Money + Lot("buy", Due) * Price
      /\ Goods' \in Int /\ Goods' = Goods + Lot("sell", Due)
      /\ Money \in Int /\ Goods \in Int
  BY <1>2, <1>3, RefundsAddUp, Changed DEF Typed
<1>5. offers' \subseteq offers /\ IsFiniteSet(offers') /\ IsFiniteSet({})
  BY <1>1, <1>2, FS_Subset, FS_EmptySet DEF OffersOK
<1>6. Typed'
  <2>1. OffersOK'
    BY <1>1, <1>2, <1>5 DEF OffersOK
  <2>. QED
    BY <1>1, <1>2, <1>4, <1>5, <2>1 DEF Typed, TypeOK
<1>7. ASSUME Due \subseteq offers PROVE Balanced
  <2>1. offers' = offers \ Due
    BY <1>1, <1>2, <1>7 DEF OffersOK
  <2>2. ASSUME NEW s
        PROVE  /\ Lot(s, offers)' = Lot(s, offers) - Lot(s, Due)
               /\ Lot(s, offers)' \in Nat /\ Lot(s, offers) \in Nat /\ Lot(s, Due) \in Nat
    <3>1. Lot(s, offers \ Due) = Lot(s, offers) - Lot(s, Due)
      BY <1>1, <1>7, LotWithout DEF OffersOK
    <3>2. Lot(s, offers') \in Nat /\ Lot(s, offers) \in Nat /\ Lot(s, Due) \in Nat
      BY <1>1, <1>5, LotTyped DEF OffersOK
    <3>. QED
      BY <2>1, <3>1, <3>2
  <2> DEFINE a == Lot("buy", Due)
  <2>3. /\ Money' = (Money - (Lot("buy", offers)' - Lot("buy", offers)) * Price) - (spent' - spent)
        /\ Goods' = (Goods - (Lot("sell", offers)' - Lot("sell", offers))) - (lost' - lost)
    <3>1. (Lot("buy", offers)' - Lot("buy", offers)) * Price = (0 - a) * Price
      BY <2>2
    <3>2. (0 - a) * Price = 0 - a * Price /\ a * Price \in Nat
      BY <2>2, Priced
    <3> HIDE DEF a
    <3>3. Money' = (Money - (0 - a * Price)) - (spent' - spent)
      BY <1>1, <1>2, <1>4, <3>2 DEF a
    <3>4. Goods' = (Goods - (Lot("sell", offers)' - Lot("sell", offers))) - (lost' - lost)
      BY <1>1, <1>2, <1>4, <2>2
    <3>. QED
      BY <3>1, <3>2, <3>3, <3>4, Zenon
  <2>. QED
    BY <1>1, <1>2, <1>4, <2>2, <2>3, Balances
<1>. QED
  BY <1>2, <1>6, <1>7

(* An offer grows old: it holds what it held.                              *)
LEMMA GrowOldSteps == ASSUME Typed, GrowOld PROVE Typed' /\ Balanced
<1>1. PICK o \in offers : ~o.old /\ offers' = (offers \ {o}) \cup {[o EXCEPT !.old = TRUE]}
  BY DEF GrowOld
<1> DEFINE u == [o EXCEPT !.old = TRUE]
<1>2. u \in Offer /\ u.id = o.id /\ u.side = o.side /\ u.amount = o.amount /\ u.amount \in Nat
  BY DEF Typed, TypeOK, Offer
<1>3. offers' = (offers \ {o}) \cup {u}
  BY <1>1
<1> HIDE DEF u
<1>4. UNCHANGED <<where, mem, row, used, query, result, spent, lost, disturbed>>
  BY DEF GrowOld, accountVars, expiryVars, ghostVars
<1>5. /\ offers' \subseteq Offer /\ used' \subseteq Ids /\ OffersOK'
      /\ \A s : /\ Lot(s, offers)' = Lot(s, offers) + IF s = o.side THEN u.amount - o.amount ELSE 0
                /\ Lot(s, offers)' \in Nat /\ Lot(s, offers) \in Nat
  BY <1>2, <1>3, <1>4, Replaced
<1>6. Lot("buy", offers)' = Lot("buy", offers) /\ Lot("sell", offers)' = Lot("sell", offers)
  <2>1. u.amount - o.amount = 0
    BY <1>2
  <2>2. ASSUME NEW s PROVE Lot(s, offers)' = Lot(s, offers)
    <3>1. Lot(s, offers)' = Lot(s, offers) + 0 /\ Lot(s, offers) \in Nat
      BY <1>5, <2>1
    <3>. QED
      BY <3>1
  <2>. QED
    BY <2>2
<1>7. Typed'
  BY <1>4, <1>5 DEF Typed, TypeOK
<1>8. Money' = Money /\ Goods' = Goods
  BY <1>4 DEF Money, Goods, MoneyOf, GoodsOf, Current
<1>9. Balanced
  BY <1>4, <1>6, <1>8 DEF Balanced, MoneyBalance, GoodsBalance
<1>. QED
  BY <1>7, <1>9

---------------------------------------------------------------------------
(* The life of a character.                                                *)

(* While the account that counts stays, nothing is made or lost.           *)
LEMMA KeepsBalance ==
    ASSUME UNCHANGED <<offers, spent, lost>>, \A c \in Chars : Current(c)' = Current(c)
    PROVE  Balanced
<1>1. MoneyOf' = MoneyOf /\ GoodsOf' = GoodsOf
  BY DEF MoneyOf, GoodsOf, Worth
<1>2. Money' = Money /\ Goods' = Goods
  BY <1>1 DEF Money, Goods
<1>. QED
  BY <1>2 DEF Balanced, MoneyBalance, GoodsBalance

LEMMA LifeSteps ==
    ASSUME Typed, NEW p \in Chars,
           Login(p) \/ LeaveWorld(p) \/ LeaveDeathScreen(p) \/ Respawn(p)
    PROVE  Typed' /\ (disturbed' \/ Balanced)
<1>1. UNCHANGED <<offers, used, query, result, spent, lost>>
  BY DEF Login, LeaveWorld, LeaveDeathScreen, Respawn, offerVars, expiryVars, ghostVars
<1>2. Nothing \in Account
  BY DEF Nothing, Account
<1>3. /\ where' \in [Chars -> {"world", "dead", "away"}]
      /\ mem' \in [Chars -> Account] /\ row' \in [Chars -> Account]
      /\ disturbed' \in BOOLEAN
  <2>1. CASE Login(p)
    BY <2>1 DEF Login, Typed, TypeOK, ghostVars
  <2>2. CASE LeaveWorld(p)
    BY <1>2, <2>2 DEF LeaveWorld, Typed, TypeOK, ghostVars
  <2>3. CASE LeaveDeathScreen(p)
    BY <1>2, <2>3 DEF LeaveDeathScreen, Typed, TypeOK, ghostVars
  <2>4. CASE Respawn(p)
    BY <2>4 DEF Respawn, Typed, TypeOK
  <2>. QED
    BY <2>1, <2>2, <2>3, <2>4
<1>4. Typed'
  BY <1>1, <1>3 DEF Typed, TypeOK, OffersOK
<1>5. ASSUME NEW c \in Chars, ~disturbed' PROVE Current(c)' = Current(c)
  <2>1. CASE Login(p)
    BY <2>1 DEF Login, Typed, TypeOK, Current
  <2>2. CASE LeaveWorld(p)
    BY <2>2 DEF LeaveWorld, Typed, TypeOK, Current
  <2>3. CASE LeaveDeathScreen(p)
    BY <2>3 DEF LeaveDeathScreen, Typed, TypeOK, Current
  <2>4. CASE Respawn(p)
    BY <1>5, <2>4 DEF Respawn, Typed, TypeOK, Current
  <2>. QED
    BY <2>1, <2>2, <2>3, <2>4
<1>6. disturbed' \/ Balanced
  BY <1>1, <1>3, <1>5, KeepsBalance
<1>. QED
  BY <1>4, <1>6

---------------------------------------------------------------------------
(* The theorems.                                                           *)

MoneyStart == SumFunctionOnSet([c \in Chars |-> Worth(Start[c])], Chars)
GoodsStart == SumFunctionOnSet([c \in Chars |-> Start[c].goods], Chars)

(* The inductive invariant: besides the types, that ids are unique, and    *)
(* both balances at once.                                                  *)
IInv ==
    /\ Typed
    /\ disturbed \/ (MoneyBalance = MoneyStart /\ GoodsBalance = GoodsStart)

LEMMA InitInv == ASSUME Init PROVE IInv
<1>1. Nothing \in Account
  BY DEF Nothing, Account
<1>2. Typed
  <2>1. row \in [Chars -> Account] /\ mem \in [Chars -> Account]
    BY <1>1, MarketAssumption DEF Init, Account
  <2>2. OffersOK
    BY FS_EmptySet DEF Init, OffersOK
  <2>3. where \in [Chars -> {"world", "dead", "away"}]
    BY DEF Init
  <2>4. /\ offers \subseteq Offer /\ result \subseteq Offer /\ used \subseteq Ids
        /\ query \in {"idle", "posted", "ready"}
        /\ {spent, lost} \subseteq Nat
    BY DEF Init
  <2>5. disturbed \in BOOLEAN
    BY Zenon DEF Init
  <2>. QED
    BY <2>1, <2>2, <2>3, <2>4, <2>5 DEF Typed, TypeOK
<1>3. \A c \in Chars : Current(c) = Start[c]
  BY DEF Init, Current
<1>4. Money = MoneyStart /\ Goods = GoodsStart
  BY <1>3 DEF Money, Goods, MoneyOf, GoodsOf, MoneyStart, GoodsStart
<1>5. Lot("buy", offers) = 0 /\ Lot("sell", offers) = 0
  <2>1. OnSide("buy", {}) = {} /\ OnSide("sell", {}) = {}
    BY DEF OnSide
  <2>. QED
    BY <2>1, SumEmpty DEF Init, Lot
<1>6. Money \in Int /\ Goods \in Int
  <2>1. \A c \in Chars : MoneyOf[c] \in Int /\ GoodsOf[c] \in Int
    BY <1>2, CurrentKept DEF Typed, MoneyOf, GoodsOf, Account, Worth
  <2>. QED
    BY <2>1, SumTakes, MarketAssumption DEF Money, Goods
<1>7. MoneyBalance = MoneyStart /\ GoodsBalance = GoodsStart
  <2>1. 0 * Price = 0 /\ spent = 0 /\ lost = 0
    BY Priced DEF Init
  <2>. QED
    BY <1>4, <1>5, <1>6, <2>1 DEF MoneyBalance, GoodsBalance
<1>. QED
  BY <1>2, <1>7 DEF IInv

LEMMA ExpirySteps == ASSUME Typed, Expiry PROVE Typed' /\ (disturbed' \/ Balanced)
<1>1. CASE GrowOld
  BY <1>1, GrowOldSteps
<1>2. CASE CheckExpiredOffers
  <2>1. UNCHANGED <<where, mem, row, offers, used, result, spent, lost, disturbed>> /\ query' = "posted"
    BY <1>2 DEF CheckExpiredOffers, accountVars, offerVars, ghostVars
  <2>2. Typed'
    BY <2>1 DEF Typed, TypeOK, OffersOK
  <2>. QED
    BY <2>1, <2>2, KeepsBalance DEF Current
<1>3. CASE RunQuery
  <2>1. /\ UNCHANGED <<where, mem, row, offers, used, spent, lost, disturbed>> /\ query' = "ready"
        /\ result' = {o \in offers : o.old}
    BY <1>3 DEF RunQuery, Select, accountVars, offerVars, ghostVars
  <2>2. IsFiniteSet(result')
    BY <2>1, FS_Subset DEF Typed, OffersOK
  <2>3. Typed'
    BY <2>1, <2>2 DEF Typed, TypeOK, OffersOK
  <2>. QED
    BY <2>1, <2>3, KeepsBalance DEF Current
<1>4. CASE ProcessExpiredOffers
  BY <1>4, ProcessExpiredOffersSteps
<1>. QED
  BY <1>1, <1>2, <1>3, <1>4 DEF Expiry

LEMMA ActSteps == ASSUME Typed, NEW p \in Chars, Act(p) PROVE Typed' /\ (disturbed' \/ Balanced)
<1>1. ASSUME NEW n \in Lots,
             \/ Deposit(p, n) \/ Withdraw(p, n) \/ \E q \in Chars : TransferTo(p, q, n)
      PROVE  Typed' /\ Balanced
  BY <1>1, BankSteps
<1>2. ASSUME NEW n \in Lots,
             CreateBuyOffer(p, n) \/ CreateSellOffer(p, n) \/ RemoveOfferItemsFails(p, n)
      PROVE  Typed' /\ Balanced
  BY <1>2, CreateBuyOfferSteps, CreateSellOfferSteps, RemoveOfferItemsFailsSteps
<1>3. ASSUME NEW n \in Lots, NEW o \in offers, AcceptBuyOffer(p, o, n) \/ AcceptSellOffer(p, o, n)
      PROVE  Typed' /\ Balanced
  BY <1>3, AcceptBuyOfferSteps, AcceptSellOfferSteps
<1>4. ASSUME NEW o \in offers, CancelOffer(p, o) PROVE Typed' /\ Balanced
  BY <1>4, CancelOfferSteps
<1>5. CASE Login(p) \/ LeaveWorld(p) \/ LeaveDeathScreen(p) \/ Respawn(p)
  BY <1>5, LifeSteps
<1>. QED
  BY <1>1, <1>2, <1>3, <1>4, <1>5 DEF Act

LEMMA NextInv == ASSUME IInv, [Next]_vars PROVE IInv'
<1>1. CASE Next
  <2>1. ~disturbed /\ (Expiry \/ \E p \in Chars : Act(p))
    BY <1>1 DEF Next
  <2>2. Typed' /\ (disturbed' \/ Balanced)
    BY <2>1, ExpirySteps, ActSteps DEF IInv
  <2>. QED
    BY <2>1, <2>2 DEF IInv, Balanced
<1>2. CASE UNCHANGED vars
  <2>1. UNCHANGED <<where, mem, row, offers, used, query, result, spent, lost, disturbed>>
    BY <1>2 DEF vars, accountVars, offerVars, expiryVars, ghostVars
  <2>2. Typed' = Typed
    BY <2>1 DEF Typed, TypeOK, OffersOK
  <2>3. Balanced
    BY <2>1, KeepsBalance DEF Current
  <2>. QED
    BY <2>1, <2>2, <2>3 DEF IInv, Balanced
<1>. QED
  BY <1>1, <1>2

(* The inductive invariant holds in every state.                           *)
THEOREM Invariance == Spec => []IInv
<1>1. Init => IInv
  BY InitInv
<1>2. IInv /\ [Next]_vars => IInv'
  BY NextInv
<1>. QED
  BY <1>1, <1>2, PTL DEF Spec

(* Every account and offer keeps its type: whatever characters buy, sell,  *)
(* transfer and get back, nobody is left with less than nothing.           *)
THEOREM TypeCorrect == Spec => []TypeOK
<1>1. IInv => TypeOK
  BY DEF IInv, Typed
<1>. QED
  BY <1>1, Invariance, PTL

(* No money is made or lost by the bank and the market.                    *)
THEOREM MoneyConserved == Spec => []MoneyKept
<1>1. ASSUME IInv PROVE MoneyKept
  <2>1. SumFunction([c \in Chars |-> Worth(Start[c])]) = MoneyStart
    BY DEF SumFunction, MoneyStart
  <2>. QED
    BY <1>1, <2>1, BalancesMeant DEF IInv, Typed, MoneyBalance, MoneyKept
<1>. QED
  BY <1>1, Invariance, PTL

(* No goods are cloned, and they are lost only where the code says so.     *)
THEOREM GoodsConserved == Spec => []GoodsKept
<1>1. ASSUME IInv PROVE GoodsKept
  <2>1. SumFunction([c \in Chars |-> Start[c].goods]) = GoodsStart
    BY DEF SumFunction, GoodsStart
  <2>. QED
    BY <1>1, <2>1, BalancesMeant DEF IInv, Typed, GoodsBalance, GoodsKept
<1>. QED
  BY <1>1, Invariance, PTL

=================================================================================
