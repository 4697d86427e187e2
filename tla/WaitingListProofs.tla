---------------------------- MODULE WaitingListProofs ----------------------------
(***************************************************************************)
(* Why nobody in front of a full server is overtaken, for any number of    *)
(* players and places.  The argument counts: the slot that clientLogin     *)
(* computes is larger than the number of those queued before the client,   *)
(* because the clean-up of a list keeps the order of its entries and       *)
(* because the counter that is decremented for the wrong list errs on the  *)
(* safe side only (SizesMatch).                                            *)
(***************************************************************************)
EXTENDS WaitingList, Facts

---------------------------------------------------------------------------
(* What Without keeps.                                                     *)

KeptStep(list, S, g, i) ==
    IF i = 0 THEN <<>>
    ELSE IF list[i] \in S THEN g[i - 1] ELSE Append(g[i - 1], list[i])
KeptUpto(list, S, g) == g = [i \in 0..Len(list) |-> KeptStep(list, S, g, i)]

LEMMA WithoutUnfolds ==
    ASSUME NEW list, NEW S
    PROVE  Without(list, S) = (CHOOSE g : KeptUpto(list, S, g))[Len(list)]
BY DEF Without, KeptUpto, KeptStep

LEMMA KeptExists ==
    ASSUME NEW T, NEW list \in Seq(T), NEW S
    PROVE  \E g : KeptUpto(list, S, g)
<1> DEFINE N == Len(list)
           Upto(g, n) == \A i \in 0..N : i <= n => g[i] = KeptStep(list, S, g, i)
           R == {n \in Nat : \E g : Upto(g, n)}
<1>0. N \in Nat
  OBVIOUS
<1>1. 0 \in R
  <2> DEFINE g == [i \in 0..N |-> <<>>]
  <2>1. Upto(g, 0)
    BY <1>0 DEF KeptStep
  <2>. QED
    BY <2>1
<1>2. ASSUME NEW n \in Nat, n \in R PROVE n + 1 \in R
  <2>1. PICK g : Upto(g, n)
    BY <1>2
  <2> DEFINE h == [i \in 0..N |-> IF i <= n THEN g[i] ELSE KeptStep(list, S, g, i)]
  <2> HIDE DEF N
  <2>2. ASSUME NEW i \in 0..N, i <= n + 1 PROVE h[i] = KeptStep(list, S, h, i)
    <3>1. h[i] = KeptStep(list, S, g, i)
      BY <2>1
    <3>2. CASE i = 0
      BY <3>1, <3>2 DEF KeptStep
    <3>3. CASE i # 0
      <4>1. i - 1 \in 0..N /\ i - 1 <= n
        BY <1>0, <2>2, <3>3
      <4>2. h[i - 1] = g[i - 1]
        BY <4>1
      <4>. QED
        BY <3>1, <3>3, <4>2 DEF KeptStep
    <3>. QED
      BY <3>2, <3>3
  <2>3. Upto(h, n + 1)
    BY <2>2
  <2> HIDE DEF Upto
  <2>. QED
    BY <2>3
<1>3. N \in R
  <2> HIDE DEF R, N
  <2>. QED
    BY <1>0, <1>1, <1>2, SetOfNat
<1>4. PICK g : Upto(g, N)
  BY <1>3
<1> DEFINE h == [i \in 0..N |-> g[i]]
<1> HIDE DEF N
<1>5. ASSUME NEW i \in 0..N PROVE h[i] = KeptStep(list, S, h, i)
  <2>1. h[i] = KeptStep(list, S, g, i)
    BY <1>0, <1>4
  <2>2. i # 0 => i - 1 \in 0..N
    BY <1>0
  <2>. QED
    BY <2>1, <2>2 DEF KeptStep
<1>6. KeptUpto(list, S, h)
  BY <1>5 DEF KeptUpto, N
<1>. QED
  BY <1>6

(* The elements of q are those at the positions m of list, in their order, *)
(* and of the first n elements only those in S are left out.               *)
Picks(q, m, list, S, n) ==
    /\ m \in [1..Len(q) -> 1..n]
    /\ \A j \in 1..Len(q) : q[j] = list[m[j]] /\ q[j] \notin S
    /\ \A j, k \in 1..Len(q) : j < k => m[j] < m[k]
    /\ \A i \in 1..n : list[i] \in S \/ \E j \in 1..Len(q) : m[j] = i

LEMMA WithoutPicks ==
    ASSUME NEW T, NEW list \in Seq(T), NEW S
    PROVE  /\ Without(list, S) \in Seq(T)
           /\ \E m : Picks(Without(list, S), m, list, S, Len(list))
<1> DEFINE N == Len(list)
<1>0. N \in Nat /\ \A i \in 1..N : list[i] \in T
  OBVIOUS
<1>1. PICK g : KeptUpto(list, S, g) /\ Without(list, S) = g[N]
  BY WithoutUnfolds, KeptExists
<1>2. /\ g[0] = <<>>
      /\ \A i \in 1..N : g[i] = IF list[i] \in S THEN g[i - 1] ELSE Append(g[i - 1], list[i])
  <2>1. g = [i \in 0..N |-> KeptStep(list, S, g, i)]
    BY <1>1 DEF KeptUpto
  <2> HIDE DEF N
  <2>2. \A i \in 0..N : g[i] = KeptStep(list, S, g, i)
    BY <2>1
  <2>. QED
    BY <1>0, <2>2 DEF KeptStep
<1> DEFINE Fine(n) == g[n] \in Seq(T) /\ \E m : Picks(g[n], m, list, S, n)
           R == {n \in Nat : n <= N => Fine(n)}
<1> HIDE DEF N
<1>3. 0 \in R
  <2> DEFINE m == [j \in 1..0 |-> 0]
  <2>1. Picks(g[0], m, list, S, 0)
    BY <1>2 DEF Picks
  <2>2. g[0] \in Seq(T)
    BY <1>2
  <2>3. Fine(0)
    <3> HIDE DEF m
    <3>. QED
      BY <2>1, <2>2
  <2>. QED
    BY <2>3
<1>4. ASSUME NEW n \in Nat, n \in R PROVE n + 1 \in R
  <2> SUFFICES ASSUME n + 1 <= N PROVE Fine(n + 1)
    OBVIOUS
  <2>1. g[n] \in Seq(T) /\ n + 1 \in 1..N /\ (n + 1) - 1 = n
    BY <1>0, <1>4
  <2>2. PICK m : Picks(g[n], m, list, S, n)
    BY <1>0, <1>4
  <2> DEFINE q == g[n]  e == list[n + 1]  r == g[n + 1]
  <2>3. Len(q) \in Nat /\ e \in T /\ r = IF e \in S THEN q ELSE Append(q, e)
    BY <1>0, <1>2, <2>1
  <2>4. CASE e \in S
    <3>1. r = q
      BY <2>3, <2>4
    <3>2. m \in [1..Len(q) -> 1..(n + 1)]
      BY <2>2, <2>3 DEF Picks
    <3>3. Picks(r, m, list, S, n + 1)
      <4>1. \A i \in 1..(n + 1) : i \in 1..n \/ i = n + 1
        OBVIOUS
      <4>. QED
        BY <2>2, <2>4, <3>1, <3>2, <4>1 DEF Picks
    <3>. QED
      BY <2>1, <3>1, <3>3
  <2>5. CASE e \notin S
    <3> DEFINE k == Len(q) + 1
               l == [j \in 1..k |-> IF j = k THEN n + 1 ELSE m[j]]
    <3>1. /\ r \in Seq(T) /\ Len(r) = k /\ r[k] = e /\ \A j \in 1..Len(q) : r[j] = q[j]
      BY <2>1, <2>3, <2>5
    <3>2. \A j \in 1..k : j \in 1..Len(q) \/ j = k
      BY <2>3
    <3>3. \A j \in 1..Len(q) : j \in 1..k /\ j # k /\ l[j] = m[j] /\ m[j] \in 1..n
      <4>1. \A j \in 1..Len(q) : j \in 1..k /\ j # k
        BY <2>3
      <4>2. \A j \in 1..Len(q) : m[j] \in 1..n
        BY <2>2 DEF Picks
      <4> HIDE DEF k
      <4>. QED
        BY <4>1, <4>2
    <3>4. k \in 1..k /\ l[k] = n + 1
      BY <2>3
    <3>5. l \in [1..k -> 1..(n + 1)]
      <4>1. \A j \in 1..k : (IF j = k THEN n + 1 ELSE m[j]) \in 1..(n + 1)
        <5>1. ASSUME NEW j \in 1..k, j # k PROVE m[j] \in 1..(n + 1)
          <6>1. m[j] \in 1..n
            BY <3>2, <3>3, <5>1
          <6>. QED
            BY <6>1
        <5>. QED
          BY <5>1
      <4>. QED
        BY <4>1
    <3> HIDE DEF l, k, r, e, q
    <3>6. \A j \in 1..k : r[j] = list[l[j]] /\ r[j] \notin S
      BY <2>2, <2>5, <3>1, <3>2, <3>3, <3>4 DEF Picks, e, q
    <3>7. ASSUME NEW i \in 1..k, NEW j \in 1..k, i < j PROVE l[i] < l[j]
      <4>1. i \in 1..Len(q)
        BY <2>3, <3>7 DEF k
      <4>2. CASE j = k
        BY <3>3, <3>4, <4>1, <4>2
      <4>3. CASE j # k
        BY <2>2, <3>2, <3>3, <3>7, <4>1, <4>3 DEF Picks, q
      <4>. QED
        BY <4>2, <4>3
    <3>8. ASSUME NEW i \in 1..(n + 1), list[i] \notin S PROVE \E j \in 1..k : l[j] = i
      <4>1. CASE i = n + 1
        BY <3>4, <4>1
      <4>2. CASE i \in 1..n
        <5>1. PICK j \in 1..Len(q) : m[j] = i
          BY <2>2, <3>8, <4>2 DEF Picks, q
        <5>. QED
          BY <3>3, <5>1
      <4>. QED
        BY <4>1, <4>2
    <3>9. Picks(r, l, list, S, n + 1)
      BY <3>1, <3>5, <3>6, <3>7, <3>8 DEF Picks
    <3>. QED
      BY <3>1, <3>9 DEF r
  <2>. QED
    BY <2>4, <2>5
<1>5. N \in R
  <2> HIDE DEF R
  <2>. QED
    BY <1>0, <1>3, <1>4, SetOfNat
<1>. QED
  BY <1>0, <1>1, <1>5 DEF N

---------------------------------------------------------------------------
(* Lists whose entries are all different.                                  *)

LEMMA IndexIs ==
    ASSUME NEW T, NEW list \in Seq(T), IsInjective(list)
    PROVE  /\ \A i \in DOMAIN list : list[i] \in Range(list) /\ Index(list, list[i]) = i
           /\ \A p \in Range(list) : /\ Index(list, p) \in 1..Len(list)
                                     /\ list[Index(list, p)] = p
<1>0. DOMAIN list = 1..Len(list)
  OBVIOUS
<1>1. ASSUME NEW p \in Range(list) PROVE Index(list, p) \in DOMAIN list /\ list[Index(list, p)] = p
  <2>1. \E i \in DOMAIN list : list[i] = p
    BY DEF Range
  <2>. QED
    BY <2>1 DEF Index
<1>2. ASSUME NEW i \in DOMAIN list PROVE list[i] \in Range(list) /\ Index(list, list[i]) = i
  <2>1. list[i] \in Range(list)
    BY DEF Range
  <2>. QED
    BY <1>1, <2>1 DEF IsInjective
<1>. QED
  BY <1>0, <1>1, <1>2

LEMMA LengthCounts ==
    ASSUME NEW T, NEW list \in Seq(T), IsInjective(list)
    PROVE  IsFiniteSet(Range(list)) /\ Cardinality(Range(list)) = Len(list)
<1>1. DOMAIN list = 1..Len(list) /\ Len(list) \in Nat
  OBVIOUS
<1>2. list \in Surjection(1..Len(list), Range(list)) /\ list \in Injection(1..Len(list), Range(list))
  BY <1>1 DEF Surjection, Injection, IsInjective, Range
<1>3. IsFiniteSet(1..Len(list)) /\ Cardinality(1..Len(list)) = Len(list)
  BY <1>1, FS_Interval
<1>. QED
  BY <1>2, <1>3, FS_Surjection

(* As many entries are before one as its position says.                    *)
LEMMA BeforeCounts ==
    ASSUME NEW T, NEW list \in Seq(T), IsInjective(list), NEW p \in Range(list)
    PROVE  LET A == {q \in Range(list) : Index(list, q) < Index(list, p)}
           IN  IsFiniteSet(A) /\ Cardinality(A) + 1 = Index(list, p)
<1> DEFINE k == Index(list, p)
           A == {q \in Range(list) : Index(list, q) < k}
           f == [i \in 1..(k - 1) |-> list[i]]
<1>1. k \in 1..Len(list) /\ Len(list) \in Nat /\ DOMAIN list = 1..Len(list)
  BY IndexIs
<1>2. \A i \in 1..(k - 1) : list[i] \in Range(list) /\ Index(list, list[i]) = i
  BY <1>1, IndexIs
<1>3. \A q \in A : Index(list, q) \in 1..(k - 1) /\ list[Index(list, q)] = q
  BY <1>1, IndexIs
<1> HIDE DEF k
<1>4. \A i \in 1..(k - 1) : f[i] \in A
  BY <1>1, <1>2
<1>5. f \in Surjection(1..(k - 1), A)
  BY <1>3, <1>4 DEF Surjection
<1>6. f \in Injection(1..(k - 1), A)
  BY <1>2, <1>4 DEF Injection, IsInjective
<1>7. IsFiniteSet(1..(k - 1)) /\ Cardinality(1..(k - 1)) = k - 1
  <2>1. k - 1 \in Nat
    BY <1>1
  <2>2. \A n \in Nat : IsFiniteSet(1..n) /\ Cardinality(1..n) = n
    BY FS_Interval
  <2>. QED
    BY <2>1, <2>2
<1> HIDE DEF A, f
<1>8. IsFiniteSet(A) /\ Cardinality(A) = k - 1
  BY <1>5, <1>6, <1>7, FS_Surjection
<1>9. Cardinality(A) + 1 = k
  BY <1>1, <1>8
<1>. QED
  BY <1>8, <1>9 DEF A, k

(* Entries are removed: the others stay, in their order.                   *)
LEMMA WithoutKeeps ==
    ASSUME NEW T, NEW list \in Seq(T), IsInjective(list), NEW S
    PROVE  LET w == Without(list, S) IN
           /\ w \in Seq(T) /\ IsInjective(w) /\ Range(w) = Range(list) \ S
           /\ Len(w) = Len(list) - Count(list, S)
           /\ \A p, q \in Range(w) :
                  Index(list, p) < Index(list, q) => Index(w, p) < Index(w, q)
<1> DEFINE w == Without(list, S)
<1>1. w \in Seq(T) /\ \E m : Picks(w, m, list, S, Len(list))
  BY WithoutPicks
<1> HIDE DEF w
<1>2. PICK m : Picks(w, m, list, S, Len(list))
  BY <1>1
<1>3. /\ DOMAIN w = 1..Len(w) /\ Len(w) \in Nat
      /\ DOMAIN list = 1..Len(list) /\ Len(list) \in Nat
  BY <1>1
<1>4. \A j \in 1..Len(w) : m[j] \in 1..Len(list) /\ w[j] = list[m[j]] /\ w[j] \notin S
  BY <1>2 DEF Picks
<1>5. \A j, k \in 1..Len(w) : j < k => m[j] < m[k]
  BY <1>2 DEF Picks
<1>6. Range(w) = Range(list) \ S
  <2>1. Range(w) \subseteq Range(list) \ S
    BY <1>3, <1>4 DEF Range
  <2>2. ASSUME NEW i \in 1..Len(list), list[i] \notin S PROVE list[i] \in Range(w)
    <3>1. PICK j \in 1..Len(w) : m[j] = i
      BY <1>2, <2>2 DEF Picks
    <3>. QED
      BY <1>3, <1>4, <3>1 DEF Range
  <2>3. Range(list) \ S \subseteq Range(w)
    BY <1>3, <2>2 DEF Range
  <2>. QED
    BY <2>1, <2>3
<1>7. IsInjective(w)
  <2> SUFFICES ASSUME NEW j \in 1..Len(w), NEW k \in 1..Len(w), w[j] = w[k] PROVE j = k
    BY <1>3 DEF IsInjective
  <2>1. m[j] = m[k]
    BY <1>3, <1>4 DEF IsInjective
  <2>2. j < k \/ k < j \/ j = k
    OBVIOUS
  <2>. QED
    BY <1>4, <1>5, <2>1, <2>2
<1>8. Len(w) = Len(list) - Count(list, S)
  <2>1. /\ IsFiniteSet(Range(w)) /\ Cardinality(Range(w)) = Len(w)
        /\ IsFiniteSet(Range(list)) /\ Cardinality(Range(list)) = Len(list)
    BY <1>1, <1>7, LengthCounts
  <2>. QED
    BY <1>6, <2>1, FS_Difference DEF Count
<1>9. ASSUME NEW p \in Range(w), NEW q \in Range(w), Index(list, p) < Index(list, q)
      PROVE  Index(w, p) < Index(w, q)
  <2> DEFINE j == Index(w, p)  k == Index(w, q)
  <2>1. j \in 1..Len(w) /\ w[j] = p /\ k \in 1..Len(w) /\ w[k] = q
    BY <1>1, <1>7, IndexIs
  <2> HIDE DEF j, k
  <2>2. Index(list, p) = m[j] /\ Index(list, q) = m[k] /\ m[j] \in Int /\ m[k] \in Int
    <3>1. m[j] \in DOMAIN list /\ list[m[j]] = p /\ m[k] \in DOMAIN list /\ list[m[k]] = q
      BY <1>3, <1>4, <2>1
    <3>2. m[j] \in Int /\ m[k] \in Int
      BY <1>3, <3>1
    <3>. QED
      BY <3>1, <3>2, IndexIs
  <2>3. m[j] < m[k]
    BY <1>9, <2>2
  <2>4. j < k \/ k < j \/ j = k
    BY <2>1
  <2>5. ~(k < j) /\ j # k
    BY <1>5, <2>1, <2>2, <2>3
  <2>. QED
    BY <2>4, <2>5 DEF j, k
<1>. QED
  BY <1>1, <1>6, <1>7, <1>8, <1>9 DEF w

(* A player takes its place at the end, unless it has one.                 *)
LEMMA EnlistKeeps ==
    ASSUME NEW T, NEW list \in Seq(T), IsInjective(list), NEW p \in T, NEW n \in Int
    PROVE  LET e == Enlist(list, p) IN
           /\ e \in Seq(T) /\ IsInjective(e) /\ Range(e) = Range(list) \cup {p}
           /\ \E k \in {0, 1} : Len(e) = Len(list) + k /\ Grown(list, n, p) = n + k
<1>1. CASE p \in Range(list)
  <2>1. Enlist(list, p) = list /\ Grown(list, n, p) = n + 0 /\ Len(list) = Len(list) + 0
    BY <1>1 DEF Enlist, Grown
  <2>. QED
    BY <1>1, <2>1
<1>2. CASE p \notin Range(list)
  <2>1. Enlist(list, p) = Append(list, p) /\ Grown(list, n, p) = n + 1
    BY <1>2 DEF Enlist, Grown
  <2>2. Append(list, p) \in Seq(T) /\ Len(Append(list, p)) = Len(list) + 1 /\ Len(list) \in Nat
    OBVIOUS
  <2>3. Range(Append(list, p)) = Range(list) \cup {p} /\ IsInjective(Append(list, p))
    BY <1>2, RangeAppend
  <2>. QED
    BY <2>1, <2>2, <2>3
<1>. QED
  BY <1>1, <1>2

---------------------------------------------------------------------------
(* What erasing through the wrong list makes of the counters: their sum is *)
(* right, and that of the priority list is never too small.                *)
SizesMatch ==
    /\ prioritySize >= Len(priority)
    /\ prioritySize + waitingSize = Len(priority) + Len(waiting)

(* The inductive invariant.                                                *)
IInv == TypeOK /\ ReferencesMatch /\ SizesMatch

(* The queue after a clean-up.                                             *)
Prio == Without(priority, due)
Wait == Without(waiting, due)
PrioSize == prioritySize - Count(priority, due)
WaitSize == waitingSize - Count(waiting, due)

LEMMA CountTyped ==
    ASSUME NEW T, NEW list \in Seq(T), IsInjective(list), NEW S
    PROVE  Count(list, S) \in Nat
BY LengthCounts, FS_Intersection, FS_CardinalityType DEF Count

LEMMA Cleaned ==
    ASSUME IInv
    PROVE  /\ Prio \in Seq(Premium) /\ IsInjective(Prio) /\ Range(Prio) = Range(priority) \ due
           /\ Wait \in Seq(Free) /\ IsInjective(Wait) /\ Range(Wait) = Range(waiting) \ due
           /\ PrioSize \in Int /\ WaitSize \in Int
           /\ PrioSize >= Len(Prio) /\ PrioSize + WaitSize = Len(Prio) + Len(Wait)
           /\ DOMAIN CleanSlots(slots, due) = Range(Prio) \cup Range(Wait)
           /\ \A p \in DOMAIN CleanSlots(slots, due) : CleanSlots(slots, due)[p] \in Nat \ {0}
<1>1. /\ priority \in Seq(Premium) /\ IsInjective(priority)
      /\ waiting \in Seq(Free) /\ IsInjective(waiting)
      /\ prioritySize \in Int /\ waitingSize \in Int
  BY DEF IInv, TypeOK, ReferencesMatch
<1>2. /\ Prio \in Seq(Premium) /\ IsInjective(Prio) /\ Range(Prio) = Range(priority) \ due
      /\ Len(Prio) = Len(priority) - Count(priority, due)
  BY <1>1, WithoutKeeps DEF Prio
<1>3. /\ Wait \in Seq(Free) /\ IsInjective(Wait) /\ Range(Wait) = Range(waiting) \ due
      /\ Len(Wait) = Len(waiting) - Count(waiting, due)
  BY <1>1, WithoutKeeps DEF Wait
<1>4. /\ PrioSize \in Int /\ WaitSize \in Int
      /\ PrioSize >= Len(Prio) /\ PrioSize + WaitSize = Len(Prio) + Len(Wait)
  <2>1. Count(priority, due) \in Nat /\ Count(waiting, due) \in Nat
    BY <1>1, CountTyped
  <2>2. Len(priority) \in Nat /\ Len(waiting) \in Nat
    BY <1>1
  <2>. QED
    <3>1. /\ prioritySize >= Len(priority)
          /\ prioritySize + waitingSize = Len(priority) + Len(waiting)
      BY DEF IInv, SizesMatch
    <3>2. PrioSize \in Int /\ WaitSize \in Int
      BY <1>1, <2>1 DEF PrioSize, WaitSize
    <3>3. PrioSize >= Len(Prio)
      BY <1>1, <1>2, <2>1, <2>2, <3>1 DEF PrioSize
    <3>4. PrioSize + WaitSize = (prioritySize + waitingSize) - (Count(priority, due) + Count(waiting, due))
      BY <1>1, <2>1 DEF PrioSize, WaitSize
    <3>5. Len(Prio) + Len(Wait) = (Len(priority) + Len(waiting)) - (Count(priority, due) + Count(waiting, due))
      BY <1>2, <1>3, <2>1, <2>2
    <3>. QED
      BY <3>1, <3>2, <3>3, <3>4, <3>5
<1>5. DOMAIN CleanSlots(slots, due) = DOMAIN slots \ due
  BY DEF CleanSlots, DropSlots
<1>6. \A p \in DOMAIN CleanSlots(slots, due) : CleanSlots(slots, due)[p] \in Nat \ {0}
  BY DEF CleanSlots, DropSlots, IInv, TypeOK
<1>. QED
  BY <1>2, <1>3, <1>4, <1>5, <1>6 DEF IInv, ReferencesMatch

LEMMA DisjointUnion ==
    ASSUME NEW A, IsFiniteSet(A), NEW B, IsFiniteSet(B), A \cap B = {}
    PROVE  /\ IsFiniteSet(A \cup B)
           /\ Cardinality(A \cup B) = Cardinality(A) + Cardinality(B)
           /\ Cardinality(A) \in Nat /\ Cardinality(B) \in Nat
<1>1. Cardinality(A) \in Nat /\ Cardinality(B) \in Nat /\ Cardinality({}) = 0
  BY FS_CardinalityType, FS_EmptySet
<1>2. /\ IsFiniteSet(A \cup B)
      /\ Cardinality(A \cup B) = Cardinality(A) + Cardinality(B) - Cardinality(A \cap B)
  BY FS_Union
<1>3. Cardinality(A \cap B) = 0
  BY <1>1, Zenon
<1>. QED
  BY <1>1, <1>2, <1>3

(* The slot of a client is larger than the number of those before it.      *)
Ahead(p) ==
    IF p \in Premium THEN {q \in Range(Prio) : p \in Range(Prio) => Index(Prio, q) < Index(Prio, p)}
    ELSE Range(Prio) \cup {q \in Range(Wait) : p \in Range(Wait) => Index(Wait, q) < Index(Wait, p)}

LEMMA SlotCounts ==
    ASSUME IInv, NEW p \in Clients
    PROVE  /\ Slot(Prio, Wait, PrioSize, WaitSize, p) \in Nat \ {0}
           /\ IsFiniteSet(Ahead(p))
           /\ Cardinality(Ahead(p)) < Slot(Prio, Wait, PrioSize, WaitSize, p)
<1> DEFINE slot == Slot(Prio, Wait, PrioSize, WaitSize, p)
<1>1. /\ Prio \in Seq(Premium) /\ IsInjective(Prio) /\ Len(Prio) \in Nat
      /\ Wait \in Seq(Free) /\ IsInjective(Wait) /\ Len(Wait) \in Nat
      /\ PrioSize \in Int /\ WaitSize \in Int
      /\ PrioSize >= Len(Prio) /\ PrioSize + WaitSize = Len(Prio) + Len(Wait)
  BY Cleaned
<1>2. /\ IsFiniteSet(Range(Prio)) /\ Cardinality(Range(Prio)) = Len(Prio)
      /\ IsFiniteSet(Range(Wait)) /\ Cardinality(Range(Wait)) = Len(Wait)
  BY <1>1, LengthCounts
<1>3. Range(Prio) \subseteq Premium /\ Range(Wait) \subseteq Free /\ Premium \cap Free = {}
  BY <1>1, QueueAssumption DEF Range
<1>4. CASE p \in Premium /\ p \in Range(Prio)
  <2> DEFINE A == {q \in Range(Prio) : Index(Prio, q) < Index(Prio, p)}
  <2>1. IsFiniteSet(A) /\ Cardinality(A) + 1 = Index(Prio, p)
    BY <1>1, <1>4, BeforeCounts
  <2>2. Ahead(p) = A /\ slot = Index(Prio, p)
    BY <1>4 DEF Ahead, Slot
  <2> HIDE DEF A, slot
  <2>3. Cardinality(A) \in Nat
    BY <2>1, FS_CardinalityType
  <2>. QED
    BY <2>1, <2>2, <2>3 DEF slot
<1>5. CASE p \in Premium /\ p \notin Range(Prio)
  <2>1. Ahead(p) = Range(Prio) /\ slot = PrioSize + 1
    BY <1>5 DEF Ahead, Slot
  <2>. QED
    BY <1>1, <1>2, <2>1
<1>6. CASE p \notin Premium /\ p \in Range(Wait)
  <2> DEFINE A == {q \in Range(Wait) : Index(Wait, q) < Index(Wait, p)}
  <2>1. IsFiniteSet(A) /\ Cardinality(A) + 1 = Index(Wait, p)
    BY <1>1, <1>6, BeforeCounts
  <2>2. Ahead(p) = Range(Prio) \cup A /\ slot = PrioSize + Index(Wait, p)
    BY <1>6 DEF Ahead, Slot
  <2>3. Range(Prio) \cap A = {}
    BY <1>3
  <2> HIDE DEF A, slot
  <2>4. /\ IsFiniteSet(Range(Prio) \cup A)
        /\ Cardinality(Range(Prio) \cup A) = Len(Prio) + Cardinality(A)
        /\ Cardinality(A) \in Nat
    BY <1>2, <2>1, <2>3, DisjointUnion
  <2>. QED
    BY <1>1, <2>1, <2>2, <2>4 DEF slot
<1>7. CASE p \notin Premium /\ p \notin Range(Wait)
  <2>1. Ahead(p) = Range(Prio) \cup Range(Wait) /\ slot = (PrioSize + WaitSize) + 1
    BY <1>7 DEF Ahead, Slot
  <2>2. Range(Prio) \cap Range(Wait) = {}
    BY <1>3
  <2>3. /\ IsFiniteSet(Range(Prio) \cup Range(Wait))
        /\ Cardinality(Range(Prio) \cup Range(Wait)) = Len(Prio) + Len(Wait)
    BY <1>2, <2>2, DisjointUnion
  <2> HIDE DEF slot
  <2>. QED
    BY <1>1, <2>1, <2>3 DEF slot
<1>. QED
  BY <1>4, <1>5, <1>6, <1>7

---------------------------------------------------------------------------
(* The steps of clientLogin.                                               *)

NewPrio(p) == IF p \in Premium THEN Enlist(Prio, p) ELSE Prio
NewWait(p) == IF p \in Free THEN Enlist(Wait, p) ELSE Wait
NewPrioSize(p) == IF p \in Premium THEN Grown(Prio, PrioSize, p) ELSE PrioSize
NewWaitSize(p) == IF p \in Free THEN Grown(Wait, WaitSize, p) ELSE WaitSize
SlotOf(p) == Slot(Prio, Wait, PrioSize, WaitSize, p)

Admit(p) ==
    /\ Cardinality(online) + SlotOf(p) <= MaxPlayers
    /\ admitted < MaxAdmitted /\ admitted' = admitted + 1
    /\ online' = online \cup {p}
    /\ priority' = Without(NewPrio(p), {p}) /\ waiting' = Without(NewWait(p), {p})
    /\ waitingSize' = NewWaitSize(p) - 1
    /\ slots' = DropSlots(CleanSlots(slots, due), {p})
    /\ told' = [told EXCEPT ![p] = 0]

Refuse(p) ==
    /\ priority' = NewPrio(p) /\ waiting' = NewWait(p)
    /\ waitingSize' = NewWaitSize(p)
    /\ slots' = PutSlot(CleanSlots(slots, due), p, SlotOf(p))
    /\ told' = [told EXCEPT ![p] =
                  Slot(NewPrio(p), NewWait(p), NewPrioSize(p), NewWaitSize(p), p)]
    /\ UNCHANGED <<online, admitted>>

LEMMA TryEnterIs ==
    ASSUME NEW p, TryEnter(p)
    PROVE  /\ p \in Clients \ online /\ due' = {} /\ prioritySize' = NewPrioSize(p)
           /\ Admit(p) \/ Refuse(p)
BY DEF TryEnter, Admit, Refuse, NewPrio, NewWait, NewPrioSize, NewWaitSize, SlotOf,
       Prio, Wait, PrioSize, WaitSize

LEMMA Enlisted ==
    ASSUME IInv, NEW p \in Clients
    PROVE  /\ NewPrio(p) \in Seq(Premium) /\ IsInjective(NewPrio(p))
           /\ NewWait(p) \in Seq(Free) /\ IsInjective(NewWait(p))
           /\ Range(NewPrio(p)) = Range(Prio) \cup ({p} \cap Premium)
           /\ Range(NewWait(p)) = Range(Wait) \cup ({p} \cap Free)
           /\ NewPrioSize(p) \in Int /\ NewWaitSize(p) \in Int
           /\ NewPrioSize(p) >= Len(NewPrio(p))
           /\ NewPrioSize(p) + NewWaitSize(p) = Len(NewPrio(p)) + Len(NewWait(p))
<1>1. /\ Prio \in Seq(Premium) /\ IsInjective(Prio)
      /\ Wait \in Seq(Free) /\ IsInjective(Wait)
      /\ PrioSize \in Int /\ WaitSize \in Int
      /\ PrioSize >= Len(Prio) /\ PrioSize + WaitSize = Len(Prio) + Len(Wait)
  BY Cleaned
<1>2. Premium \cap Free = {}
  BY QueueAssumption
<1>3. Len(Prio) \in Nat /\ Len(Wait) \in Nat
  BY <1>1
<1>4. CASE p \in Premium
  <2> DEFINE e == Enlist(Prio, p)  n == Grown(Prio, PrioSize, p)
  <2>1. p \notin Free /\ {p} \cap Premium = {p} /\ {p} \cap Free = {}
    BY <1>2, <1>4
  <2>2. NewPrio(p) = e /\ NewPrioSize(p) = n /\ NewWait(p) = Wait /\ NewWaitSize(p) = WaitSize
    BY <1>4, <2>1 DEF NewPrio, NewWait, NewPrioSize, NewWaitSize
  <2>3. /\ e \in Seq(Premium) /\ IsInjective(e) /\ Range(e) = Range(Prio) \cup {p}
        /\ \E k \in {0, 1} : Len(e) = Len(Prio) + k /\ n = PrioSize + k
    BY <1>1, <1>4, EnlistKeeps
  <2> HIDE DEF e, n
  <2>4. PICK k \in {0, 1} : Len(e) = Len(Prio) + k /\ n = PrioSize + k
    BY <2>3
  <2>5. n \in Int /\ n >= Len(e) /\ n + WaitSize = Len(e) + Len(Wait)
    BY <1>1, <1>3, <2>4
  <2>. QED
    BY <1>1, <2>1, <2>2, <2>3, <2>5
<1>5. CASE p \in Free
  <2> DEFINE e == Enlist(Wait, p)  n == Grown(Wait, WaitSize, p)
  <2>1. p \notin Premium /\ {p} \cap Free = {p} /\ {p} \cap Premium = {}
    BY <1>2, <1>5
  <2>2. NewWait(p) = e /\ NewWaitSize(p) = n /\ NewPrio(p) = Prio /\ NewPrioSize(p) = PrioSize
    BY <1>5, <2>1 DEF NewPrio, NewWait, NewPrioSize, NewWaitSize
  <2>3. /\ e \in Seq(Free) /\ IsInjective(e) /\ Range(e) = Range(Wait) \cup {p}
        /\ \E k \in {0, 1} : Len(e) = Len(Wait) + k /\ n = WaitSize + k
    BY <1>1, <1>5, EnlistKeeps
  <2> HIDE DEF e, n
  <2>4. PICK k \in {0, 1} : Len(e) = Len(Wait) + k /\ n = WaitSize + k
    BY <2>3
  <2>5. n \in Int /\ PrioSize + n = Len(Prio) + Len(e)
    BY <1>1, <1>3, <2>4
  <2>. QED
    BY <1>1, <2>1, <2>2, <2>3, <2>5
<1>. QED
  BY <1>4, <1>5 DEF Clients

LEMMA OnlineFinite == ASSUME TypeOK PROVE IsFiniteSet(online) /\ Cardinality(online) \in Nat
<1>1. IsFiniteSet(Players) /\ online \in SUBSET Players
  BY QueueAssumption DEF TypeOK, Players, Clients
<1>. QED
  BY <1>1, FS_Subset, FS_CardinalityType

LEMMA RefuseSteps ==
    ASSUME IInv, NEW p \in Clients \ online, due' = {}, prioritySize' = NewPrioSize(p), Refuse(p)
    PROVE  IInv'
<1>1. /\ NewPrio(p) \in Seq(Premium) /\ IsInjective(NewPrio(p))
      /\ NewWait(p) \in Seq(Free) /\ IsInjective(NewWait(p))
      /\ Range(NewPrio(p)) = Range(Prio) \cup ({p} \cap Premium)
      /\ Range(NewWait(p)) = Range(Wait) \cup ({p} \cap Free)
      /\ NewPrioSize(p) \in Int /\ NewWaitSize(p) \in Int
      /\ NewPrioSize(p) >= Len(NewPrio(p))
      /\ NewPrioSize(p) + NewWaitSize(p) = Len(NewPrio(p)) + Len(NewWait(p))
  BY Enlisted
<1>2. /\ priority' = NewPrio(p) /\ waiting' = NewWait(p)
      /\ waitingSize' = NewWaitSize(p) /\ prioritySize' = NewPrioSize(p)
      /\ online' = online /\ admitted' = admitted /\ due' = {}
  BY DEF Refuse
<1>3. SizesMatch'
  BY <1>1, <1>2 DEF SizesMatch
<1> DEFINE clean == CleanSlots(slots, due)
<1>4. /\ DOMAIN clean = Range(Prio) \cup Range(Wait)
      /\ \A q \in DOMAIN clean : clean[q] \in Nat \ {0}
      /\ SlotOf(p) \in Nat \ {0}
      /\ Range(Prio) \cup Range(Wait) \subseteq DOMAIN slots
  BY Cleaned, SlotCounts DEF SlotOf, IInv, ReferencesMatch
<1>5. /\ slots' = [q \in DOMAIN clean \cup {p} |-> IF q = p THEN SlotOf(p) ELSE clean[q]]
  BY DEF Refuse, PutSlot
<1> HIDE DEF clean
<1>6. /\ DOMAIN slots' = (Range(Prio) \cup Range(Wait)) \cup {p}
      /\ \A q \in DOMAIN slots' : slots'[q] \in Nat \ {0}
  BY <1>4, <1>5
<1>7. Range(NewPrio(p)) \cup Range(NewWait(p)) = (Range(Prio) \cup Range(Wait)) \cup {p}
  BY <1>1 DEF Clients
<1>8. ReferencesMatch'
  <2>1. DOMAIN slots \cap online = {}
    BY DEF IInv, ReferencesMatch
  <2>2. DOMAIN slots' \cap online' = {}
    BY <1>2, <1>4, <1>6, <2>1
  <2>. QED
    BY <1>1, <1>2, <1>6, <1>7, <2>2 DEF ReferencesMatch
<1>9. Slot(NewPrio(p), NewWait(p), NewPrioSize(p), NewWaitSize(p), p) \in Nat
  <2>1. Len(NewPrio(p)) \in Nat
    BY <1>1
  <2>2. CASE p \in Premium
    <3>1. p \in Range(NewPrio(p))
      BY <1>1, <2>2
    <3>2. Index(NewPrio(p), p) \in Nat
      BY <1>1, <3>1, IndexIs
    <3>. QED
      BY <2>2, <3>1, <3>2 DEF Slot
  <2>3. CASE p \notin Premium
    <3>1. p \in Range(NewWait(p))
      BY <1>1, <2>3 DEF Clients
    <3>2. Index(NewWait(p), p) \in Nat /\ NewPrioSize(p) \in Nat
      BY <1>1, <2>1, <3>1, IndexIs
    <3>. QED
      BY <2>3, <3>1, <3>2 DEF Slot
  <2>. QED
    BY <2>2, <2>3
<1>10. told' \in [Clients -> Nat]
  <2>1. told \in [Clients -> Nat]
    BY DEF IInv, TypeOK
  <2>2. told' = [told EXCEPT ![p] = Slot(NewPrio(p), NewWait(p), NewPrioSize(p), NewWaitSize(p), p)]
    BY DEF Refuse
  <2>. QED
    BY <1>9, <2>1, <2>2
<1>11. DOMAIN slots' \subseteq Clients
  BY <1>4, <1>6 DEF IInv, TypeOK
<1>12. TypeOK'
  <2>1. online' \subseteq Players /\ admitted' \in 0..MaxAdmitted
    BY <1>2 DEF IInv, TypeOK
  <2>. QED
    BY <1>1, <1>2, <1>6, <1>10, <1>11, <2>1 DEF TypeOK
<1>. QED
  BY <1>3, <1>8, <1>12 DEF IInv

LEMMA AdmitSteps ==
    ASSUME IInv, NEW p \in Clients \ online, due' = {}, prioritySize' = NewPrioSize(p), Admit(p)
    PROVE  IInv'
<1> DEFINE prio == NewPrio(p)  wait == NewWait(p)
<1>1. /\ prio \in Seq(Premium) /\ IsInjective(prio)
      /\ wait \in Seq(Free) /\ IsInjective(wait)
      /\ Range(prio) = Range(Prio) \cup ({p} \cap Premium)
      /\ Range(wait) = Range(Wait) \cup ({p} \cap Free)
      /\ NewPrioSize(p) \in Int /\ NewWaitSize(p) \in Int
      /\ NewPrioSize(p) >= Len(prio)
      /\ NewPrioSize(p) + NewWaitSize(p) = Len(prio) + Len(wait)
  BY Enlisted
<1>2. /\ priority' = Without(prio, {p}) /\ waiting' = Without(wait, {p})
      /\ waitingSize' = NewWaitSize(p) - 1 /\ prioritySize' = NewPrioSize(p)
      /\ online' = online \cup {p} /\ admitted' = admitted + 1 /\ admitted < MaxAdmitted
      /\ due' = {} /\ told' = [told EXCEPT ![p] = 0]
  BY DEF Admit
<1> HIDE DEF prio, wait
<1>3. /\ priority' \in Seq(Premium) /\ IsInjective(priority') /\ Range(priority') = Range(prio) \ {p}
      /\ waiting' \in Seq(Free) /\ IsInjective(waiting') /\ Range(waiting') = Range(wait) \ {p}
      /\ Len(priority') = Len(prio) - Count(prio, {p})
      /\ Len(waiting') = Len(wait) - Count(wait, {p})
  BY <1>1, <1>2, WithoutKeeps
<1>4. /\ Count(prio, {p}) \in Nat /\ Count(wait, {p}) \in Nat
      /\ Count(prio, {p}) + Count(wait, {p}) = 1
  <2>1. Range(Prio) \subseteq Premium /\ Range(Wait) \subseteq Free /\ Premium \cap Free = {}
    BY Cleaned, QueueAssumption DEF Range
  <2>2. CASE p \in Premium
    <3>1. Range(prio) \cap {p} = {p} /\ Range(wait) \cap {p} = {}
      BY <1>1, <2>1, <2>2
    <3>2. Count(prio, {p}) = 1 /\ Count(wait, {p}) = 0
      BY <3>1, FS_Singleton, FS_EmptySet, Zenon DEF Count
    <3>. QED
      BY <3>2
  <2>3. CASE p \in Free
    <3>1. Range(prio) \cap {p} = {} /\ Range(wait) \cap {p} = {p}
      BY <1>1, <2>1, <2>3
    <3>2. Count(prio, {p}) = 0 /\ Count(wait, {p}) = 1
      BY <3>1, FS_Singleton, FS_EmptySet, Zenon DEF Count
    <3>. QED
      BY <3>2
  <2>. QED
    BY <2>2, <2>3 DEF Clients
<1>5. SizesMatch'
  <2>1. Len(prio) \in Nat /\ Len(wait) \in Nat
    BY <1>1
  <2>2. prioritySize' >= Len(priority')
    <3>1. NewPrioSize(p) >= Len(prio) - Count(prio, {p})
      BY <1>1, <1>4, <2>1
    <3>. QED
      BY <1>2, <1>3, <3>1
  <2>3. prioritySize' + waitingSize' = (NewPrioSize(p) + NewWaitSize(p)) - 1
    BY <1>1, <1>2
  <2>4. Len(priority') + Len(waiting') = (Len(prio) + Len(wait)) - (Count(prio, {p}) + Count(wait, {p}))
    BY <1>3, <1>4, <2>1
  <2>5. prioritySize' + waitingSize' = Len(priority') + Len(waiting')
    BY <1>1, <1>4, <2>3, <2>4
  <2>. QED
    BY <2>2, <2>5 DEF SizesMatch
<1>6. /\ DOMAIN slots' = (Range(Prio) \cup Range(Wait)) \ {p}
      /\ \A q \in DOMAIN slots' : slots'[q] \in Nat \ {0}
  <2> DEFINE clean == CleanSlots(slots, due)
  <2>1. /\ DOMAIN clean = Range(Prio) \cup Range(Wait)
        /\ \A q \in DOMAIN clean : clean[q] \in Nat \ {0}
    BY Cleaned
  <2>2. slots' = [q \in DOMAIN clean \ {p} |-> clean[q]]
    BY DEF Admit, DropSlots
  <2> HIDE DEF clean
  <2>. QED
    BY <2>1, <2>2
<1>7. Range(Prio) \cup Range(Wait) \subseteq DOMAIN slots
  BY Cleaned DEF IInv, ReferencesMatch
<1>8. ReferencesMatch'
  <2>1. DOMAIN slots \cap online = {}
    BY DEF IInv, ReferencesMatch
  <2>2. DOMAIN slots' \cap online' = {}
    BY <1>2, <1>6, <1>7, <2>1
  <2>3. Range(priority') \cup Range(waiting') = DOMAIN slots'
    BY <1>1, <1>3, <1>6
  <2>. QED
    BY <1>2, <1>3, <2>2, <2>3 DEF ReferencesMatch
<1>9. TypeOK'
  <2>1. online' \subseteq Players
    BY <1>2 DEF IInv, TypeOK, Players
  <2>2. admitted' \in 0..MaxAdmitted
    BY <1>2, QueueAssumption DEF IInv, TypeOK
  <2>3. told' \in [Clients -> Nat]
    BY <1>2 DEF IInv, TypeOK
  <2>4. DOMAIN slots' \subseteq Clients
    BY <1>6, <1>7 DEF IInv, TypeOK
  <2>5. prioritySize' \in Int /\ waitingSize' \in Int
    BY <1>1, <1>2
  <2>. QED
    BY <1>2, <1>3, <1>6, <2>1, <2>2, <2>3, <2>4, <2>5 DEF TypeOK
<1>. QED
  BY <1>5, <1>8, <1>9 DEF IInv

LEMMA OtherSteps ==
    ASSUME IInv, NEW p \in Players, EnterDirectly(p) \/ TimeOut(p) \/ Leave(p)
    PROVE  IInv'
<1>1. CASE EnterDirectly(p)
  <2>1. UNCHANGED <<priority, waiting, prioritySize, waitingSize, slots, due, told, admitted>>
        /\ online' = online \cup {p}
    BY <1>1 DEF EnterDirectly, lists
  <2>2. p \notin DOMAIN slots
    <3>1. CASE p \in Staff
      BY <3>1, QueueAssumption DEF IInv, TypeOK, Clients
    <3>2. CASE priority = <<>> /\ waiting = <<>>
      BY <3>2, RangeEmpty DEF IInv, ReferencesMatch
    <3>. QED
      BY <1>1, <3>1, <3>2 DEF EnterDirectly
  <2>3. ReferencesMatch'
    BY <2>1, <2>2 DEF IInv, ReferencesMatch
  <2>. QED
    BY <2>1, <2>3 DEF IInv, TypeOK, SizesMatch
<1>2. CASE TimeOut(p)
  <2>1. UNCHANGED <<priority, waiting, prioritySize, waitingSize, slots, online, told, admitted>>
        /\ due' = due \cup {p} /\ p \in DOMAIN slots
    BY <1>2 DEF TimeOut
  <2>. QED
    BY <2>1 DEF IInv, TypeOK, ReferencesMatch, SizesMatch
<1>3. CASE Leave(p)
  <2>1. UNCHANGED <<priority, waiting, prioritySize, waitingSize, slots, due, told, admitted>>
        /\ online' = online \ {p}
    BY <1>3 DEF Leave, lists
  <2>. QED
    BY <2>1 DEF IInv, TypeOK, ReferencesMatch, SizesMatch
<1>. QED
  BY <1>1, <1>2, <1>3

---------------------------------------------------------------------------
(* The theorems.                                                           *)

LEMMA InitInv == ASSUME Init PROVE IInv
<1>1. /\ priority = <<>> /\ waiting = <<>> /\ prioritySize = 0 /\ waitingSize = 0
      /\ DOMAIN slots = {} /\ due = {} /\ online = {} /\ admitted = 0
      /\ told = [p \in Clients |-> 0]
  BY DEF Init
<1>2. TypeOK
  BY <1>1, QueueAssumption DEF TypeOK
<1>3. ReferencesMatch
  BY <1>1, RangeEmpty DEF ReferencesMatch
<1>4. SizesMatch
  BY <1>1 DEF SizesMatch
<1>. QED
  BY <1>2, <1>3, <1>4 DEF IInv

LEMMA NextInv == ASSUME IInv, [Next]_vars PROVE IInv'
<1>1. ASSUME NEW p \in Players, EnterDirectly(p) \/ TimeOut(p) \/ Leave(p) PROVE IInv'
  BY <1>1, OtherSteps
<1>2. ASSUME NEW p \in Players, TryEnter(p) PROVE IInv'
  BY <1>2, TryEnterIs, AdmitSteps, RefuseSteps
<1>3. CASE UNCHANGED vars
  BY <1>3 DEF vars, lists, IInv, TypeOK, ReferencesMatch, SizesMatch
<1>. QED
  BY <1>1, <1>2, <1>3 DEF Next

(* The inductive invariant holds in every state.                           *)
THEOREM Invariance == Spec => []IInv
<1>1. Init => IInv
  BY InitInv
<1>2. IInv /\ [Next]_vars => IInv'
  BY NextInv
<1>. QED
  BY <1>1, <1>2, PTL DEF Spec

(* Every slot and every place told to a client is a natural number,        *)
(* although one of the counters they come from is wrong.                   *)
THEOREM TypeCorrect == Spec => []TypeOK
<1>1. IInv => TypeOK
  BY DEF IInv
<1>. QED
  BY <1>1, Invariance, PTL

(* playerReferences refers to the entries of the two lists and no other.   *)
THEOREM ReferencesCorrect == Spec => []ReferencesMatch
<1>1. IInv => ReferencesMatch
  BY DEF IInv
<1>. QED
  BY <1>1, Invariance, PTL

(* Those queued before a client that is admitted fit in, too.              *)
LEMMA PrecedingAreAhead ==
    ASSUME IInv, NEW p \in Clients, NEW q \in (Range(Prio) \cup Range(Wait)) \ {p}, Precedes(q, p)
    PROVE  q \in Ahead(p)
<1>1. /\ priority \in Seq(Premium) /\ IsInjective(priority)
      /\ waiting \in Seq(Free) /\ IsInjective(waiting)
  BY DEF IInv, TypeOK, ReferencesMatch
<1>2. /\ Range(Prio) = Range(priority) \ due /\ Range(Wait) = Range(waiting) \ due
      /\ Range(Prio) \subseteq Premium /\ Range(Wait) \subseteq Free /\ Premium \cap Free = {}
  <2>1. Range(Prio) = Range(priority) \ due /\ Range(Wait) = Range(waiting) \ due
    BY Cleaned
  <2>2. Range(Prio) \subseteq Premium /\ Range(Wait) \subseteq Free
    BY Cleaned DEF Range
  <2>. QED
    BY <2>1, <2>2, QueueAssumption
<1>3. \A a, b \in Range(Prio) :
          Index(priority, a) < Index(priority, b) => Index(Prio, a) < Index(Prio, b)
  BY <1>1, WithoutKeeps DEF Prio
<1>4. \A a, b \in Range(Wait) :
          Index(waiting, a) < Index(waiting, b) => Index(Wait, a) < Index(Wait, b)
  BY <1>1, WithoutKeeps DEF Wait
<1>5. CASE p \in Premium
  <2>1. q \in Range(Prio)
    BY <1>2, <1>5 DEF Precedes
  <2>2. p \notin Range(Prio) \/ Index(priority, q) < Index(priority, p)
    BY <1>2, <1>5, <2>1 DEF Precedes
  <2>. QED
    BY <1>3, <1>5, <2>1, <2>2 DEF Ahead
<1>6. CASE p \notin Premium
  <2>1. CASE q \in Premium
    BY <1>2, <1>6, <2>1 DEF Ahead
  <2>2. CASE q \notin Premium
    <3>1. q \in Range(Wait)
      BY <1>2, <2>2
    <3>2. p \notin Range(Wait) \/ Index(waiting, q) < Index(waiting, p)
      BY <1>2, <1>6, <2>2 DEF Precedes
    <3>. QED
      BY <1>4, <1>6, <3>1, <3>2 DEF Ahead
  <2>. QED
    BY <2>1, <2>2
<1>. QED
  BY <1>5, <1>6

NotOvertaken(p) ==
    p \notin online /\ p \in online' =>
        Cardinality(online') + Cardinality({q \in DOMAIN slots' : Precedes(q, p)}) <= MaxPlayers

LEMMA AdmittedInTurn ==
    ASSUME IInv, NEW p \in Clients \ online, Admit(p)
    PROVE  NotOvertaken(p)
<1> DEFINE B == {q \in DOMAIN slots' : Precedes(q, p)}
<1>1. DOMAIN slots' = (Range(Prio) \cup Range(Wait)) \ {p}
  <2>1. DOMAIN slots' = DOMAIN CleanSlots(slots, due) \ {p}
    BY DEF Admit, DropSlots
  <2>. QED
    BY <2>1, Cleaned
<1>2. B \subseteq Ahead(p)
  BY <1>1, PrecedingAreAhead
<1> HIDE DEF B
<1>3. /\ IsFiniteSet(Ahead(p)) /\ Cardinality(Ahead(p)) < SlotOf(p) /\ SlotOf(p) \in Nat
  BY SlotCounts DEF SlotOf
<1>4. Cardinality(B) <= Cardinality(Ahead(p)) /\ Cardinality(B) \in Nat /\ Cardinality(Ahead(p)) \in Nat
  BY <1>2, <1>3, FS_Subset, FS_CardinalityType
<1>5. /\ Cardinality(online') = Cardinality(online) + 1 /\ Cardinality(online) \in Nat
      /\ Cardinality(online) + SlotOf(p) <= MaxPlayers /\ MaxPlayers \in Nat
  <2>1. IsFiniteSet(online) /\ Cardinality(online) \in Nat
    BY OnlineFinite DEF IInv
  <2>. QED
    BY <2>1, FS_AddElement, QueueAssumption DEF Admit
<1>6. Cardinality(online') + Cardinality(B) <= MaxPlayers
  BY <1>3, <1>4, <1>5
<1>. QED
  BY <1>6 DEF NotOvertaken, B

(* Nobody in the queue is overtaken: who gets in leaves room enough for    *)
(* all those that were before it.                                          *)
THEOREM InTurn == Spec => NoOvertaking
<1>1. ASSUME IInv, [Next]_vars
      PROVE  [\A p \in Clients : NotOvertaken(p)]_vars
  <2> SUFFICES ASSUME Next, NEW p \in Clients, p \notin online, p \in online'
               PROVE  NotOvertaken(p)
    BY <1>1 DEF NotOvertaken
  <2>1. PICK a \in Players : EnterDirectly(a) \/ TryEnter(a) \/ TimeOut(a) \/ Leave(a)
    BY DEF Next
  <2>2. CASE EnterDirectly(a)
    <3>1. a = p /\ p \notin Staff /\ online' = online \cup {p} /\ slots' = slots
      BY <2>2, QueueAssumption DEF EnterDirectly, lists, Clients
    <3>2. DOMAIN slots = {} /\ Cardinality(online) < MaxPlayers
      BY <1>1, <2>2, <3>1, RangeEmpty DEF EnterDirectly, IInv, ReferencesMatch
    <3>3. {q \in DOMAIN slots' : Precedes(q, p)} = {}
      BY <3>1, <3>2
    <3>4. Cardinality(online') = Cardinality(online) + 1 /\ Cardinality(online) \in Nat
      BY <1>1, <3>1, OnlineFinite, FS_AddElement DEF IInv
    <3>5. Cardinality({q \in DOMAIN slots' : Precedes(q, p)}) = 0 /\ MaxPlayers \in Nat
      BY <3>3, FS_EmptySet, QueueAssumption
    <3>. QED
      BY <3>2, <3>4, <3>5 DEF NotOvertaken
  <2>3. CASE TryEnter(a)
    <3>1. a \in Clients \ online /\ (Admit(a) \/ Refuse(a))
      BY <2>3, TryEnterIs
    <3>2. a = p /\ Admit(a)
      BY <3>1 DEF Admit, Refuse
    <3>. QED
      BY <1>1, <3>1, <3>2, AdmittedInTurn
  <2>4. CASE TimeOut(a) \/ Leave(a)
    BY <2>4 DEF TimeOut, Leave
  <2>. QED
    BY <2>1, <2>2, <2>3, <2>4
<1>2. IInv /\ [Next]_vars =>
          [\A p \in Clients : p \notin online /\ p \in online' =>
              Cardinality(online') + Cardinality({q \in DOMAIN slots' : Precedes(q, p)})
                 <= MaxPlayers]_vars
  BY <1>1 DEF NotOvertaken
<1>. QED
  BY <1>2, Invariance, PTL DEF Spec, NoOvertaking

(* The place a refused client is told, and the one it has.                 *)
Place(p) == 1 + Cardinality({q \in DOMAIN slots' \ {p} : Precedes(q, p)'})
HonestTo(p) == told'[p] >= Place(p) /\ (p \in Premium => told'[p] = Place(p))

LEMMA RefusedIsTold ==
    ASSUME IInv, NEW p \in Clients, due' = {}, Refuse(p)
    PROVE  HonestTo(p)
<1> DEFINE prio == NewPrio(p)  wait == NewWait(p)
           B == {q \in DOMAIN slots' \ {p} : Precedes(q, p)'}
<1>1. /\ prio \in Seq(Premium) /\ IsInjective(prio) /\ wait \in Seq(Free) /\ IsInjective(wait)
      /\ Range(prio) = Range(Prio) \cup ({p} \cap Premium)
      /\ Range(wait) = Range(Wait) \cup ({p} \cap Free)
      /\ NewPrioSize(p) \in Int /\ NewPrioSize(p) >= Len(prio)
  BY Enlisted
<1>2. /\ DOMAIN slots' = Range(prio) \cup Range(wait)
      /\ Range(prio) \subseteq Premium /\ Range(wait) \subseteq Free /\ Premium \cap Free = {}
  <2>1. DOMAIN slots' = (Range(Prio) \cup Range(Wait)) \cup {p}
    BY Cleaned DEF Refuse, PutSlot
  <2>2. Range(prio) \subseteq Premium /\ Range(wait) \subseteq Free
    BY <1>1 DEF Range
  <2>. QED
    BY <1>1, <2>1, <2>2, QueueAssumption DEF Clients
<1>3. priority' = prio /\ waiting' = wait
  BY DEF Refuse
<1>4. told'[p] = Slot(prio, wait, NewPrioSize(p), NewWaitSize(p), p)
  BY DEF Refuse, IInv, TypeOK
<1>5. CASE p \in Premium
  <2> DEFINE A == {q \in Range(prio) : Index(prio, q) < Index(prio, p)}
  <2>1. p \in Range(prio)
    BY <1>1, <1>5
  <2>2. Index(prio, p) \in 1..Len(prio) /\ Len(prio) \in Nat
    BY <1>1, <2>1, IndexIs
  <2>3. ASSUME NEW q PROVE q \in B <=> q \in A
    BY <1>2, <1>3, <1>5, <2>1, <2>2 DEF Precedes
  <2>4. B = A
    BY <2>3
  <2>5. Cardinality(A) + 1 = Index(prio, p) /\ Cardinality(A) \in Nat
    BY <1>1, <2>1, BeforeCounts, FS_CardinalityType
  <2>6. told'[p] = Index(prio, p)
    BY <1>4, <1>5, <2>1 DEF Slot
  <2> HIDE DEF A, B, prio
  <2>7. told'[p] = 1 + Cardinality(B) /\ told'[p] \in Nat
    BY <2>4, <2>5, <2>6
  <2>. QED
    BY <2>7 DEF HonestTo, Place, B
<1>6. CASE p \notin Premium
  <2> DEFINE A == {q \in Range(wait) : Index(wait, q) < Index(wait, p)}
  <2>1. p \in Range(wait)
    BY <1>1, <1>6 DEF Clients
  <2>2. Index(wait, p) \in 1..Len(wait) /\ Len(wait) \in Nat
    BY <1>1, <2>1, IndexIs
  <2>3. ASSUME NEW q PROVE q \in B <=> q \in Range(prio) \cup A
    BY <1>2, <1>3, <1>6, <2>1, <2>2 DEF Precedes
  <2>4. B = Range(prio) \cup A /\ Range(prio) \cap A = {}
    BY <1>2, <2>3
  <2>5. IsFiniteSet(A) /\ Cardinality(A) + 1 = Index(wait, p)
    BY <1>1, <2>1, BeforeCounts
  <2>6. IsFiniteSet(Range(prio)) /\ Cardinality(Range(prio)) = Len(prio) /\ Len(prio) \in Nat
    <3>1. prio \in Seq(Premium) /\ IsInjective(prio)
      BY <1>1
    <3> HIDE DEF prio
    <3>. QED
      BY <3>1, LengthCounts
  <2>7. told'[p] = NewPrioSize(p) + Index(wait, p)
    BY <1>4, <1>6, <2>1 DEF Slot
  <2> HIDE DEF A, B, prio, wait
  <2>8. Cardinality(B) = Len(prio) + Cardinality(A) /\ Cardinality(A) \in Nat
    BY <2>4, <2>5, <2>6, DisjointUnion
  <2>9. told'[p] >= 1 + Cardinality(B)
    BY <1>1, <2>5, <2>6, <2>7, <2>8
  <2>. QED
    BY <1>6, <2>9 DEF HonestTo, Place, B
<1>. QED
  BY <1>5, <1>6

(* A client that has to wait is never told a place before its own, and one *)
(* with premium time is told its own: the counter that clientLogin gets    *)
(* wrong misleads the clients without premium time only, to the safe side. *)
THEOREM PlacesAreNotBetter == Spec => PlaceNotUnderstated
<1>1. ASSUME IInv, [Next]_vars
      PROVE  [\A p \in Clients : TryEnter(p) /\ p \notin online' => HonestTo(p)]_vars
  <2> SUFFICES ASSUME NEW p \in Clients, TryEnter(p), p \notin online' PROVE HonestTo(p)
    OBVIOUS
  <2>1. due' = {} /\ (Admit(p) \/ Refuse(p))
    BY TryEnterIs
  <2>2. Refuse(p)
    BY <2>1 DEF Admit
  <2>. QED
    BY <1>1, <2>1, <2>2, RefusedIsTold
<1>2. IInv /\ [Next]_vars =>
          [\A p \in Clients : TryEnter(p) /\ p \notin online' =>
              LET place == 1 + Cardinality({q \in DOMAIN slots' \ {p} : Precedes(q, p)'})
              IN  told'[p] >= place /\ (p \in Premium => told'[p] = place)]_vars
  BY <1>1 DEF HonestTo, Place
<1>. QED
  BY <1>2, Invariance, PTL DEF Spec, PlaceNotUnderstated

=============================================================================
