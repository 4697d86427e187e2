------------------------------ MODULE KVStoreProofs ------------------------------
(***************************************************************************)
(* Theorems about KVStore: the list and the map of the cache stay in step  *)
(* for any number of threads, and on a single thread the store implements  *)
(* the persistent map KVMap.                                               *)
(***************************************************************************)
EXTENDS KVStore, Facts, FiniteSetTheorems, TLAPS

Stored == Values \cup {Deleted}
Rows == Values \cup {None}

---------------------------------------------------------------------------
(* The list.                                                               *)

(* The rest of a sequence from l on, which may be nothing.                 *)
LEMMA SuffixOf ==
    ASSUME NEW S, NEW q \in Seq(S), NEW k \in Nat, k + 1 \in 1 .. (Len(q) + 1)
    PROVE  LET b == SubSeq(q, k + 1, Len(q))
           IN  /\ b \in Seq(S) /\ Len(b) = (Len(q) + 1) - (k + 1)
               /\ \A i \in 1 .. Len(b) : b[i] = q[k + i]
<1> DEFINE n == Len(q)  b == SubSeq(q, k + 1, n)
<1>1. n \in Nat /\ \A i \in 1 .. n : q[i] \in S
  OBVIOUS
<1>2. b = [i \in 1 .. ((n + 1) - (k + 1)) |-> q[(k + 1) + i - 1]]
  BY <1>1
<1> HIDE DEF n, b
<1>3. (n + 1) - (k + 1) \in Nat
  BY <1>1 DEF n
<1>4. \A i \in 1 .. ((n + 1) - (k + 1)) :
         k + i \in 1 .. n /\ (k + 1) + i - 1 = k + i
  BY <1>1, <1>3
<1>5. /\ b \in [1 .. ((n + 1) - (k + 1)) -> S]
      /\ \A i \in 1 .. ((n + 1) - (k + 1)) : b[i] = q[k + i]
  BY <1>1, <1>2, <1>4
<1>6. b \in Seq(S) /\ Len(b) = (n + 1) - (k + 1)
  BY <1>3, <1>5
<1>. QED
  BY <1>5, <1>6 DEF b, n

(* Removing one element of a sequence without doubles removes it for good. *)
LEMMA RangeRemoveAt ==
    ASSUME NEW S, NEW q \in Seq(S), IsInjective(q), NEW k \in 1 .. Len(q)
    PROVE  /\ RemoveAt(q, k) \in Seq(S) /\ IsInjective(RemoveAt(q, k))
           /\ Range(RemoveAt(q, k)) = Range(q) \ {q[k]}
<1> DEFINE r == RemoveAt(q, k)
<1>1. /\ Len(q) \in Nat /\ DOMAIN q = 1 .. Len(q) /\ k \in Nat
      /\ \A i \in 1 .. Len(q) : q[i] \in S
  OBVIOUS
<1> DEFINE n == Len(q)  a == SubSeq(q, 1, k - 1)  b == SubSeq(q, k + 1, n)
<1>2. a \in Seq(S) /\ Len(a) = k - 1 /\ \A i \in 1 .. (k - 1) : a[i] = q[i]
  BY <1>1
<1>3. n - k \in Nat /\ k + 1 \in 1 .. (Len(q) + 1)
  BY <1>1
<1>4. b \in Seq(S) /\ Len(b) = (Len(q) + 1) - (k + 1) /\ \A i \in 1 .. Len(b) : b[i] = q[k + i]
  BY <1>1, <1>3, SuffixOf
<1>5. r = a \o b
  BY DEF RemoveAt
<1> HIDE DEF a, b, r
<1>6. r \in Seq(S) /\ Len(r) = n - 1 /\ DOMAIN r = 1 .. (n - 1)
  <2>1. r \in Seq(S) /\ Len(r) = Len(a) + Len(b)
    <3>1. a \in Seq(S) /\ b \in Seq(S)
      BY <1>2, <1>4
    <3>. QED
      BY <1>5, <3>1
  <2>2. Len(r) = n - 1
    BY <1>1, <1>2, <1>4, <2>1
  <2>. QED
    BY <2>1, <2>2
<1>7. \A i \in 1 .. (n - 1) : r[i] = IF i < k THEN q[i] ELSE q[i + 1]
  <2> SUFFICES ASSUME NEW i \in 1 .. (n - 1) PROVE r[i] = IF i < k THEN q[i] ELSE q[i + 1]
    OBVIOUS
  <2>1. r[i] = IF i <= Len(a) THEN a[i] ELSE b[i - Len(a)]
    <3>1. a \in Seq(S) /\ b \in Seq(S) /\ i \in 1 .. (Len(a) + Len(b))
      BY <1>1, <1>2, <1>4
    <3>. QED
      BY <1>5, <3>1
  <2>2. CASE i < k
    BY <1>1, <1>2, <2>1, <2>2
  <2>3. CASE i >= k
    <3> DEFINE j == i - (k - 1)
    <3>1. j \in 1 .. Len(b) /\ k + j = i + 1 /\ r[i] = b[j]
      BY <1>1, <1>2, <1>4, <2>1, <2>3
    <3> HIDE DEF j
    <3>2. r[i] = q[i + 1]
      BY <1>4, <3>1
    <3>. QED
      BY <1>1, <2>3, <3>2
  <2>. QED
    BY <1>1, <2>2, <2>3
<1> HIDE DEF n
<1>8. IsInjective(r)
  <2>1. n \in Nat /\ DOMAIN q = 1 .. n
    BY <1>1 DEF n
  <2> SUFFICES ASSUME NEW i \in 1 .. (n - 1), NEW j \in 1 .. (n - 1), r[i] = r[j] PROVE i = j
    BY <1>6 DEF IsInjective
  <2> DEFINE at(l) == IF l < k THEN l ELSE l + 1
  <2>2. at(i) \in 1 .. n /\ at(j) \in 1 .. n /\ (at(i) = at(j) => i = j)
    BY <1>1, <2>1
  <2>3. q[at(i)] = r[i] /\ q[at(j)] = r[j]
    BY <1>7
  <2> HIDE DEF at
  <2>. QED
    BY <2>1, <2>2, <2>3 DEF IsInjective
<1>9. Range(r) \subseteq Range(q) \ {q[k]}
  BY <1>1, <1>6, <1>7 DEF IsInjective, Range, n
<1>10. ASSUME NEW i \in 1 .. n, i # k PROVE q[i] \in Range(r)
  <2>1. CASE i < k
    BY <1>1, <1>6, <1>7, <2>1 DEF Range, n
  <2>2. CASE i > k
    <3>1. i - 1 \in DOMAIN r /\ r[i - 1] = q[i]
      BY <1>1, <1>6, <1>7, <2>2 DEF n
    <3>. QED
      BY <3>1 DEF Range
  <2>. QED
    BY <1>1, <1>10, <2>1, <2>2 DEF n
<1>11. Range(q) \ {q[k]} \subseteq Range(r)
  BY <1>1, <1>10 DEF Range, n
<1>. QED
  BY <1>6, <1>8, <1>9, <1>11 DEF r

(* Removing the last element of a sequence without doubles.                *)
LEMMA RangeFront ==
    ASSUME NEW S, NEW q \in Seq(S), IsInjective(q), q # <<>>
    PROVE  /\ Front(q) \in Seq(S) /\ IsInjective(Front(q)) /\ Last(q) \in Range(q)
           /\ Range(Front(q)) = Range(q) \ {Last(q)}
<1> DEFINE r == Front(q)  n == Len(q)
<1>1. n \in Nat \ {0} /\ DOMAIN q = 1 .. n /\ Last(q) = q[n]
  BY DEF Last
<1>2. r \in Seq(S) /\ DOMAIN r = 1 .. (n - 1) /\ \A i \in 1 .. (n - 1) : r[i] = q[i]
  BY <1>1 DEF Front
<1> HIDE DEF r, n
<1>3. IsInjective(r)
  BY <1>1, <1>2 DEF IsInjective
<1>4. Range(r) = Range(q) \ {q[n]}
  BY <1>1, <1>2 DEF IsInjective, Range
<1>. QED
  BY <1>1, <1>2, <1>3, <1>4 DEF r, Range

(* One element alone.                                                      *)
LEMMA RangeSingle ==
    ASSUME NEW S, NEW e \in S
    PROVE  <<e>> \in Seq(S) /\ IsInjective(<<e>>) /\ Range(<<e>>) = {e}
BY DEF IsInjective, Range

---------------------------------------------------------------------------
(* The types.                                                              *)

(* A cache or a copy of one is a function on some of the keys.             *)
LEMMA IsEntries ==
    ASSUME NEW s PROVE s \in Entries <=> DOMAIN s \subseteq Keys /\ s \in [DOMAIN s -> Stored]
BY DEF Entries, Stored

(* What a write to the table leaves there are rows.                        *)
LEMMA WrittenIsTable ==
    ASSUME TypeOK, NEW s \in Entries, NEW K \in SUBSET DOMAIN s
    PROVE  Written(s, K) \in [Keys -> Rows]
<1>1. s \in [DOMAIN s -> Stored] /\ db \in [Keys -> Rows]
  BY IsEntries DEF TypeOK, Rows
<1>2. \A k \in K : Row(s[k]) \in Rows
  BY <1>1 DEF Row, Stored, Rows
<1>. QED
  BY <1>1, <1>2 DEF Written

(* The inductive invariant.                                                *)
IInv == TypeOK /\ ListMatchesStore /\ IsFiniteSet(Cached)

(* It holds at first.                                                      *)
LEMMA InitIInv == Init => IInv
<1> SUFFICES ASSUME Init PROVE IInv
  OBVIOUS
<1>1. NoCopy \in Entries /\ DOMAIN NoCopy = {}
  BY IsEntries DEF NoCopy, Entries
<1>2. TypeOK
  BY <1>1, StoreAssumption DEF Init, TypeOK
<1>3. Cached = {}
  BY <1>1 DEF Init, Cached
<1>4. ListMatchesStore
  BY <1>3, RangeEmpty, FS_EmptySet, StoreAssumption DEF Init, ListMatchesStore
<1>. QED
  BY <1>2, <1>3, <1>4, FS_EmptySet DEF IInv

(* The list without one of its keys.                                       *)
LEMMA OthersOf ==
    ASSUME IInv, NEW k \in Cached
    PROVE  /\ Others(k) \in Seq(Keys) /\ IsInjective(Others(k))
           /\ Range(Others(k)) = Cached \ {k} /\ k \in Keys
<1> DEFINE i == CHOOSE i \in DOMAIN lru : lru[i] = k
<1>1. lru \in Seq(Keys) /\ IsInjective(lru) /\ Range(lru) = Cached /\ store \in Entries
  BY DEF IInv, TypeOK, ListMatchesStore
<1>2. i \in DOMAIN lru /\ lru[i] = k
  BY <1>1 DEF Range
<1>3. Others(k) = RemoveAt(lru, i)
  BY DEF Others
<1> HIDE DEF i
<1>4. i \in 1 .. Len(lru) /\ k \in Keys
  BY <1>1, <1>2, IsEntries DEF Cached
<1>. QED
  BY <1>1, <1>2, <1>3, <1>4, RangeRemoveAt

(* Moving a key to either end of the list keeps it there once.             *)
LEMMA MovedList ==
    ASSUME IInv, NEW k \in Cached, NEW l \in {ToFront(k), ToBack(k)}
    PROVE  l \in Seq(Keys) /\ IsInjective(l) /\ Range(l) = Cached
<1>1. /\ Others(k) \in Seq(Keys) /\ IsInjective(Others(k))
      /\ Range(Others(k)) = Cached \ {k} /\ k \in Keys
  BY OthersOf
<1> DEFINE h == <<k>>  o == Others(k)
<1>2. h \in Seq(Keys) /\ IsInjective(h) /\ Range(h) = {k}
  BY <1>1, RangeSingle
<1>3. l = h \o o \/ l = o \o h
  BY DEF ToFront, ToBack
<1>4. o \in Seq(Keys) /\ IsInjective(o) /\ Range(o) = Cached \ {k}
  BY <1>1
<1> HIDE DEF h, o
<1>5. /\ Range(h \o o) = Range(h) \cup Range(o) /\ h \o o \in Seq(Keys)
      /\ IsInjective(h) /\ IsInjective(o) /\ Range(h) \cap Range(o) = {} => IsInjective(h \o o)
  BY <1>2, <1>4, RangeConcat
<1>6. /\ Range(o \o h) = Range(o) \cup Range(h) /\ o \o h \in Seq(Keys)
      /\ IsInjective(o) /\ IsInjective(h) /\ Range(o) \cap Range(h) = {} => IsInjective(o \o h)
  BY <1>2, <1>4, RangeConcat
<1>7. Range(h) \cap Range(o) = {} /\ Range(h) \cup Range(o) = Cached
  BY <1>2, <1>4
<1>. QED
  BY <1>2, <1>3, <1>4, <1>5, <1>6, <1>7

(* What setLocked of a new key evicts is cached, written out first, and    *)
(* makes the room that is needed.                                          *)
LEMMA EvictedIsOldest ==
    ASSUME IInv
    PROVE  /\ Evicted \subseteq Cached
           /\ IsFiniteSet(Cached \ Evicted) /\ Cardinality(Cached \ Evicted) < MaxSize
           /\ LET l == IF Evicted = {} THEN lru ELSE Front(lru)
              IN  l \in Seq(Keys) /\ IsInjective(l) /\ Range(l) = Cached \ Evicted
<1>1. /\ lru \in Seq(Keys) /\ IsInjective(lru) /\ Range(lru) = Cached /\ IsFiniteSet(Cached)
      /\ Cardinality(Cached) <= MaxSize
  BY DEF IInv, TypeOK, ListMatchesStore
<1>2. Cardinality(Cached) \in Nat /\ MaxSize \in Nat \ {0}
  BY <1>1, FS_CardinalityType, StoreAssumption
<1>3. CASE Cardinality(Cached) >= MaxSize
  <2>1. Evicted = {Last(lru)}
    BY <1>3 DEF Evicted
  <2>2. lru # <<>>
    <3>1. Cached # {}
      BY <1>2, <1>3, FS_EmptySet
    <3>. QED
      BY <1>1, <3>1, RangeEmpty
  <2>3. /\ Front(lru) \in Seq(Keys) /\ IsInjective(Front(lru)) /\ Last(lru) \in Cached
        /\ Range(Front(lru)) = Cached \ {Last(lru)}
    BY <1>1, <2>2, RangeFront
  <2>4. /\ IsFiniteSet(Cached \ {Last(lru)})
        /\ Cardinality(Cached \ {Last(lru)}) = Cardinality(Cached) - 1
    BY <1>1, <2>3, FS_RemoveElement
  <2>. QED
    BY <1>1, <1>2, <2>1, <2>3, <2>4
<1>4. CASE ~(Cardinality(Cached) >= MaxSize)
  <2>1. Evicted = {}
    BY <1>4 DEF Evicted
  <2>. QED
    BY <1>1, <1>2, <1>4, <2>1
<1>. QED
  BY <1>3, <1>4

(* setLocked keeps the cache as IInv says, and the table a table.          *)
LEMMA SetLockedKeeps ==
    ASSUME IInv, NEW k \in Keys, NEW v \in Stored, SetLocked(k, v)
    PROVE  /\ store' \in Entries /\ lru' \in Seq(Keys) /\ db' \in [Keys -> Rows]
           /\ failures' \in 0..MaxFailures
           /\ ListMatchesStore' /\ IsFiniteSet(Cached)'
<1>1. /\ store \in Entries /\ store \in [Cached -> Stored] /\ Cached \subseteq Keys
      /\ db \in [Keys -> Rows] /\ IsFiniteSet(Cached) /\ ListMatchesStore /\ TypeOK
      /\ failures \in 0..MaxFailures
  BY IsEntries DEF IInv, TypeOK, Cached, Rows
<1>2. CASE k \in Cached
  <2>1. store' = [store EXCEPT ![k] = v] /\ lru' = ToFront(k) /\ db' = db /\ failures' = failures
    BY <1>2 DEF SetLocked, Update
  <2>2. store' \in [Cached -> Stored] /\ Cached' = Cached
    BY <1>1, <2>1 DEF Cached
  <2>3. lru' \in Seq(Keys) /\ IsInjective(lru') /\ Range(lru') = Cached
    BY <1>2, <2>1, MovedList
  <2>4. store' \in Entries
    BY <1>1, <2>2, IsEntries DEF Cached
  <2>. QED
    BY <1>1, <2>1, <2>2, <2>3, <2>4 DEF ListMatchesStore
<1>3. CASE k \notin Cached
  <2> DEFINE K == Cached \ Evicted  l == IF Evicted = {} THEN lru ELSE Front(lru)
  <2>1. /\ store' = [j \in K \cup {k} |-> IF j = k THEN v ELSE store[j]]
        /\ lru' = <<k>> \o l /\ SaveEvicted
    BY <1>3 DEF SetLocked, Insert
  <2>2. /\ Evicted \subseteq Cached /\ IsFiniteSet(K) /\ Cardinality(K) < MaxSize
        /\ l \in Seq(Keys) /\ IsInjective(l) /\ Range(l) = K
    BY EvictedIsOldest
  <2>3. db' \in [Keys -> Rows] /\ failures' \in 0..MaxFailures
    <3>1. Written(store, Evicted) \in [Keys -> Rows]
      BY <1>1, <2>2, WrittenIsTable DEF Cached
    <3>. QED
      BY <1>1, <2>1, <3>1, StoreAssumption DEF SaveEvicted
  <2> HIDE DEF K, l
  <2>4. K \subseteq Cached /\ k \notin K
    BY <1>3 DEF K
  <2>5. store' \in [K \cup {k} -> Stored] /\ Cached' = K \cup {k}
    BY <1>1, <2>1, <2>4 DEF Cached
  <2>6. store' \in Entries
    BY <1>1, <2>4, <2>5, IsEntries DEF Cached
  <2>7. <<k>> \in Seq(Keys) /\ IsInjective(<<k>>) /\ Range(<<k>>) = {k}
    BY RangeSingle
  <2>8. lru' \in Seq(Keys) /\ IsInjective(lru') /\ Range(lru') = K \cup {k}
    <3> DEFINE h == <<k>>
    <3>1. /\ Range(h \o l) = Range(h) \cup Range(l)
          /\ IsInjective(h) /\ IsInjective(l) /\ Range(h) \cap Range(l) = {}
               => IsInjective(h \o l)
      <4>1. h \in Seq(Keys) /\ l \in Seq(Keys)
        BY <2>2, <2>7
      <4> HIDE DEF h
      <4>. QED
        BY <4>1, RangeConcat
    <3>2. <<k>> \o l \in Seq(Keys)
      BY <2>2, <2>7
    <3>. QED
      BY <2>1, <2>2, <2>4, <2>7, <3>1, <3>2
  <2>9. IsFiniteSet(K \cup {k}) /\ Cardinality(K \cup {k}) <= MaxSize
    <3>1. /\ IsFiniteSet(K \cup {k}) /\ Cardinality(K \cup {k}) = Cardinality(K) + 1
          /\ Cardinality(K) \in Nat
      BY <2>2, <2>4, FS_AddElement, FS_CardinalityType
    <3>. QED
      BY <2>2, <3>1, StoreAssumption
  <2>. QED
    BY <2>3, <2>5, <2>6, <2>8, <2>9 DEF ListMatchesStore
<1>. QED
  BY <1>2, <1>3

---------------------------------------------------------------------------
(* The steps.                                                              *)

(* A call of set, remove or get sets a key, moves one in the list, or      *)
(* changes nothing but the answer.                                         *)
LEMMA CallCases ==
    ASSUME IInv, NEW k \in Keys, Call(k)
    PROVE  /\ copy' = copy /\ answer' \in Rows
           /\ \/ \E v \in Stored : SetLocked(k, v)
              \/ UNCHANGED <<store, lru, db, failures>>
              \/ k \in Cached /\ lru' \in {ToFront(k), ToBack(k)} /\ UNCHANGED <<store, db, failures>>
<1>1. /\ db \in [Keys -> Rows] /\ store \in [Cached -> Stored] /\ answer \in Rows
  BY IsEntries DEF IInv, TypeOK, Rows, Cached
<1>2. CASE Load(k)
  <2>1. answer' = db[k] /\ copy' = copy /\ db[k] \in Rows
    BY <1>1, <1>2 DEF Load
  <2>2. CASE db[k] = None
    BY <1>2, <2>1, <2>2 DEF Load
  <2>3. CASE db[k] # None
    <3>1. SetLocked(k, db[k]) /\ db[k] \in Stored
      BY <1>2, <2>1, <2>3 DEF Load, Rows, Stored
    <3>. QED
      BY <2>1, <3>1
  <2>. QED
    BY <2>2, <2>3
<1>3. CASE GetCached(k)
  <2>1. Row(store[k]) \in Rows
    BY <1>1, <1>3 DEF GetCached, Row, Rows, Stored
  <2>. QED
    BY <1>3, <2>1 DEF GetCached
<1>4. ASSUME NEW v \in Stored, SetKey(k, v) PROVE SetLocked(k, v) /\ UNCHANGED <<copy, answer>>
  BY <1>4 DEF SetKey
<1>5. \/ Load(k) \/ GetCached(k)
      \/ \E v \in Stored : SetKey(k, v)
  BY DEF Call, Get, ForceGet, Stored
<1>. QED
  BY <1>1, <1>2, <1>3, <1>4, <1>5

(* Calls keep IInv.                                                        *)
LEMMA CallStep == ASSUME IInv, NEW k \in Keys, Call(k) PROVE IInv'
<1>1. copy' \in [Savers -> Entries] /\ answer' \in Rows
  BY CallCases DEF IInv, TypeOK
<1>2. CASE \E v \in Stored : SetLocked(k, v)
  BY <1>1, <1>2, SetLockedKeeps DEF IInv, TypeOK, Rows
<1>3. CASE UNCHANGED <<store, lru, db, failures>>
  BY <1>1, <1>3 DEF IInv, TypeOK, ListMatchesStore, Cached, Rows
<1>4. CASE k \in Cached /\ lru' \in {ToFront(k), ToBack(k)} /\ UNCHANGED <<store, db, failures>>
  <2>1. lru' \in Seq(Keys) /\ IsInjective(lru') /\ Range(lru') = Cached
    BY <1>4, MovedList
  <2>. QED
    BY <1>1, <1>4, <2>1 DEF IInv, TypeOK, ListMatchesStore, Cached, Rows
<1>. QED
  BY <1>2, <1>3, <1>4, CallCases

(* The steps of saveAll: the copy is taken, or part of it written.         *)
LEMMA SaveCases ==
    ASSUME IInv, NEW t \in Savers, CopyStore(t) \/ WriteCopy(t) \/ WriteCopyFails(t)
    PROVE  /\ UNCHANGED <<store, lru, answer>> /\ failures' \in 0..MaxFailures
           /\ \/ copy' = [copy EXCEPT ![t] = store] /\ db' = db
              \/ /\ copy' = [copy EXCEPT ![t] = NoCopy]
                 /\ \E K \in SUBSET DOMAIN copy[t] : db' = Written(copy[t], K)
<1>0. failures \in 0..MaxFailures
  BY DEF IInv, TypeOK
<1>1. CASE CopyStore(t)
  BY <1>0, <1>1 DEF CopyStore
<1>2. CASE WriteCopy(t)
  BY <1>0, <1>2 DEF WriteCopy
<1>3. CASE WriteCopyFails(t)
  BY <1>0, <1>3, StoreAssumption DEF WriteCopyFails
<1>. QED
  BY <1>1, <1>2, <1>3

(* They keep IInv.                                                         *)
LEMMA SaveStep ==
    ASSUME IInv, NEW t \in Savers, CopyStore(t) \/ WriteCopy(t) \/ WriteCopyFails(t)
    PROVE  IInv'
<1>1. /\ store \in Entries /\ db \in [Keys -> Rows] /\ copy \in [Savers -> Entries]
      /\ copy[t] \in Entries /\ TypeOK
  BY DEF IInv, TypeOK, Rows
<1>2. NoCopy \in Entries
  BY DEF NoCopy, Entries
<1>3. db' \in [Keys -> Rows]
  BY <1>1, SaveCases, WrittenIsTable
<1>4. copy' \in [Savers -> Entries]
  BY <1>1, <1>2, SaveCases
<1>5. UNCHANGED <<store, lru, answer>> /\ failures' \in 0..MaxFailures
  BY SaveCases
<1>. QED
  BY <1>3, <1>4, <1>5 DEF IInv, TypeOK, ListMatchesStore, Cached, Rows

(* Every step keeps IInv.                                                  *)
LEMMA StepIInv == IInv /\ [Next]_vars => IInv'
<1> SUFFICES ASSUME IInv, [Next]_vars PROVE IInv'
  OBVIOUS
<1>1. CASE UNCHANGED vars
  BY <1>1 DEF vars, IInv, TypeOK, ListMatchesStore, Cached
<1>2. CASE Next
  BY <1>2, CallStep, SaveStep DEF Next
<1>. QED
  BY <1>1, <1>2

(* The inductive invariant.                                                *)
THEOREM Invariant == Spec => []IInv
BY InitIInv, StepIInv, PTL DEF Spec

(* The variables keep their types.                                         *)
THEOREM TypeCorrect == Spec => []TypeOK
<1>1. IInv => TypeOK
  BY DEF IInv
<1>. QED
  BY <1>1, Invariant, PTL

(* For any number of threads: each cached key is once in the list, nothing *)
(* else is, and the cache keeps to MAX_SIZE.                               *)
THEOREM ListIsStore == Spec => []ListMatchesStore
<1>1. IInv => ListMatchesStore
  BY DEF IInv
<1>. QED
  BY <1>1, Invariant, PTL

---------------------------------------------------------------------------
(* On one thread.                                                          *)

(* saveAll runs on the thread that uses the store, as it does unless       *)
(* toggleSaveAsync is set.                                                 *)
SingleThread == \E t : Users = {t} /\ Savers = {t}

(* The copy that is being saved is the cache.                              *)
CopyInv == \A t \in Savers : Saving(t) => copy[t] = store

(* It is so at first.                                                      *)
LEMMA InitCopyInv == Init => CopyInv
BY DEF Init, CopyInv, Saving, NoCopy

(* It stays so on one thread, which makes no calls while it saves.         *)
LEMMA StepCopyInv ==
    ASSUME SingleThread, IInv, CopyInv, [Next]_vars
    PROVE  CopyInv'
<1> PICK t : Users = {t} /\ Savers = {t}
  BY DEF SingleThread
<1>1. CASE UNCHANGED vars
  BY <1>1 DEF vars, CopyInv, Saving
<1>2. ASSUME NEW k \in Keys, ~Saving(t), Call(k) PROVE CopyInv'
  BY <1>2, CallCases DEF CopyInv, Saving
<1>3. CASE CopyStore(t) \/ WriteCopy(t) \/ WriteCopyFails(t)
  <2>1. copy \in [Savers -> Entries] /\ DOMAIN NoCopy = {} /\ t \in Savers
    BY DEF IInv, TypeOK, NoCopy
  <2>2. store' = store /\ (copy' = [copy EXCEPT ![t] = store] \/ copy' = [copy EXCEPT ![t] = NoCopy])
    BY <1>3, <2>1, SaveCases
  <2>3. copy'[t] = store' \/ copy'[t] = NoCopy
    BY <2>1, <2>2
  <2>. QED
    BY <2>1, <2>3 DEF CopyInv, Saving
<1>. QED
  BY <1>1, <1>2, <1>3 DEF Next

(* Both hold throughout.                                                   *)
THEOREM SingleInvariant == ASSUME SingleThread PROVE Spec => [](IInv /\ CopyInv)
<1>1. Init => IInv /\ CopyInv
  BY InitIInv, InitCopyInv
<1>2. (IInv /\ CopyInv) /\ [Next]_vars => (IInv /\ CopyInv)'
  BY StepIInv, StepCopyInv
<1>. QED
  BY <1>1, <1>2, PTL DEF Spec

---------------------------------------------------------------------------
(* The map that callers see.                                               *)

(* What is written of the cache is what callers see already.               *)
LEMMA WrittenIsVisible ==
    ASSUME IInv, NEW K \in SUBSET Cached, db' = Written(store, K)
    PROVE  /\ K \subseteq Keys /\ Promise!Persist(Visible, K)
           /\ \A k \in Cached : Row(store[k]) = Visible[k]
<1>1. Cached \subseteq Keys
  BY IsEntries DEF IInv, TypeOK, Cached
<1>2. \A k \in Cached : Row(store[k]) = Visible[k]
  BY <1>1 DEF Visible
<1>3. Written(store, K) = [k \in Keys |-> IF k \in K THEN Visible[k] ELSE db[k]]
  BY <1>2 DEF Written
<1>. QED
  BY <1>1, <1>2, <1>3 DEF Promise!Persist

(* Saving some of the cache keeps what they see.                           *)
LEMMA SavingIsSeen ==
    ASSUME IInv, NEW K \in SUBSET Cached, db' = Written(store, K), store' = store
    PROVE  Visible' = Visible /\ (K = Cached => db' = Visible')
<1>1. Cached \subseteq Keys /\ Cached' = Cached
  BY IsEntries DEF IInv, TypeOK, Cached
<1>2. Visible' = [k \in Keys |-> IF k \in Cached THEN Row(store[k]) ELSE db'[k]]
  BY <1>1 DEF Visible
<1>3. \A k \in Keys : db'[k] = IF k \in K THEN Row(store[k]) ELSE db[k]
  BY DEF Written
<1>4. Visible' = Visible
  BY <1>2, <1>3 DEF Visible
<1>5. ASSUME K = Cached PROVE db' = Visible'
  <2>1. db' = [k \in Keys |-> IF k \in Cached THEN Row(store[k]) ELSE db[k]]
    BY <1>5 DEF Written
  <2>2. \A k \in Keys : k \notin Cached => db'[k] = db[k]
    BY <2>1
  <2>. QED
    BY <1>2, <2>1, <2>2
<1>. QED
  BY <1>4, <1>5

(* setLocked changes what they see of its key, and writes what leaves the  *)
(* cache as they see it, unless that write fails.                          *)
LEMMA SetLockedIsPut ==
    ASSUME IInv, NEW k \in Keys, NEW v \in Stored, SetLocked(k, v)
    PROVE  Promise!Becomes(k, [Visible EXCEPT ![k] = Row(v)])
<1>1. /\ Cached \subseteq Keys /\ db \in [Keys -> Rows] /\ store \in [Cached -> Stored]
  BY IsEntries DEF IInv, TypeOK, Cached, Rows
<1>2. Visible' = [j \in Keys |-> IF j \in DOMAIN store' THEN Row(store'[j]) ELSE db'[j]]
  BY DEF Visible, Cached
<1>3. CASE k \in Cached
  <2>1. store' = [store EXCEPT ![k] = v] /\ db' = db /\ failures' = failures
    BY <1>3 DEF SetLocked, Update
  <2>2. DOMAIN store' = Cached /\ \A j \in Cached : store'[j] = IF j = k THEN v ELSE store[j]
    BY <1>1, <2>1
  <2>3. Visible' = [Visible EXCEPT ![k] = Row(v)]
    BY <1>2, <1>3, <2>1, <2>2 DEF Visible
  <2>4. Promise!Persist(Visible, {})
    BY <1>1, <2>1 DEF Promise!Persist
  <2>. QED
    BY <2>1, <2>3, <2>4 DEF Promise!Becomes, Promise!Kept
<1>4. CASE k \notin Cached
  <2> DEFINE K == Cached \ Evicted
  <2>1. store' = [j \in K \cup {k} |-> IF j = k THEN v ELSE store[j]] /\ SaveEvicted
    BY <1>4 DEF SetLocked, Insert
  <2>2. Evicted \subseteq Cached
    BY EvictedIsOldest
  <2>3. DOMAIN store' = K \cup {k}
    BY <2>1
  <2>4. ASSUME NEW j \in Keys
        PROVE  Visible'[j] = IF j = k THEN Row(v) ELSE IF j \in K THEN Visible[j] ELSE db'[j]
    BY <1>2, <2>1, <2>3 DEF Visible
  <2>5. \A j \in Keys \ Cached : Visible[j] = db[j]
    BY DEF Visible
  <2> HIDE DEF K
  <2>6. CASE db' = Written(store, Evicted) /\ failures' = failures
    <3>1. Evicted \subseteq Keys \ {k} /\ Promise!Persist(Visible, Evicted)
      BY <1>1, <1>4, <2>2, <2>6, WrittenIsVisible
    <3>2. \A j \in Keys : db'[j] = IF j \in Evicted THEN Visible[j] ELSE db[j]
      BY <3>1 DEF Promise!Persist
    <3>3. \A j \in Keys \ {k} : Visible'[j] = Visible[j]
      BY <2>4, <2>5, <3>2 DEF K
    <3>4. Visible' = [Visible EXCEPT ![k] = Row(v)]
      BY <1>2, <2>4, <3>3 DEF Visible
    <3>. QED
      BY <2>6, <3>1, <3>4 DEF Promise!Becomes, Promise!Kept
  <2>7. CASE Evicted # {} /\ failures' = failures + 1 /\ db' = db
    <3>1. PICK l : Evicted = {l}
      BY <2>7 DEF Evicted
    <3>2. l \in Keys \ {k}
      BY <1>1, <1>4, <2>2, <3>1
    <3>3. \A j \in Keys : Visible'[j] = IF j = k THEN Row(v) ELSE IF j = l THEN db[l] ELSE Visible[j]
      BY <2>4, <2>5, <2>7, <3>1, <3>2 DEF K
    <3>4. Visible' = [[Visible EXCEPT ![k] = Row(v)] EXCEPT ![l] = db[l]]
      BY <1>2, <3>2, <3>3 DEF Visible
    <3>. QED
      BY <2>7, <3>2, <3>4 DEF Promise!Becomes, Promise!LostOne
  <2>. QED
    BY <2>1, <2>6, <2>7 DEF SaveEvicted
<1>. QED
  BY <1>3, <1>4

(* Nothing written is a table written.                                     *)
LEMMA PersistNothing == ASSUME IInv, db' = db PROVE \A m : Promise!Persist(m, {})
BY DEF IInv, TypeOK, Promise!Persist

(* A call is one of KVMap.                                                 *)
LEMMA CallIsPromised == ASSUME IInv, NEW k \in Keys, Call(k) PROVE Promise!Next
<1>1. db \in [Keys -> Rows] /\ store \in [Cached -> Stored] /\ Cached \subseteq Keys
  BY IsEntries DEF IInv, TypeOK, Rows, Cached
<1>2. ASSUME NEW v \in Values \cup {Deleted}, SetKey(k, v) PROVE Promise!Next
  <2>1. Row(v) \in Values \cup {None}
    BY DEF Row
  <2>2. SetLocked(k, v) /\ answer' = answer /\ v \in Stored
    BY <1>2 DEF SetKey, Stored
  <2>3. Promise!Put(k, Row(v))
    BY <2>2, SetLockedIsPut DEF Promise!Put
  <2>. QED
    BY <2>1, <2>3 DEF Promise!Next
<1>3. CASE Load(k)
  <2>1. answer' = db[k] /\ db[k] \in Rows
    BY <1>1, <1>3 DEF Load
  <2>2. CASE db[k] = None
    <3>1. db' = db /\ store' = store /\ failures' = failures
      BY <1>3, <2>2 DEF Load
    <3>2. Visible' = Visible
      BY <3>1 DEF Visible, Cached
    <3>3. Promise!Reload(k)
      BY <2>1, <2>2, <3>1, <3>2, PersistNothing DEF Promise!Reload, Promise!Becomes, Promise!Kept
    <3>. QED
      BY <3>3 DEF Promise!Next
  <2>3. CASE db[k] # None
    <3>1. SetLocked(k, db[k]) /\ db[k] \in Stored /\ Row(db[k]) = db[k]
      BY <1>3, <2>1, <2>3, StoreAssumption DEF Load, Rows, Stored, Row
    <3>2. Promise!Reload(k)
      BY <2>1, <2>3, <3>1, SetLockedIsPut DEF Promise!Reload
    <3>. QED
      BY <3>2 DEF Promise!Next
  <2>. QED
    BY <2>2, <2>3
<1>4. CASE GetCached(k)
  <2>1. /\ k \in Cached /\ answer' = Row(store[k])
        /\ UNCHANGED <<store, db, failures>>
    BY <1>4 DEF GetCached
  <2>2. Visible' = Visible /\ answer' = Visible[k]
    BY <2>1 DEF Visible, Cached
  <2>3. Promise!Read(k)
    BY <2>1, <2>2 DEF Promise!Read
  <2>. QED
    BY <2>3 DEF Promise!Next
<1>. QED
  BY <1>2, <1>3, <1>4 DEF Call, Get, ForceGet

(* A step of saveAll saves what callers see, or is none of theirs.         *)
LEMMA SaveIsPromised ==
    ASSUME IInv, CopyInv, NEW t \in Savers,
           CopyStore(t) \/ WriteCopy(t) \/ WriteCopyFails(t)
    PROVE  Promise!Save \/ UNCHANGED <<Visible, db, answer, failures>>
<1>1. CASE CopyStore(t)
  BY <1>1 DEF CopyStore, Visible, Cached
<1>2. CASE WriteCopy(t) \/ WriteCopyFails(t)
  <2>1. copy[t] = store
    BY <1>2 DEF CopyInv, WriteCopy, WriteCopyFails
  <2>2. PICK K \in SUBSET Cached : db' = Written(store, K)
    BY <1>2, <2>1 DEF WriteCopy, WriteCopyFails, Cached
  <2>3. store' = store /\ answer' = answer /\ failures' \in {failures, failures + 1}
    BY <1>2 DEF WriteCopy, WriteCopyFails
  <2>. QED
    BY <2>2, <2>3, WrittenIsVisible, SavingIsSeen DEF Promise!Save
<1>. QED
  BY <1>1, <1>2

(* Every step on one thread is one of KVMap, or none of its.               *)
LEMMA StepIsPromised ==
    ASSUME IInv, CopyInv, [Next]_vars
    PROVE  [Promise!Next]_<<Visible, db, answer, failures>>
<1>1. CASE UNCHANGED vars
  BY <1>1 DEF vars, Visible, Cached
<1>2. ASSUME NEW k \in Keys, Call(k) PROVE Promise!Next
  BY <1>2, CallIsPromised
<1>3. ASSUME NEW t \in Savers, CopyStore(t) \/ WriteCopy(t) \/ WriteCopyFails(t)
      PROVE  Promise!Save \/ UNCHANGED <<Visible, db, answer, failures>>
  BY <1>3, SaveIsPromised
<1>. QED
  BY <1>1, <1>2, <1>3 DEF Next, Promise!Next

(* The cache is invisible: on one thread, with any number of keys and any  *)
(* size, through evictions, removals, forced loads and failing writes the  *)
(* store is the map KVMap.                                                 *)
THEOREM StoreImplementsMap == ASSUME SingleThread PROVE Spec => ImplementsMap
<1>1. Init => Promise!Init
  <2> SUFFICES ASSUME Init PROVE Promise!Init
    OBVIOUS
  <2>1. Cached = {} /\ db \in [Keys -> Values \cup {None}] /\ answer = None /\ failures = 0
    BY DEF Init, Cached, NoCopy
  <2>2. Visible = db
    BY <2>1 DEF Visible
  <2>. QED
    BY <2>1, <2>2 DEF Promise!Init
<1>2. IInv /\ CopyInv /\ [Next]_vars => [Promise!Next]_<<Visible, db, answer, failures>>
  BY StepIsPromised
<1>. QED
  BY <1>1, <1>2, SingleInvariant, PTL DEF Spec, ImplementsMap, Promise!Spec

(* A saveAll that succeeds leaves nothing in the cache that the table does *)
(* not answer the same.                                                    *)
THEOREM SavedIsAll == ASSUME SingleThread PROVE Spec => SaveAllPersists
<1>1. ASSUME IInv, CopyInv, NEW t \in Savers, WriteCopy(t) PROVE db' = Visible'
  <2>1. copy[t] = store /\ db' = Written(store, Cached) /\ store' = store
    BY <1>1 DEF CopyInv, WriteCopy, Cached
  <2>. QED
    BY <1>1, <2>1, SavingIsSeen
<1>2. IInv /\ CopyInv /\ [Next]_vars => [\A t \in Savers : WriteCopy(t) => db' = Visible']_vars
  BY <1>1
<1>. QED
  BY <1>2, SingleInvariant, PTL DEF Spec, SaveAllPersists

=============================================================================
