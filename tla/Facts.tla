---------------------------------- MODULE Facts ----------------------------------
(***************************************************************************)
(* Facts about data that the proofs about several components use: the      *)
(* elements of sequences, induction, and sums over finite sets.            *)
(***************************************************************************)
EXTENDS Integers, Sequences, Functions, FiniteSetTheorems, WellFoundedInduction, TLAPS

---------------------------------------------------------------------------
(* What the queue operations do to the set of elements of a sequence.      *)

(* The empty sequence holds nothing.                                       *)
LEMMA RangeEmpty == Range(<<>>) = {} /\ IsInjective(<<>>)
BY DEF Range, IsInjective

(* An element appended is the only one added, and it repeats none if it    *)
(* was not there.                                                          *)
LEMMA RangeAppend ==
    ASSUME NEW S, NEW q \in Seq(S), NEW e \in S
    PROVE  /\ Range(Append(q, e)) = Range(q) \cup {e}
           /\ IsInjective(q) /\ e \notin Range(q) => IsInjective(Append(q, e))
<1> DEFINE r == Append(q, e)
<1>1. /\ DOMAIN r = 1..(Len(q) + 1) /\ DOMAIN q = 1..Len(q) /\ Len(q) \in Nat
      /\ \A i \in 1..Len(q) : r[i] = q[i]
      /\ r[Len(q) + 1] = e
  OBVIOUS
<1> HIDE DEF r
<1>2. Range(r) = Range(q) \cup {e}
  BY <1>1 DEF Range
<1>3. ASSUME IsInjective(q), e \notin Range(q) PROVE IsInjective(r)
  BY <1>1, <1>3 DEF IsInjective, Range
<1>. QED
  BY <1>2, <1>3 DEF r

(* A concatenation holds what its parts hold, each element once if the     *)
(* parts are injective and share none.                                     *)
LEMMA RangeConcat ==
    ASSUME NEW S, NEW q \in Seq(S), NEW r \in Seq(S)
    PROVE  /\ Range(q \o r) = Range(q) \cup Range(r)
           /\ IsInjective(q) /\ IsInjective(r) /\ Range(q) \cap Range(r) = {}
                => IsInjective(q \o r)
<1> DEFINE c == q \o r
<1>1. /\ DOMAIN c = 1..(Len(q) + Len(r)) /\ Len(q) \in Nat /\ Len(r) \in Nat
      /\ DOMAIN q = 1..Len(q) /\ DOMAIN r = 1..Len(r)
      /\ \A i \in 1..Len(q) : c[i] = q[i]
      /\ \A i \in DOMAIN c \ (1..Len(q)) : c[i] = r[i - Len(q)]
  OBVIOUS
<1>2. \A i \in DOMAIN r : i + Len(q) \in DOMAIN c /\ c[i + Len(q)] = r[i]
  OBVIOUS
<1> HIDE DEF c
<1>3. Range(c) \subseteq Range(q) \cup Range(r)
  BY <1>1 DEF Range
<1>4. Range(q) \cup Range(r) \subseteq Range(c)
  BY <1>1, <1>2 DEF Range
<1>5. ASSUME IsInjective(q), IsInjective(r), Range(q) \cap Range(r) = {}
      PROVE  IsInjective(c)
  <2> SUFFICES ASSUME NEW i \in DOMAIN c, NEW j \in DOMAIN c, c[i] = c[j] PROVE i = j
    BY DEF IsInjective
  <2>1. CASE i \in 1..Len(q) /\ j \in 1..Len(q)
    BY <1>1, <1>5, <2>1 DEF IsInjective
  <2>2. CASE i \notin 1..Len(q) /\ j \notin 1..Len(q)
    <3>1. i - Len(q) \in DOMAIN r /\ j - Len(q) \in DOMAIN r
      BY <1>1, <2>2
    <3>. QED
      BY <1>1, <1>5, <2>2, <3>1 DEF IsInjective
  <2>3. ASSUME NEW k \in DOMAIN c, NEW l \in DOMAIN c,
               k \in 1..Len(q), l \notin 1..Len(q)
        PROVE  c[k] # c[l]
    <3>1. l - Len(q) \in DOMAIN r
      BY <1>1, <2>3
    <3>2. c[k] \in Range(q) /\ c[l] \in Range(r)
      BY <1>1, <2>3, <3>1 DEF Range
    <3>. QED
      BY <1>5, <3>2
  <2>. QED
    BY <2>1, <2>2, <2>3
<1>. QED
  BY <1>3, <1>4, <1>5 DEF c

(* A sequence holds its head and what its tail holds.                      *)
LEMMA RangeTail ==
    ASSUME NEW S, NEW q \in Seq(S), q # <<>>
    PROVE  /\ Head(q) \in S /\ Tail(q) \in Seq(S)
           /\ Range(q) = {Head(q)} \cup Range(Tail(q))
           /\ IsInjective(q) => IsInjective(Tail(q)) /\ Head(q) \notin Range(Tail(q))
<1> DEFINE r == Tail(q)
<1>1. Head(q) \in S /\ r \in Seq(S)
  OBVIOUS
<1>2. /\ DOMAIN r = 1..(Len(q) - 1) /\ DOMAIN q = 1..Len(q) /\ Len(q) \in Nat \ {0}
      /\ \A i \in DOMAIN r : r[i] = q[i + 1]
      /\ Head(q) = q[1]
  OBVIOUS
<1> HIDE DEF r
<1>3. \A i \in DOMAIN q \ {1} : i - 1 \in DOMAIN r /\ r[i - 1] = q[i]
  BY <1>2
<1>4. Range(q) = {Head(q)} \cup Range(r)
  <2>1. Range(q) \subseteq {Head(q)} \cup Range(r)
    BY <1>2, <1>3 DEF Range
  <2>2. {Head(q)} \cup Range(r) \subseteq Range(q)
    BY <1>2 DEF Range
  <2>. QED
    BY <2>1, <2>2
<1>5. ASSUME IsInjective(q) PROVE IsInjective(r) /\ Head(q) \notin Range(r)
  BY <1>2, <1>5 DEF IsInjective, Range
<1>. QED
  BY <1>1, <1>4, <1>5 DEF r

---------------------------------------------------------------------------
(* Induction.                                                              *)

(* Induction over the natural numbers: T is the set of those for which the *)
(* claim holds.  An operator in its place could not be instantiated.       *)
LEMMA SetOfNat ==
    ASSUME NEW T, 0 \in T, \A n \in Nat : n \in T => n + 1 \in T
    PROVE  Nat \subseteq T
<1> DEFINE Bad == Nat \ T
           Below == {0 .. n : n \in Bad}
<1> SUFFICES ASSUME Bad # {} PROVE FALSE
  OBVIOUS
<1>1. \A n \in Nat : 0 .. n \in FiniteSubsetsOf(Nat)
  BY FS_Interval DEF FiniteSubsetsOf
<1>2. Below \subseteq FiniteSubsetsOf(Nat) /\ Below # {}
  BY <1>1
<1> HIDE DEF Below
<1>3. PICK b \in Below : \A c \in Below : <<c, b>> \notin StrictSubsetOrdering(Nat)
  BY <1>2, WFMin, FS_StrictSubsetOrderingWellFounded
<1>4. PICK n \in Bad : b = 0 .. n
  BY DEF Below
<1>5. n - 1 \in Nat /\ n - 1 \in T => n \in T
  BY <1>4
<1>6. n # 0
  OBVIOUS
<1>7. n - 1 \in Bad
  BY <1>5, <1>6
<1>8. 0 .. (n - 1) \in Below
  BY <1>7 DEF Below
<1>9. <<0 .. (n - 1), b>> \in StrictSubsetOrdering(Nat)
  BY <1>4, <1>7 DEF StrictSubsetOrdering
<1>. QED
  BY <1>3, <1>8, <1>9

(* Induction over the subsets of a finite set.                             *)
LEMMA SetOfSubsets ==
    ASSUME NEW S, IsFiniteSet(S), NEW T, {} \in T,
           \A A \in SUBSET S : \A x \in S \ A : A \in T => A \cup {x} \in T
    PROVE  S \in T
<1> DEFINE Bad == {A \in SUBSET S : A \notin T}
<1> SUFFICES ASSUME S \notin T PROVE FALSE
  OBVIOUS
<1>1. Bad \subseteq FiniteSubsetsOf(S) /\ Bad # {}
  BY FS_FiniteSubsetsOfFinite
<1>2. PICK A \in Bad : \A B \in Bad : <<B, A>> \notin StrictSubsetOrdering(S)
  <2> HIDE DEF Bad
  <2>. QED
    BY <1>1, WFMin, FS_StrictSubsetOrderingWellFounded
<1>3. PICK x \in A : TRUE
  OBVIOUS
<1>4. A \ {x} \in SUBSET S /\ x \in S \ (A \ {x}) /\ (A \ {x}) \cup {x} = A
  BY <1>3
<1>5. <<A \ {x}, A>> \in StrictSubsetOrdering(S)
  BY <1>3 DEF StrictSubsetOrdering
<1>6. A \ {x} \in T
  BY <1>2, <1>4, <1>5
<1>. QED
  BY <1>4, <1>6

---------------------------------------------------------------------------
(* Sums.                                                                   *)

(* SumFunctionOnSet takes the summands one by one, in an order it chooses. *)
Chosen(s) == CHOOSE x \in s : TRUE
SumStep(f, g, s) == IF s = {} THEN 0 ELSE f[Chosen(s)] + g[s \ {Chosen(s)}]
SumsUp(g, f, S) == g = [s \in SUBSET S |-> SumStep(f, g, s)]

(* The definition of the library, unfolded.                                *)
LEMMA SumUnfolds ==
    ASSUME NEW f, NEW S
    PROVE  SumFunctionOnSet(f, S) = (CHOOSE g : SumsUp(g, f, S))[S]
BY DEF SumFunctionOnSet, FoldFunctionOnSet, MapThenFoldSet, SumsUp, SumStep, Chosen

(* That order exists for every finite set.                                 *)
LEMMA SumExists ==
    ASSUME NEW f, NEW S, IsFiniteSet(S)
    PROVE  \E g : SumsUp(g, f, S)
<1> DEFINE Upto(g, n) == \A s \in SUBSET S : Cardinality(s) <= n => g[s] = SumStep(f, g, s)
           T == {n \in Nat : \E g : Upto(g, n)}
<1>0. \A s \in SUBSET S : /\ IsFiniteSet(s) /\ Cardinality(s) \in Nat
                          /\ Cardinality(s) <= Cardinality(S)
                          /\ s # {} => /\ Chosen(s) \in s
                                       /\ s \ {Chosen(s)} \in SUBSET S
                                       /\ Cardinality(s \ {Chosen(s)}) = Cardinality(s) - 1
                          /\ Cardinality(s) = 0 <=> s = {}
  BY FS_Subset, FS_CardinalityType, FS_RemoveElement, FS_EmptySet DEF Chosen
<1>1. 0 \in T
  <2> DEFINE g == [s \in SUBSET S |-> 0]
  <2>1. ASSUME NEW s \in SUBSET S, Cardinality(s) <= 0 PROVE s = {}
    <3>1. Cardinality(s) \in Nat /\ (Cardinality(s) = 0 <=> s = {})
      BY <1>0
    <3>. QED
      BY <2>1, <3>1
  <2>2. Upto(g, 0)
    BY <2>1 DEF SumStep
  <2>. QED
    BY <2>2
<1>2. ASSUME NEW n \in Nat, n \in T PROVE n + 1 \in T
  <2>1. PICK g : Upto(g, n)
    BY <1>2
  <2> DEFINE h == [s \in SUBSET S |-> IF Cardinality(s) <= n THEN g[s] ELSE SumStep(f, g, s)]
  <2>2. ASSUME NEW s \in SUBSET S, Cardinality(s) <= n + 1 PROVE h[s] = SumStep(f, h, s)
    <3>1. h[s] = SumStep(f, g, s)
      BY <2>1
    <3>2. CASE s = {}
      BY <3>1, <3>2 DEF SumStep
    <3>3. CASE s # {}
      <4> DEFINE r == s \ {Chosen(s)}
      <4>1. r \in SUBSET S /\ Cardinality(r) <= n
        BY <1>0, <2>2, <3>3
      <4>2. h[r] = g[r]
        BY <4>1
      <4>. QED
        BY <3>1, <3>3, <4>2 DEF SumStep
    <3>. QED
      BY <3>2, <3>3
  <2>3. Upto(h, n + 1)
    BY <2>2
  <2> HIDE DEF Upto
  <2>. QED
    BY <2>3
<1>3. Cardinality(S) \in T
  <2> HIDE DEF T
  <2>. QED
    BY <1>1, <1>2, SetOfNat, FS_CardinalityType
<1>4. PICK g : Upto(g, Cardinality(S))
  BY <1>3
<1> DEFINE h == [s \in SUBSET S |-> g[s]]
<1>5. ASSUME NEW s \in SUBSET S PROVE h[s] = SumStep(f, h, s)
  <2>1. h[s] = SumStep(f, g, s)
    BY <1>0, <1>4
  <2>2. s # {} => h[s \ {Chosen(s)}] = g[s \ {Chosen(s)}]
    BY <1>0
  <2>. QED
    BY <2>1, <2>2 DEF SumStep
<1>6. SumsUp(h, f, S)
  BY <1>5 DEF SumsUp
<1>. QED
  BY <1>6

(* All sums of a set and of its subsets agree, and any summand may be      *)
(* taken first.                                                            *)
LEMMA SumAgrees ==
    ASSUME NEW f, NEW S, IsFiniteSet(S), \A x \in S : f[x] \in Int,
           NEW g, SumsUp(g, f, S), NEW R \in SUBSET S, NEW h, SumsUp(h, f, R)
    PROVE  \A s \in SUBSET R : /\ g[s] = h[s] /\ g[s] \in Int
                               /\ \A x \in s : g[s] = f[x] + g[s \ {x}]
<1> DEFINE Fine(s) == /\ g[s] = h[s] /\ g[s] \in Int
                      /\ \A x \in s : g[s] = f[x] + g[s \ {x}]
           T == {n \in Nat : \A s \in SUBSET R : Cardinality(s) <= n => Fine(s)}
<1>0. ASSUME NEW s \in SUBSET R
      PROVE  /\ IsFiniteSet(s) /\ Cardinality(s) \in Nat
             /\ \A x \in s : s \ {x} \in SUBSET R /\ Cardinality(s \ {x}) = Cardinality(s) - 1
             /\ s # {} => Chosen(s) \in s
             /\ Cardinality(s) = 0 <=> s = {}
             /\ g[s] = SumStep(f, g, s) /\ h[s] = SumStep(f, h, s)
  <2>1. IsFiniteSet(s)
    BY FS_Subset
  <2>2. g[s] = SumStep(f, g, s) /\ h[s] = SumStep(f, h, s)
    BY DEF SumsUp
  <2>. QED
    BY <2>1, <2>2, FS_CardinalityType, FS_RemoveElement, FS_EmptySet DEF Chosen
<1>1. 0 \in T
  <2>1. \A s \in SUBSET R : Cardinality(s) <= 0 => s = {}
    BY <1>0
  <2>2. g[{}] = 0 /\ h[{}] = 0
    BY <1>0 DEF SumStep
  <2>. QED
    BY <2>1, <2>2
<1>2. ASSUME NEW n \in Nat, n \in T PROVE n + 1 \in T
  <2> SUFFICES ASSUME NEW s \in SUBSET R, Cardinality(s) <= n + 1, s # {} PROVE Fine(s)
    BY <1>1, <1>0
  <2> DEFINE c == Chosen(s)
  <2>1. c \in s /\ s # {}
    BY <1>0
  <2>2. \A x \in s : Cardinality(s \ {x}) <= n /\ s \ {x} \in SUBSET R
    BY <1>0
  <2>3. \A x \in s : Fine(s \ {x})
    BY <1>2, <2>2
  <2>4. g[s] = f[c] + g[s \ {c}] /\ h[s] = f[c] + h[s \ {c}]
    BY <1>0, <2>1 DEF SumStep
  <2>5. f[c] \in Int /\ c \in S
    BY <2>1
  <2> HIDE DEF c
  <2>6. g[s] = h[s] /\ g[s] \in Int
    <3>1. g[s \ {c}] = h[s \ {c}] /\ g[s \ {c}] \in Int
      BY <2>1, <2>3
    <3>. QED
      BY <2>4, <2>5, <3>1
  <2>7. ASSUME NEW x \in s, x # c PROVE g[s] = f[x] + g[s \ {x}]
    <3> DEFINE b == (s \ {c}) \ {x}
    <3>1. b = (s \ {x}) \ {c} /\ x \in s \ {c} /\ c \in s \ {x}
      BY <2>1, <2>7
    <3>2. g[s \ {c}] = f[x] + g[b]
      BY <2>1, <2>3, <3>1
    <3>3. g[s \ {x}] = f[c] + g[b] /\ g[s \ {x}] \in Int
      BY <2>3, <3>1
    <3>4. b \in SUBSET R /\ Cardinality(b) <= n
      <4>1. s \ {c} \in SUBSET R /\ Cardinality(s \ {c}) <= n /\ Cardinality(s \ {c}) \in Nat
        BY <1>0, <2>1, <2>2
      <4>. QED
        BY <1>0, <3>1, <4>1
    <3>5. f[x] \in Int /\ g[b] \in Int
      BY <1>2, <3>4
    <3> HIDE DEF b
    <3>. QED
      BY <2>4, <2>5, <3>2, <3>3, <3>5
  <2>. QED
    BY <2>4, <2>6, <2>7
<1>3. Nat \subseteq T
  <2> HIDE DEF T
  <2>. QED
    BY <1>1, <1>2, SetOfNat
<1>. QED
  BY <1>0, <1>3

(* The sum over no element.                                                *)
LEMMA SumEmpty == ASSUME NEW f PROVE SumFunctionOnSet(f, {}) = 0
<1>1. IsFiniteSet({})
  BY FS_EmptySet
<1>2. PICK g : SumsUp(g, f, {}) /\ SumFunctionOnSet(f, {}) = g[{}]
  BY <1>1, SumExists, SumUnfolds
<1>. QED
  BY <1>2 DEF SumsUp, SumStep

(* One element is taken out of the set; any may be.                        *)
LEMMA SumTakes ==
    ASSUME NEW f, NEW S, IsFiniteSet(S), \A x \in S : f[x] \in Int
    PROVE  /\ SumFunctionOnSet(f, S) \in Int
           /\ \A x \in S : SumFunctionOnSet(f, S) = f[x] + SumFunctionOnSet(f, S \ {x})
<1>1. PICK g : SumsUp(g, f, S) /\ SumFunctionOnSet(f, S) = g[S]
  BY SumExists, SumUnfolds
<1>2. g[S] \in Int /\ \A x \in S : g[S] = f[x] + g[S \ {x}]
  BY <1>1, SumAgrees
<1>3. ASSUME NEW R \in SUBSET S PROVE SumFunctionOnSet(f, R) = g[R]
  <2>1. IsFiniteSet(R)
    BY FS_Subset
  <2>2. PICK h : SumsUp(h, f, R) /\ SumFunctionOnSet(f, R) = h[R]
    BY <2>1, SumExists, SumUnfolds
  <2>3. \A s \in SUBSET R : g[s] = h[s]
    BY <1>1, <2>2, SumAgrees
  <2>. QED
    BY <2>2, <2>3
<1>. QED
  BY <1>1, <1>2, <1>3

(* One element is put into it.                                             *)
LEMMA SumPuts ==
    ASSUME NEW f, NEW S, IsFiniteSet(S), NEW y, y \notin S, \A x \in S \cup {y} : f[x] \in Int
    PROVE  SumFunctionOnSet(f, S \cup {y}) = f[y] + SumFunctionOnSet(f, S)
<1>1. IsFiniteSet(S \cup {y}) /\ (S \cup {y}) \ {y} = S
  BY FS_AddElement
<1>. QED
  BY <1>1, SumTakes

(* A sum of natural numbers is one.                                        *)
LEMMA SumNat ==
    ASSUME NEW f, NEW S, IsFiniteSet(S), \A x \in S : f[x] \in Nat
    PROVE  SumFunctionOnSet(f, S) \in Nat
<1> DEFINE T == {A \in SUBSET S : SumFunctionOnSet(f, A) \in Nat}
<1>1. {} \in T
  BY SumEmpty
<1>2. ASSUME NEW A \in SUBSET S, NEW x \in S \ A, A \in T PROVE A \cup {x} \in T
  <2>1. SumFunctionOnSet(f, A \cup {x}) = f[x] + SumFunctionOnSet(f, A)
    BY FS_Subset, SumPuts
  <2>. QED
    BY <1>2, <2>1
<1>3. S \in T
  <2> HIDE DEF T
  <2>. QED
    BY <1>1, <1>2, SetOfSubsets
<1>. QED
  BY <1>3

(* Sums are added element by element...                                    *)
LEMMA SumPlus ==
    ASSUME NEW f, NEW g, NEW h, NEW S, IsFiniteSet(S),
           \A x \in S : f[x] \in Int /\ g[x] \in Int /\ h[x] = f[x] + g[x]
    PROVE  SumFunctionOnSet(h, S) = SumFunctionOnSet(f, S) + SumFunctionOnSet(g, S)
<1> DEFINE Ok(A) == SumFunctionOnSet(h, A) = SumFunctionOnSet(f, A) + SumFunctionOnSet(g, A)
           T == {A \in SUBSET S : Ok(A)}
<1>1. {} \in T
  BY SumEmpty
<1>2. ASSUME NEW A \in SUBSET S, NEW x \in S \ A, A \in T PROVE A \cup {x} \in T
  <2>1. IsFiniteSet(A) /\ \A y \in S : h[y] \in Int
    BY FS_Subset
  <2>2. /\ SumFunctionOnSet(f, A \cup {x}) = f[x] + SumFunctionOnSet(f, A)
        /\ SumFunctionOnSet(g, A \cup {x}) = g[x] + SumFunctionOnSet(g, A)
        /\ SumFunctionOnSet(h, A \cup {x}) = h[x] + SumFunctionOnSet(h, A)
    BY <2>1, SumPuts
  <2>3. SumFunctionOnSet(f, A) \in Int /\ SumFunctionOnSet(g, A) \in Int
    BY <2>1, SumTakes
  <2>4. h[x] = f[x] + g[x] /\ f[x] \in Int /\ g[x] \in Int
    OBVIOUS
  <2>. QED
    BY <1>2, <2>2, <2>3, <2>4
<1>3. S \in T
  <2> HIDE DEF T
  <2>. QED
    BY <1>1, <1>2, SetOfSubsets
<1>. QED
  BY <1>3

(* ... and multiplied.                                                     *)
LEMMA SumTimes ==
    ASSUME NEW f, NEW h, NEW k \in Int, NEW S, IsFiniteSet(S),
           \A x \in S : f[x] \in Int /\ h[x] = f[x] * k
    PROVE  SumFunctionOnSet(h, S) = SumFunctionOnSet(f, S) * k
<1> DEFINE Ok(A) == SumFunctionOnSet(h, A) = SumFunctionOnSet(f, A) * k
           T == {A \in SUBSET S : Ok(A)}
<1>1. {} \in T
  BY SumEmpty
<1>2. ASSUME NEW A \in SUBSET S, NEW x \in S \ A, A \in T PROVE A \cup {x} \in T
  <2>1. IsFiniteSet(A) /\ \A y \in S : h[y] \in Int
    BY FS_Subset
  <2>2. /\ SumFunctionOnSet(f, A \cup {x}) = f[x] + SumFunctionOnSet(f, A)
        /\ SumFunctionOnSet(h, A \cup {x}) = h[x] + SumFunctionOnSet(h, A)
    BY <2>1, SumPuts
  <2>3. SumFunctionOnSet(f, A) \in Int
    BY <2>1, SumTakes
  <2>4. \A m, n \in Int : (m + n) * k = m * k + n * k
    OBVIOUS
  <2>5. h[x] = f[x] * k /\ f[x] \in Int
    OBVIOUS
  <2>. QED
    BY <1>2, <2>2, <2>3, <2>4, <2>5
<1>3. S \in T
  <2> HIDE DEF T
  <2>. QED
    BY <1>1, <1>2, SetOfSubsets
<1>. QED
  BY <1>3

(* Equal summands have equal sums.                                         *)
LEMMA SumAlike ==
    ASSUME NEW f, NEW g, NEW S, IsFiniteSet(S), \A x \in S : f[x] \in Int /\ g[x] = f[x]
    PROVE  SumFunctionOnSet(g, S) = SumFunctionOnSet(f, S)
<1>1. SumFunctionOnSet(g, S) = SumFunctionOnSet(f, S) * 1
  BY SumTimes
<1>. QED
  BY <1>1, SumTakes

(* One summand changes.                                                    *)
LEMMA SumChanges ==
    ASSUME NEW f, NEW g, NEW S, IsFiniteSet(S), NEW y \in S,
           \A x \in S : f[x] \in Int /\ g[x] \in Int /\ (x # y => g[x] = f[x])
    PROVE  SumFunctionOnSet(g, S) = (SumFunctionOnSet(f, S) - f[y]) + g[y]
<1>1. IsFiniteSet(S \ {y})
  BY FS_Subset
<1>2. SumFunctionOnSet(g, S \ {y}) = SumFunctionOnSet(f, S \ {y})
  BY <1>1, SumAlike
<1>3. SumFunctionOnSet(f, S \ {y}) \in Int
  BY <1>1, SumTakes
<1>4. /\ SumFunctionOnSet(f, S) = f[y] + SumFunctionOnSet(f, S \ {y})
      /\ SumFunctionOnSet(g, S) = g[y] + SumFunctionOnSet(g, S \ {y})
  BY SumTakes
<1>. QED
  BY <1>2, <1>3, <1>4

(* The sum of the parts.                                                   *)
LEMMA SumOfParts ==
    ASSUME NEW f, NEW R, IsFiniteSet(R), \A x \in R : f[x] \in Int,
           NEW C, IsFiniteSet(C), NEW p, \A x \in R : p[x] \in C
    PROVE  SumFunctionOnSet([c \in C |-> SumFunctionOnSet(f, {x \in R : p[x] = c})], C)
              = SumFunctionOnSet(f, R)
<1> DEFINE Part(A, c) == SumFunctionOnSet(f, {x \in A : p[x] = c})
           Parts(A) == [c \in C |-> Part(A, c)]
           T == {A \in SUBSET R : SumFunctionOnSet(Parts(A), C) = SumFunctionOnSet(f, A)}
<1>0. ASSUME NEW A \in SUBSET R, NEW c PROVE IsFiniteSet({x \in A : p[x] = c}) /\ Part(A, c) \in Int
  <2>1. IsFiniteSet({x \in A : p[x] = c})
    BY FS_Subset
  <2>. QED
    BY <2>1, SumTakes
<1>1. {} \in T
  <2>1. \A c \in C : Parts({})[c] = 0
    <3>1. \A c : {x \in {} : p[x] = c} = {}
      OBVIOUS
    <3>. QED
      BY <3>1, SumEmpty
  <2>2. SumFunctionOnSet(Parts({}), C) = SumFunctionOnSet(Parts({}), C) * 0
    <3> DEFINE q == Parts({})
    <3> HIDE DEF q
    <3>1. \A c \in C : q[c] \in Int /\ q[c] = q[c] * 0
      BY <2>1 DEF q
    <3>2. SumFunctionOnSet(q, C) = SumFunctionOnSet(q, C) * 0
      BY <3>1, SumTimes
    <3>. QED
      BY <3>2 DEF q
  <2>3. SumFunctionOnSet(Parts({}), C) \in Int
    BY <2>1, SumTakes
  <2>. QED
    BY <2>2, <2>3, SumEmpty
<1>2. ASSUME NEW A \in SUBSET R, NEW x \in R \ A, A \in T PROVE A \cup {x} \in T
  <2> DEFINE B == A \cup {x}  c == p[x]
  <2>1. {y \in B : p[y] = c} = {y \in A : p[y] = c} \cup {x}
    OBVIOUS
  <2>2. \A d \in C \ {c} : {y \in B : p[y] = d} = {y \in A : p[y] = d}
    OBVIOUS
  <2>3. Part(B, c) = f[x] + Part(A, c)
    BY <1>0, <2>1, SumPuts
  <2>4. \A d \in C \ {c} : Part(B, d) = Part(A, d)
    BY <2>2
  <2>5. \A d \in C : Parts(A)[d] \in Int /\ Parts(B)[d] \in Int /\ (d # c => Parts(B)[d] = Parts(A)[d])
    <3>1. B \in SUBSET R
      OBVIOUS
    <3>2. \A d \in C : Part(A, d) \in Int /\ Part(B, d) \in Int
      BY <1>0, <3>1
    <3> HIDE DEF Part
    <3>. QED
      BY <2>4, <3>2
  <2>6. c \in C /\ Parts(B)[c] = f[x] + Parts(A)[c] /\ Parts(A)[c] \in Int /\ f[x] \in Int
    BY <1>0, <2>3
  <2>7. SumFunctionOnSet(f, B) = f[x] + SumFunctionOnSet(f, A)
    BY FS_Subset, SumPuts
  <2>8. SumFunctionOnSet(Parts(A), C) = SumFunctionOnSet(f, A) /\ SumFunctionOnSet(f, A) \in Int
    BY <1>2, FS_Subset, SumTakes
  <2>9. SumFunctionOnSet(Parts(B), C) = (SumFunctionOnSet(Parts(A), C) - Parts(A)[c]) + Parts(B)[c]
    <3> DEFINE a == Parts(A)  b == Parts(B)
    <3>1. c \in C /\ \A d \in C : a[d] \in Int /\ b[d] \in Int /\ (d # c => b[d] = a[d])
      BY <2>5, <2>6
    <3> HIDE DEF a, b, c
    <3>2. SumFunctionOnSet(b, C) = (SumFunctionOnSet(a, C) - a[c]) + b[c]
      BY <3>1, SumChanges
    <3>. QED
      BY <3>2 DEF a, b
  <2>10. SumFunctionOnSet(Parts(B), C) = SumFunctionOnSet(f, B)
    <3> HIDE DEF Parts, c, B
    <3>. QED
      BY <2>6, <2>7, <2>8, <2>9
  <2>. QED
    BY <2>10
<1>3. R \in T
  <2> HIDE DEF T
  <2>. QED
    BY <1>1, <1>2, SetOfSubsets
<1>. QED
  BY <1>3

================================================================================
