--------------------------------- MODULE KVStore ---------------------------------
(***************************************************************************)
(* The persistent key-value store (src/src/kv/kv.cpp, kv.hpp and           *)
(* kv_sql.cpp): a cache of bounded size with a least-recently-used list,   *)
(* guarded by one mutex, over a table of the database.  An entry that      *)
(* leaves the cache is written out first.  saveAll copies the cache under  *)
(* the mutex and writes the copy out in a transaction, without it.         *)
(***************************************************************************)
EXTENDS Integers, SequencesExt

CONSTANTS
    Keys,
    Values,
    None,       \* no value: no row, or nothing to return
    Deleted,    \* ValueWrapper::deleted(), the mark of a removed key
    MaxSize,    \* KVStore::MAX_SIZE
    Users,      \* the threads that call set, remove and get
    Savers,     \* the threads that call saveAll
    MaxFailures \* bound: how many writes fail

ASSUME StoreAssumption ==
    /\ None \notin Values /\ Deleted \notin Values \cup {None}
    /\ MaxSize \in Nat \ {0}
    /\ MaxFailures \in Nat

VARIABLES
    store,  \* store_: the cached keys and their values
    lru,    \* lruQueue_, the most recently used key first
    db,     \* the table kv_store
    copy,   \* what getStore gave to the saveAll each thread is in
    answer, \* what the last call to get returned
    failures \* history: how many writes failed

vars == <<store, lru, db, copy, answer, failures>>

NoCopy == [k \in {} |-> None]
Cached == DOMAIN store
Saving(t) == DOMAIN copy[t] # {}

Init ==
    /\ store = NoCopy /\ lru = <<>>
    /\ db \in [Keys -> Values \cup {None}]
    /\ copy = [t \in Savers |-> NoCopy]
    /\ answer = None /\ failures = 0

---------------------------------------------------------------------------
(* The list without key k, which is in it (splice).                        *)
Others(k) == RemoveAt(lru, CHOOSE i \in DOMAIN lru : lru[i] = k)
ToFront(k) == <<k>> \o Others(k)
ToBack(k) == Others(k) \o <<k>>

(* Bug: a removed key is written as a row that holds the mark.             *)
RowKeepingMark(v) == v

(* prepareSave: a removed key is a DELETE, any other an upsert.            *)
Row(v) == IF v = Deleted THEN None ELSE v
Written(s, K) == [k \in Keys |-> IF k \in K THEN Row(s[k]) ELSE db[k]]

(* A cached key gets a new value, and is now the most recently used.       *)
Update(k, v) ==
    /\ store' = [store EXCEPT ![k] = v]
    /\ lru' = ToFront(k)
    /\ UNCHANGED <<db, failures>>

(* A new entry; in a full cache the keys of S make room for it.            *)
Insert(k, v, S) ==
    /\ store' = [j \in (Cached \ S) \cup {k} |-> IF j = k THEN v ELSE store[j]]
    /\ lru' = <<k>> \o (IF S = {} THEN lru ELSE Front(lru))

Evicted == IF Cardinality(Cached) >= MaxSize THEN {Last(lru)} ELSE {}

(* The oldest entry is written out; nobody looks at whether that succeeds. *)
SaveEvicted ==
    \/ db' = Written(store, Evicted) /\ UNCHANGED failures
    \/ /\ Evicted # {} /\ failures < MaxFailures
       /\ failures' = failures + 1
       /\ UNCHANGED db

(* Bug: the oldest entry leaves the cache without being written out.       *)
SetLockedWithoutSaving(k, v) ==
    IF k \in Cached THEN Update(k, v)
    ELSE Insert(k, v, Evicted) /\ UNCHANGED <<db, failures>>

(* Bug: setting a cached key pushes it on the list once more.              *)
SetLockedPushingTwice(k, v) ==
    IF k \in Cached
    THEN store' = [store EXCEPT ![k] = v] /\ lru' = <<k>> \o lru /\ UNCHANGED <<db, failures>>
    ELSE Insert(k, v, Evicted) /\ SaveEvicted

SetLocked(k, v) ==
    IF k \in Cached THEN Update(k, v)
    ELSE Insert(k, v, Evicted) /\ SaveEvicted

(* set, and remove, which sets the mark Deleted.                           *)
SetKey(k, v) ==
    /\ SetLocked(k, v)
    /\ UNCHANGED <<copy, answer>>

Load(k) ==
    /\ answer' = db[k]
    /\ IF db[k] = None THEN UNCHANGED <<store, lru, db, failures>> ELSE SetLocked(k, db[k])
    /\ UNCHANGED copy

GetCached(k) ==
    /\ k \in Cached
    /\ answer' = Row(store[k])
    /\ lru' = IF store[k] = Deleted THEN ToBack(k) ELSE ToFront(k)
    /\ UNCHANGED <<store, db, copy, failures>>

Get(k) == IF k \in Cached THEN GetCached(k) ELSE Load(k)
ForceGet(k) == Load(k)

---------------------------------------------------------------------------
(* KVSQL::saveAll: getStore...                                             *)
CopyStore(t) ==
    /\ ~Saving(t)
    /\ Cached # {}
    /\ copy' = [copy EXCEPT ![t] = store]
    /\ UNCHANGED <<store, lru, db, answer, failures>>

(* Bug: the removed keys of the copy are left in the table.                *)
WriteCopyWithoutDeleting(t) ==
    /\ Saving(t)
    /\ db' = Written(copy[t], {k \in DOMAIN copy[t] : copy[t][k] # Deleted})
    /\ copy' = [copy EXCEPT ![t] = NoCopy]
    /\ UNCHANGED <<store, lru, answer, failures>>

(* ... and the transaction: the removed keys are deleted one by one, the   *)
(* others are written by the statement at its end.                         *)
WriteCopy(t) ==
    /\ Saving(t)
    /\ db' = Written(copy[t], DOMAIN copy[t])
    /\ copy' = [copy EXCEPT ![t] = NoCopy]
    /\ UNCHANGED <<store, lru, answer, failures>>

(* A body that returns false commits what it had done: some deletions, or  *)
(* all of them and some of the batches of the statement.                   *)
WriteCopyFails(t) ==
    /\ failures < MaxFailures /\ Saving(t)
    /\ failures' = failures + 1
    /\ LET gone == {k \in DOMAIN copy[t] : copy[t][k] = Deleted}
       IN  \E K \in SUBSET DOMAIN copy[t] \ {DOMAIN copy[t]} :
              /\ K \subseteq gone \/ gone \subseteq K
              /\ db' = Written(copy[t], K)
    /\ copy' = [copy EXCEPT ![t] = NoCopy]
    /\ UNCHANGED <<store, lru, answer>>

---------------------------------------------------------------------------
Call(k) == Get(k) \/ ForceGet(k) \/ \E v \in Values \cup {Deleted} : SetKey(k, v)

(* A thread that is in saveAll makes no other call.                        *)
Next ==
    \/ \E t \in Users : (t \in Savers => ~Saving(t)) /\ \E k \in Keys : Call(k)
    \/ \E t \in Savers : CopyStore(t) \/ WriteCopy(t) \/ WriteCopyFails(t)

Spec == Init /\ [][Next]_vars

---------------------------------------------------------------------------
Entries == UNION {[K -> Values \cup {Deleted}] : K \in SUBSET Keys}

TypeOK ==
    /\ store \in Entries
    /\ lru \in Seq(Keys)
    /\ db \in [Keys -> Values \cup {None}]
    /\ copy \in [Savers -> Entries]
    /\ answer \in Values \cup {None}
    /\ failures \in 0..MaxFailures

(* The two structures of the cache stay in step, whatever set, get, remove *)
(* and evictions do: each cached key is once in the list, so that eviction *)
(* always finds the entry to write out, and the cache keeps to its bound.  *)
ListMatchesStore ==
    /\ IsInjective(lru) /\ Range(lru) = Cached
    /\ Cardinality(Cached) <= MaxSize

(* What get would answer.                                                  *)
Visible == [k \in Keys |-> IF k \in Cached THEN Row(store[k]) ELSE db[k]]

(* The cache is invisible: through evictions, removals that are not yet in *)
(* the table, forced loads and failing writes, callers see the map KVMap,  *)
(* which loses nothing but the evicted entry whose write failed.           *)
Promise == INSTANCE KVMap WITH map <- Visible, saved <- db
ImplementsMap == Promise!Spec

(* When saveAll succeeds nothing is left to lose in a crash: the table     *)
(* answers for every key, cached, evicted before or removed, as get does.  *)
SaveAllPersists == [][\A t \in Savers : WriteCopy(t) => db' = Visible']_vars

(* "persistent, and thread-safe key-value store" (kv/README.md): saving    *)
(* the store never changes what a later get answers.                       *)
SavingIsInvisible ==
    [][\A t \in Savers : copy'[t] # copy[t] => Visible' = Visible]_vars

=============================================================================
