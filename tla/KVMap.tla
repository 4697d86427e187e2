---------------------------------- MODULE KVMap ----------------------------------
(***************************************************************************)
(* What the key-value store promises its callers (src/src/kv/kv.hpp): a    *)
(* map that survives in the database.  Persisting, whenever it happens,    *)
(* writes what the map holds and changes no answer; a forced load gives up *)
(* what was not persisted yet; and a write that fails gives up no more     *)
(* than one key, which is then again as the database has it.               *)
(***************************************************************************)
EXTENDS Naturals

CONSTANTS Keys, Values, None

VARIABLES
    map,      \* what get answers, None for nothing
    saved,    \* what the database holds
    answer,   \* of the last call to get
    failures  \* how many writes failed

Init ==
    /\ map = saved
    /\ saved \in [Keys -> Values \cup {None}]
    /\ answer = None /\ failures = 0

Persist(m, K) == saved' = [k \in Keys |-> IF k \in K THEN m[k] ELSE saved[k]]

(* A call on k makes m of the map, and may have other keys written.        *)
Kept(k, m) ==
    /\ map' = m
    /\ \E K \in SUBSET (Keys \ {k}) : Persist(map, K)
    /\ UNCHANGED failures

LostOne(k, m) ==
    /\ \E l \in Keys \ {k} : map' = [m EXCEPT ![l] = saved[l]]
    /\ failures' = failures + 1
    /\ UNCHANGED saved

Becomes(k, m) == Kept(k, m) \/ LostOne(k, m)

Put(k, v) ==
    /\ Becomes(k, [map EXCEPT ![k] = v])
    /\ UNCHANGED answer

Read(k) ==
    /\ answer' = map[k]
    /\ UNCHANGED <<map, saved, failures>>

Reload(k) ==
    /\ answer' = saved[k]
    /\ Becomes(k, IF saved[k] = None THEN map ELSE [map EXCEPT ![k] = saved[k]])

Save ==
    /\ \E K \in SUBSET Keys : Persist(map, K)
    /\ failures' \in {failures, failures + 1}
    /\ UNCHANGED <<map, answer>>

Next ==
    \/ \E k \in Keys : Read(k) \/ Reload(k) \/ \E v \in Values \cup {None} : Put(k, v)
    \/ Save

Spec == Init /\ [][Next]_<<map, saved, answer, failures>>

=============================================================================
