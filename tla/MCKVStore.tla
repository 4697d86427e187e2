-------------------------------- MODULE MCKVStore --------------------------------
(* Small instances of KVStore: the dispatcher d alone, which uses and      *)
(* saves the store, or d and a pool thread p that saves it (the setting    *)
(* toggleSaveAsync).                                                       *)
EXTENDS KVStore

CONSTANTS d, p, k1, k2, k3, v1, v2

=============================================================================
