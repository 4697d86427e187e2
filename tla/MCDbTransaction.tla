----------------------------- MODULE MCDbTransaction -----------------------------
(* Small instances of DbTransaction: player and key-value saves on the     *)
(* dispatcher d, one more on the pool thread p (saves are asynchronous     *)
(* there), a standalone statement on the pool thread q.                    *)
EXTENDS DbTransaction

CONSTANTS d, p, q, player, kv, async, c1

Placed == [x \in Transactions \cup Standalone |->
             IF x \in {player, kv} THEN d ELSE IF x = async THEN p ELSE q]

=============================================================================
