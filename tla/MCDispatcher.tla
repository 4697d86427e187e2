------------------------------ MODULE MCDispatcher ------------------------------
(* Small instances of Dispatcher: the dispatcher's thread d, one more      *)
(* thread p of the pool and the program's main thread n, which runs the    *)
(* network.                                                                *)
EXTENDS Dispatcher, TLC

CONSTANTS d, p, n, s1, s2, s3, a1, a2, t1, t2, c1

(* The serial event s2 may expire before its turn.                         *)
OneMayExpire == [e \in SerialEvents |-> IF e = s2 THEN 1 ELSE 0]
OneTick == [e \in TimedEvents |-> 1]
NoDelay == [e \in TimedEvents |-> 0]
Interchangeable == Permutations(AsyncEvents) \cup Permutations(TimedEvents)

=============================================================================
