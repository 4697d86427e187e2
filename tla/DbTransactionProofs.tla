--------------------------- MODULE DbTransactionProofs ---------------------------
(* Theorems about DbTransaction, for any threads, transactions, bodies and *)
(* number of faults.                                                       *)
EXTENDS DbTransaction, TLAPS

(* The variables have their types at first.                                *)
LEMMA InitType == Init => TypeOK
<1> SUFFICES ASSUME Init PROVE TypeOK
  OBVIOUS
<1> USE SessionAssumption DEF SessionAssumption, Init
<1>1. faults \in 0..MaxFaults
  OBVIOUS
<1>2. working \subseteq Calls \X Nat /\ durable \subseteq Calls \X Nat
  OBVIOUS
<1>3. executed \in [Calls -> Nat] /\ \A x \in Transactions : executed[x] <= Parts
  BY DEF Calls
<1>. QED
  BY <1>1, <1>2, <1>3 DEF TypeOK

(* Every step keeps the types.                                             *)
LEMMA NextType == TypeOK /\ [Next]_vars => TypeOK'
<1> SUFFICES ASSUME TypeOK, [Next]_vars PROVE TypeOK'
  OBVIOUS
<1> USE SessionAssumption DEF SessionAssumption, TypeOK, Calls, session
<1>1. ASSUME NEW x \in Transactions, Begin(x) PROVE TypeOK'
  BY <1>1 DEF Begin, BeginSession
<1>2. ASSUME NEW x \in Transactions, BeginFails(x) PROVE TypeOK'
  BY <1>2 DEF BeginFails
<1>3. ASSUME NEW x \in Transactions, Lock(x) PROVE TypeOK'
  BY <1>3 DEF Lock
<1>4. ASSUME NEW x \in Transactions, Statement(x) PROVE TypeOK'
  <2>1. executed[x] + 1 \in Nat
    OBVIOUS
  <2>2. <<x, executed[x] + 1>> \in (Transactions \cup Standalone) \X Nat
    BY <2>1
  <2>. QED
    BY <1>4, <2>1, <2>2 DEF Statement, WriteSession
<1>5. ASSUME NEW x \in Transactions, StatementFails(x) PROVE TypeOK'
  BY <1>5 DEF StatementFails
<1>6. ASSUME NEW x \in Transactions, BodyReturns(x) PROVE TypeOK'
  BY <1>6 DEF BodyReturns
<1>7. ASSUME NEW x \in Transactions, Commit(x) PROVE TypeOK'
  BY <1>7 DEF Commit, CommitSession, Unlock
<1>8. ASSUME NEW x \in Transactions, Rollback(x) PROVE TypeOK'
  BY <1>8 DEF Rollback, RollbackSession, Unlock
<1>9. ASSUME NEW c \in Standalone, Execute(c) PROVE TypeOK'
  BY <1>9 DEF Execute, WriteSession
<1>10. CASE Lose
  <2>1. faults' \in 0..MaxFaults
    BY <1>10 DEF Lose
  <2>2. working' \subseteq Calls \X Nat /\ durable' \subseteq Calls \X Nat
    BY <1>10 DEF Lose, RollbackSession
  <2>. QED
    BY <1>10, <2>1, <2>2 DEF Lose, RollbackSession
<1>11. CASE UNCHANGED vars
  BY <1>11 DEF vars
<1>. QED
  BY <1>1, <1>2, <1>3, <1>4, <1>5, <1>6, <1>7, <1>8, <1>9, <1>10, <1>11 DEF Next, Proceed

(* The variables of DbTransaction stay in their types.                     *)
THEOREM TypeCorrect == Spec => []TypeOK
BY InitType, NextType, PTL DEF Spec

---------------------------------------------------------------------------
(* Who is inside a call, and who holds the lock.                           *)
Active(x) == pc[x] \notin {"idle", "done"}
LockInv ==
    /\ \A x, y \in Calls : Active(x) /\ Active(y) /\ ThreadOf[x] = ThreadOf[y] => x = y
    /\ \A x \in locked : pc[x] \in {"body", "end", "done"}
    /\ LockKept

(* Every step keeps what LockInv says of the lock's owner.                 *)
LEMMA NextLock == TypeOK /\ LockInv /\ [Next]_vars => LockInv'
<1> SUFFICES ASSUME TypeOK, LockInv, [Next]_vars PROVE LockInv'
  OBVIOUS
<1> USE SessionAssumption
<1> USE DEF SessionAssumption, TypeOK, Calls, LockInv, LockKept, Active, MayStart, Free
<1>1. ASSUME NEW x \in Transactions, Begin(x) PROVE LockInv'
  BY <1>1 DEF Begin
<1>2. ASSUME NEW x \in Transactions, BeginFails(x) PROVE LockInv'
  BY <1>2 DEF BeginFails
<1>3. ASSUME NEW x \in Transactions, Lock(x) PROVE LockInv'
  BY <1>3 DEF Lock
<1>4. ASSUME NEW x \in Transactions, Statement(x) PROVE LockInv'
  BY <1>4 DEF Statement
<1>5. ASSUME NEW x \in Transactions, StatementFails(x) PROVE LockInv'
  BY <1>5 DEF StatementFails
<1>6. ASSUME NEW x \in Transactions, BodyReturns(x) PROVE LockInv'
  BY <1>6 DEF BodyReturns
<1>7. ASSUME NEW x \in Transactions, Commit(x) \/ Rollback(x) PROVE LockInv'
  BY <1>7 DEF Commit, Rollback, Unlock
<1>8. ASSUME NEW c \in Standalone, Execute(c) PROVE LockInv'
  BY <1>8 DEF Execute
<1>9. CASE Lose \/ UNCHANGED vars
  BY <1>9 DEF Lose, vars
<1>. QED
  BY <1>1, <1>2, <1>3, <1>4, <1>5, <1>6, <1>7, <1>8, <1>9 DEF Next, Proceed

(* databaseLock stays with the body that took it until its own commit or   *)
(* rollback.                                                               *)
THEOREM LockIsKept == Spec => []LockKept
<1>1. Init => LockInv
  BY DEF Init, LockInv, LockKept, Active
<1>2. LockInv => LockKept
  BY DEF LockInv
<1>. QED
  BY <1>1, <1>2, TypeCorrect, NextLock, PTL DEF Spec

---------------------------------------------------------------------------
(* While nothing fails, every body holds the lock, so that a sealed one    *)
(* has the session to itself: its writes are all in the open transaction.  *)
BodiesLocked == \A x \in Transactions : pc[x] \in {"body", "end"} => x \in locked
NoOtherWrites ==
    \A w \in working \cup durable : w[1] \in Calls /\ w[2] \in 1..executed[w[1]]
NothingYet == \A x \in Calls : pc[x] \in {"idle", "begun"} => executed[x] = 0
Sealed(x) ==
    /\ pc[x] \in {"body", "end"} =>
         inTransaction /\ Writes(x) \subseteq working /\ Writes(x) \cap durable = {}
    /\ pc[x] = "done" /\ outcome[x] = "threw" => Writes(x) \cap (working \cup durable) = {}
    /\ pc[x] = "done" /\ outcome[x] # "threw" => Writes(x) \subseteq durable
AtomicInv ==
    faults = 0 => BodiesLocked /\ NoOtherWrites /\ NothingYet /\ \A x \in sealed : Sealed(x)

(* AtomicInv holds at first.                                               *)
LEMMA InitAtomic == Init => AtomicInv
BY SessionAssumption DEF SessionAssumption, Init, AtomicInv, BodiesLocked, NoOtherWrites,
   NothingYet, Calls

(* Faults are never taken back: without any so far there were none before. *)
LEMMA NextFaults == TypeOK /\ [Next]_vars /\ faults' = 0 => faults = 0
<1> SUFFICES ASSUME TypeOK, [Next]_vars, faults' = 0 PROVE faults = 0
  OBVIOUS
<1>1. faults \in Nat
  BY SessionAssumption DEF SessionAssumption, TypeOK
<1>2. ASSUME NEW x \in Transactions, Begin(x) \/ BeginFails(x) \/ Proceed(x) PROVE faults = 0
  BY <1>1, <1>2 DEF Begin, BeginFails, Proceed, Lock, Statement, StatementFails, BodyReturns,
     Commit, Rollback
<1>3. ASSUME NEW c \in Standalone, Execute(c) PROVE faults = 0
  BY <1>3 DEF Execute
<1>4. CASE Lose \/ UNCHANGED vars
  BY <1>1, <1>4 DEF Lose, vars
<1>. QED
  BY <1>2, <1>3, <1>4 DEF Next

(* Every step keeps AtomicInv.                                             *)
LEMMA NextAtomic == TypeOK /\ LockInv /\ AtomicInv /\ [Next]_vars => AtomicInv'
<1> SUFFICES ASSUME TypeOK, LockInv, AtomicInv, [Next]_vars, faults' = 0
             PROVE  BodiesLocked' /\ NoOtherWrites' /\ NothingYet' /\ \A y \in sealed' : Sealed(y)'
  BY DEF AtomicInv
<1> DEFINE Goal == BodiesLocked' /\ NoOtherWrites' /\ NothingYet' /\ \A y \in sealed' : Sealed(y)'
<1> USE SessionAssumption DEF SessionAssumption
<1>0. faults = 0
  BY NextFaults
<1>a. BodiesLocked /\ NoOtherWrites /\ NothingYet /\ \A y \in sealed : Sealed(y)
  BY <1>0 DEF AtomicInv
<1> USE DEF BodiesLocked, NoOtherWrites, NothingYet, Sealed, Writes, TypeOK, Calls
<1>3. ASSUME NEW x \in Transactions, Begin(x) PROVE Goal
  BY <1>3, <1>a DEF Begin, BeginSession, MayStart, Free, LockInv, LockKept
<1>4. ASSUME NEW x \in Transactions, Lock(x) PROVE Goal
  <2>1. BodiesLocked' /\ NoOtherWrites' /\ NothingYet'
    BY <1>4, <1>a DEF Lock, session
  <2>2. executed[x] = 0
    BY <1>4, <1>a DEF Lock
  <2>3. ASSUME NEW y \in sealed' PROVE Sealed(y)'
    <3>1. CASE y = x
      <4>1. x \notin sealed
        BY <1>4 DEF Lock, LockInv
      <4>2. inTransaction /\ 1..0 = {}
        BY <1>4, <3>1, <4>1 DEF Lock
      <4>. QED
        BY <1>4, <2>2, <3>1, <4>2 DEF Lock, session
    <3>2. CASE y # x
      BY <1>4, <1>a, <3>2 DEF Lock, session
    <3>. QED
      BY <3>1, <3>2
  <2>. QED
    BY <2>1, <2>3
<1>5. ASSUME NEW x \in Transactions, Statement(x) PROVE Goal
  BY <1>5, <1>a DEF Statement, WriteSession
<1>6. ASSUME NEW x \in Transactions, StatementFails(x) \/ BodyReturns(x) PROVE Goal
  BY <1>6, <1>a DEF StatementFails, BodyReturns, session
<1>7. ASSUME NEW x \in Transactions, Commit(x) PROVE Goal
  BY <1>7, <1>a DEF Commit, CommitSession, LockInv, LockKept, Active
<1>8. ASSUME NEW x \in Transactions, Rollback(x) PROVE Goal
  BY <1>8, <1>a DEF Rollback, RollbackSession, LockInv, LockKept, Active
<1>9. ASSUME NEW c \in Standalone, Execute(c) PROVE Goal
  <2>1. c \notin Transactions
    OBVIOUS
  <2>2. executed'[c] = 1 /\ \A y \in Transactions : executed'[y] = executed[y] /\ pc'[y] = pc[y]
    BY <1>9, <2>1 DEF Execute
  <2>3. BodiesLocked' /\ NothingYet'
    BY <1>9, <1>a, <2>2 DEF Execute
  <2>4. NoOtherWrites'
    <3>1. \A w \in working' \cup durable' : w = <<c, 1>> \/ w \in working \cup durable
      BY <1>9 DEF Execute, WriteSession
    <3>2. \A y \in Calls : y # c => executed'[y] = executed[y]
      BY <1>9 DEF Execute
    <3>3. executed[c] = 0
      BY <1>9, <1>a DEF Execute, MayStart
    <3>4. \A w \in working \cup durable : w[1] # c
      BY <1>a, <3>3
    <3>. QED
      BY <1>a, <2>2, <3>1, <3>2, <3>4
  <2>5. ASSUME NEW y \in sealed' PROVE Sealed(y)'
    <3>1. y \in sealed /\ y \in Transactions /\ Sealed(y)
      BY <1>9, <1>a DEF Execute
    <3>2. Writes(y)' = Writes(y) /\ <<c, 1>> \notin Writes(y)
      BY <2>1, <2>2, <3>1
    <3>. QED
      BY <1>9, <2>2, <3>1, <3>2 DEF Execute, WriteSession
  <2>. QED
    BY <2>3, <2>4, <2>5
<1>10. CASE UNCHANGED vars
  BY <1>10, <1>a DEF vars, session
<1>11. ~Lose /\ \A x \in Transactions : ~BeginFails(x)
  BY <1>0 DEF Lose, BeginFails
<1>. QED
  BY <1>3, <1>4, <1>5, <1>6, <1>7, <1>8, <1>9, <1>10, <1>11 DEF Next, Proceed

(* All or nothing, for every transaction that found the session open when  *)
(* it got the lock, while no connection is lost and no BEGIN fails.        *)
THEOREM SealedAreAtomic == Spec => []Atomic
<1>1. TypeOK /\ AtomicInv => Atomic
  BY DEF TypeOK, AtomicInv, Atomic, Sealed, Writes, NoOtherWrites, NothingYet
<1>2. Init => LockInv
  BY DEF Init, LockInv, LockKept, Active
<1>. QED
  BY <1>1, <1>2, TypeCorrect, NextLock, InitAtomic, NextAtomic, PTL DEF Spec

=============================================================================
