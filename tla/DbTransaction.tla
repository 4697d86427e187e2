------------------------------ MODULE DbTransaction ------------------------------
(***************************************************************************)
(* The server's single MySQL session and the transactions that share it    *)
(* (src/src/database/database.cpp and database.hpp).  A save runs its      *)
(* statements inside DBTransaction::executeWithinTransaction; other        *)
(* threads send standalone statements, as DatabaseTasks does.  All of them *)
(* go through one recursive mutex, databaseLock, which BEGIN takes and     *)
(* gives back before beginTransaction takes it for the body.               *)
(***************************************************************************)
EXTENDS Naturals, FiniteSets

CONSTANTS
    Transactions,   \* calls of executeWithinTransaction
    Standalone,     \* statements sent by DatabaseTasks::execute
    Threads,
    ThreadOf,       \* the thread that runs each transaction or statement
    Throws,         \* the transactions whose body throws when a statement
                    \* fails (savePlayerGuard); the others return false
    Parts,          \* how many statements a body sends
    MaxFaults,      \* bound: connections lost and BEGINs that fail
    NoThread

ASSUME SessionAssumption ==
    /\ Transactions \cap Standalone = {}
    /\ ThreadOf \in [Transactions \cup Standalone -> Threads]
    /\ NoThread \notin Threads
    /\ Throws \subseteq Transactions
    /\ Parts \in Nat /\ MaxFaults \in Nat

VARIABLES
    owner,          \* who holds databaseLock
    inTransaction,  \* the session is between BEGIN and COMMIT or ROLLBACK
    working,        \* what the open transaction has written
    durable,        \* what is committed
    pc,             \* where each transaction or statement is
    executed,       \* how many statements of the body have succeeded
    outcome,        \* of the body: "none", "true", "false", "threw"
    faults,         \* history: how many connections or BEGINs failed
    locked,         \* history: the bodies that run under databaseLock
    sealed          \* history: those that found the session in a transaction

session == <<inTransaction, working, durable>>
vars == <<owner, session, pc, executed, outcome, faults, locked, sealed>>

Calls == Transactions \cup Standalone
Writes(x) == {<<x, i>> : i \in 1..executed[x]}
Free(t) == owner \in {NoThread, t}

---------------------------------------------------------------------------
(* The session.                                                            *)

(* BEGIN commits the transaction that is open, if there is one.            *)
BeginSession ==
    /\ durable' = durable \cup working
    /\ working' = {} /\ inTransaction' = TRUE

CommitSession ==
    /\ durable' = durable \cup working
    /\ working' = {} /\ inTransaction' = FALSE

RollbackSession ==
    /\ working' = {} /\ inTransaction' = FALSE
    /\ UNCHANGED durable

(* Outside a transaction, a statement commits by itself.                   *)
WriteSession(w) ==
    /\ IF inTransaction
         THEN working' = working \cup {w} /\ UNCHANGED durable
         ELSE durable' = durable \cup {w} /\ UNCHANGED working
    /\ UNCHANGED inTransaction

---------------------------------------------------------------------------
Init ==
    /\ owner = NoThread
    /\ inTransaction = FALSE /\ working = {} /\ durable = {}
    /\ pc = [x \in Calls |-> "idle"]
    /\ executed = [x \in Calls |-> 0]
    /\ outcome = [x \in Calls |-> "none"]
    /\ faults = 0 /\ locked = {} /\ sealed = {}

(* A thread makes one call at a time.                                      *)
MayStart(x) ==
    /\ pc[x] = "idle"
    /\ \A y \in Calls : ThreadOf[y] = ThreadOf[x] => pc[y] \in {"idle", "done"}

(* beginTransaction, first half: BEGIN under the lock, which executeQuery  *)
(* releases.  A failure is not looked at by executeWithinTransaction: the  *)
(* body then runs in no transaction and without the lock.                  *)
Begin(x) ==
    /\ MayStart(x) /\ Free(ThreadOf[x])
    /\ BeginSession
    /\ pc' = [pc EXCEPT ![x] = "begun"]
    /\ UNCHANGED <<owner, executed, outcome, faults, locked, sealed>>

BeginFails(x) ==
    /\ MayStart(x) /\ Free(ThreadOf[x]) /\ faults < MaxFaults
    /\ faults' = faults + 1
    /\ pc' = [pc EXCEPT ![x] = "body"]
    /\ UNCHANGED <<owner, session, executed, outcome, locked, sealed>>

(* Bug: the body does not wait for the lock.                               *)
LockWithoutWaiting(x) ==
    /\ pc[x] = "begun"
    /\ owner' = ThreadOf[x]
    /\ pc' = [pc EXCEPT ![x] = "body"]
    /\ locked' = locked \cup {x}
    /\ sealed' = IF inTransaction THEN sealed \cup {x} ELSE sealed
    /\ UNCHANGED <<session, executed, outcome, faults>>

(* beginTransaction, second half.                                          *)
Lock(x) ==
    /\ pc[x] = "begun" /\ Free(ThreadOf[x])
    /\ owner' = ThreadOf[x]
    /\ pc' = [pc EXCEPT ![x] = "body"]
    /\ locked' = locked \cup {x}
    /\ sealed' = IF inTransaction THEN sealed \cup {x} ELSE sealed
    /\ UNCHANGED <<session, executed, outcome, faults>>

(* Bug: the body sends one statement too many.                             *)
StatementPastTheEnd(x) ==
    /\ pc[x] = "body" /\ Free(ThreadOf[x]) /\ executed[x] <= Parts
    /\ WriteSession(<<x, executed[x] + 1>>)
    /\ executed' = [executed EXCEPT ![x] = @ + 1]
    /\ UNCHANGED <<owner, pc, outcome, faults, locked, sealed>>

(* One statement of the body, through executeQuery or storeQuery.          *)
Statement(x) ==
    /\ pc[x] = "body" /\ Free(ThreadOf[x]) /\ executed[x] < Parts
    /\ WriteSession(<<x, executed[x] + 1>>)
    /\ executed' = [executed EXCEPT ![x] = @ + 1]
    /\ UNCHANGED <<owner, pc, outcome, faults, locked, sealed>>

StatementFails(x) ==
    /\ pc[x] = "body" /\ Free(ThreadOf[x]) /\ executed[x] < Parts
    /\ outcome' = [outcome EXCEPT ![x] = IF x \in Throws THEN "threw" ELSE "false"]
    /\ pc' = [pc EXCEPT ![x] = "end"]
    /\ UNCHANGED <<owner, session, executed, faults, locked, sealed>>

BodyReturns(x) ==
    /\ pc[x] = "body" /\ executed[x] = Parts
    /\ outcome' = [outcome EXCEPT ![x] = "true"]
    /\ pc' = [pc EXCEPT ![x] = "end"]
    /\ UNCHANGED <<owner, session, executed, faults, locked, sealed>>

(* Bug: the unlock releases whoever holds the lock.                        *)
UnlockAnybody(x) == owner' = NoThread

(* mysql_commit and mysql_rollback are called without taking the lock, and *)
(* the unlock that follows does nothing for a thread that does not own it. *)
Unlock(x) == owner' = IF owner = ThreadOf[x] THEN NoThread ELSE owner

(* Bug: the transaction of a body that returned false stays open.          *)
CommitOnlyTrue(x) ==
    /\ pc[x] = "end" /\ outcome[x] = "true"
    /\ CommitSession
    /\ Unlock(x)
    /\ pc' = [pc EXCEPT ![x] = "done"]
    /\ UNCHANGED <<executed, outcome, faults, locked, sealed>>

(* A body that returns commits, whether it returned true or false.         *)
Commit(x) ==
    /\ pc[x] = "end" /\ outcome[x] # "threw"
    /\ CommitSession
    /\ Unlock(x)
    /\ pc' = [pc EXCEPT ![x] = "done"]
    /\ UNCHANGED <<executed, outcome, faults, locked, sealed>>

Rollback(x) ==
    /\ pc[x] = "end" /\ outcome[x] = "threw"
    /\ RollbackSession
    /\ Unlock(x)
    /\ pc' = [pc EXCEPT ![x] = "done"]
    /\ UNCHANGED <<executed, outcome, faults, locked, sealed>>

(* DatabaseTasks::execute on a pool thread: one executeQuery.              *)
Execute(c) ==
    /\ MayStart(c) /\ Free(ThreadOf[c])
    /\ WriteSession(<<c, 1>>)
    /\ executed' = [executed EXCEPT ![c] = 1]
    /\ pc' = [pc EXCEPT ![c] = "done"]
    /\ UNCHANGED <<owner, outcome, faults, locked, sealed>>

(* The connection drops: the server rolls the open transaction back and    *)
(* the client library reconnects, in autocommit.                           *)
Lose ==
    /\ faults < MaxFaults
    /\ faults' = faults + 1
    /\ RollbackSession
    /\ UNCHANGED <<owner, pc, executed, outcome, locked, sealed>>

---------------------------------------------------------------------------
(* What a transaction that has begun does next.                            *)
Proceed(x) ==
    \/ Lock(x)
    \/ Statement(x) \/ StatementFails(x) \/ BodyReturns(x)
    \/ Commit(x) \/ Rollback(x)

Next ==
    \/ \E x \in Transactions : Begin(x) \/ BeginFails(x) \/ Proceed(x)
    \/ \E c \in Standalone : Execute(c)
    \/ Lose

Spec == Init /\ [][Next]_vars

(* A thread inside a call goes on; nobody has to start a transaction or to *)
(* send a statement.                                                       *)
Fairness == \A x \in Transactions : WF_vars(Proceed(x))

FairSpec == Spec /\ Fairness

---------------------------------------------------------------------------
TypeOK ==
    /\ owner \in Threads \cup {NoThread}
    /\ inTransaction \in BOOLEAN
    /\ working \subseteq Calls \X Nat /\ durable \subseteq Calls \X Nat
    /\ pc \in [Calls -> {"idle", "begun", "body", "end", "done"}]
    /\ executed \in [Calls -> Nat] /\ \A x \in Transactions : executed[x] <= Parts
    /\ outcome \in [Calls -> {"none", "true", "false", "threw"}]
    /\ faults \in 0..MaxFaults
    /\ locked \subseteq Transactions /\ sealed \subseteq locked

(* databaseLock stays with the body that took it in beginTransaction until *)
(* its own commit or rollback, whatever transactions whose BEGIN failed    *)
(* unlock meanwhile: two such bodies never interleave their statements.    *)
LockKept ==
    \A x \in locked : pc[x] \in {"body", "end"} => owner = ThreadOf[x]

(* All or nothing, for a body that found its transaction still open when   *)
(* it got the lock, while no fault occurs: until it ends nothing of it is  *)
(* durable, a throwing body leaves nothing behind, and one that returned   *)
(* leaves everything it executed.                                          *)
Atomic ==
    faults = 0 => \A x \in sealed :
        /\ pc[x] \in {"body", "end"} => Writes(x) \subseteq working
        /\ pc[x] # "done" \/ outcome[x] = "threw" => Writes(x) \cap durable = {}
        /\ pc[x] = "done" /\ outcome[x] # "threw" => Writes(x) \subseteq durable

(* No transaction waits for ever, for the lock or with it: each that began *)
(* ends, and databaseLock is given back.                                   *)
Finishes ==
    /\ \A x \in Transactions : pc[x] # "idle" ~> pc[x] = "done"
    /\ owner # NoThread ~> owner = NoThread

(* "Rollback the transaction" (database.hpp:241): what a rollback discards *)
(* is what its own body wrote, never a statement of another call.          *)
RollbackIsOwn ==
    [][\A x \in Transactions :
          Rollback(x) => \A w \in working : w \notin durable' => w[1] = x]_vars

=============================================================================
