--------------------------- MODULE ConnectionPool ---------------------------
(***************************************************************************)
(* The engine's pool of connections and the requests that share it.  An    *)
(* operation opens its sessions one after the other and never one inside   *)
(* another; a session borrows a connection at its first statement and      *)
(* gives it back when it commits, fails or closes.  A session that updates *)
(* or deletes a row waits for the row's lock with the connection in its    *)
(* hand.  lock_timeout ends that wait, pool_timeout the wait for a         *)
(* connection.  An outsider (psql, a migration, another process) may hold  *)
(* a row's lock for as long as it likes.                                   *)
(*                                                                         *)
(* Time is kept as ages.  Tick lets no deadline pass, and no time passes   *)
(* while a connection is free and somebody queues for it; who of those     *)
(* gets it is left open, because a newcomer may overtake the queue.        *)
(***************************************************************************)
EXTENDS Integers, Sequences, FiniteSets

CONSTANTS Requests,     \* requests in flight
          Operations,   \* operations they may ask for, a subset of DOMAIN Plan
          RefundRows, UserRows,
          Capacity,     \* pool_size + max_overflow
          PoolTimeout,  \* pool_timeout
          LockTimeout,  \* lock_timeout
          SessionTime   \* assumed: no session lasts longer, its wait for a lock included

(* What one operation opens, session by session; "locks" is one whose      *)
(* first statement waits for a row that another transaction holds.         *)
Plan == [login   |-> <<"reads">>,
         create  |-> <<"reads", "reads">>,     \* INSERT waits for no row
         review  |-> <<"locks">>,              \* SELECT ... FOR UPDATE
         pay     |-> <<"reads", "locks", "reads">>,
         delete  |-> <<"reads", "locks">>,
         picture |-> <<"reads", "locks">>]     \* UPDATE users

Rows == RefundRows \cup UserRows
RowsOf(op) == IF op = "picture" THEN UserRows ELSE RefundRows

ASSUME PoolAssumption ==
  /\ IsFiniteSet(Requests)
  /\ Operations \subseteq DOMAIN Plan
  /\ RefundRows # {} /\ UserRows # {}
  /\ Capacity \in Nat \ {0}
  /\ LockTimeout \in Nat \ {0} /\ SessionTime \in Nat /\ PoolTimeout \in Nat
  /\ LockTimeout <= SessionTime
  /\ SessionTime < PoolTimeout

Free == "free"
Outsider == "outsider"

ASSUME OwnersAssumption == Free \notin Requests /\ Outsider \notin Requests

VARIABLES
  pc,        \* where a request is
  op,        \* its operation
  row,       \* the row its locking session is about
  done,      \* sessions it has finished
  age,       \* how long it queues, or how long it has its connection
  borrowed,  \* requests that have a connection
  lock,      \* who holds the lock of a row
  overtook,  \* history: requests that were given a connection while it queued
  why        \* why it failed

vars == <<pc, op, row, done, age, borrowed, lock, overtook, why>>

Running == {"lockwait", "work"}
Ended == {"served", "failed"}
Queue == {r \in Requests : pc[r] = "queue"}

TypeOK ==
  /\ pc \in [Requests -> {"absent", "between", "queue"} \cup Running \cup Ended]
  /\ op \in [Requests -> DOMAIN Plan]
  /\ row \in [Requests -> Rows]
  /\ done \in [Requests -> Nat]
  /\ age \in [Requests -> 0..PoolTimeout]
  /\ borrowed \in SUBSET Requests
  /\ lock \in [Rows -> Requests \cup {Free, Outsider}]
  /\ overtook \in [Requests -> SUBSET Requests]
  /\ why \in [Requests -> {"none", "pool", "lock", "error"}]

Init ==
  /\ pc = [r \in Requests |-> "absent"]
  /\ op \in [Requests -> Operations]
  /\ row \in {f \in [Requests -> Rows] : \A r \in Requests : f[r] \in RowsOf(op[r])}
  /\ done = [r \in Requests |-> 0]
  /\ age = [r \in Requests |-> 0]
  /\ borrowed = {}
  /\ lock = [x \in Rows |-> Free]
  /\ overtook = [r \in Requests |-> {}]
  /\ why = [r \in Requests |-> "none"]

Goto(r, label) == pc' = [pc EXCEPT ![r] = label]

Locks(r) == Plan[op[r]][done[r] + 1] = "locks"

(* A request comes in, or goes on to its next session.                     *)
Ask(r) ==
  /\ pc[r] \in {"absent", "between"}
  /\ Goto(r, "queue")
  /\ UNCHANGED <<op, row, done, age, borrowed, lock, overtook, why>>

(* Everybody who queues sees r get a connection.                           *)
Overtakes(r) == [q \in Requests |-> IF q # r /\ pc[q] = "queue" THEN overtook[q] \cup {r}
                                                               ELSE overtook[q]]
Borrow(r) ==
  /\ pc[r] = "queue"
  /\ Cardinality(borrowed) < Capacity
  /\ borrowed' = borrowed \cup {r}
  /\ overtook' = [Overtakes(r) EXCEPT ![r] = {}]
  /\ age' = [age EXCEPT ![r] = 0]
  /\ Goto(r, IF Locks(r) THEN "lockwait" ELSE "work")
  /\ UNCHANGED <<op, row, done, lock, why>>

Acquire(r) ==
  /\ pc[r] = "lockwait"
  /\ lock[row[r]] = Free
  /\ lock' = [lock EXCEPT ![row[r]] = r]
  /\ Goto(r, "work")
  /\ UNCHANGED <<op, row, done, age, borrowed, overtook, why>>

(* Commit, rollback or close: the connection goes back to the pool and the *)
(* database drops the transaction's lock.                                  *)
Unlocked(r) == [x \in Rows |-> IF lock[x] = r THEN Free ELSE lock[x]]

CloseAndLeak(r) == /\ borrowed' = borrowed     \* bug: no finally
                   /\ lock' = Unlocked(r)
                   /\ age' = [age EXCEPT ![r] = 0]

Close(r) == /\ borrowed' = borrowed \ {r}
            /\ lock' = Unlocked(r)
            /\ age' = [age EXCEPT ![r] = 0]

(* The session ends well; the operation goes on to the next one, or is     *)
(* done or refuses what it read.                                           *)
Finish(r) ==
  /\ pc[r] = "work"
  /\ Close(r)
  /\ done' = [done EXCEPT ![r] = @ + 1]
  /\ \/ Goto(r, "served")
     \/ done[r] + 1 < Len(Plan[op[r]]) /\ Goto(r, "between")
  /\ UNCHANGED <<op, row, overtook, why>>

FailWith(r, reason) == Goto(r, "failed") /\ why' = [why EXCEPT ![r] = reason]

(* A statement, the commit or the connection fails, or the task is         *)
(* cancelled; __aexit__ and connect() close the session whatever happened. *)
Fail(r) ==
  /\ pc[r] \in Running
  /\ Close(r)
  /\ FailWith(r, "error")
  /\ UNCHANGED <<op, row, done, overtook>>

NeverTimedOut(r) == FALSE     \* bug: lock_timeout = 0

LockWaitIsOver(r) == lock[row[r]] # Free /\ age[r] >= LockTimeout

LockTimesOut(r) ==
  /\ pc[r] = "lockwait"
  /\ LockWaitIsOver(r)
  /\ Close(r)
  /\ FailWith(r, "lock")
  /\ UNCHANGED <<op, row, done, overtook>>

PoolTimesOut(r) ==
  /\ pc[r] = "queue"
  /\ age[r] = PoolTimeout
  /\ FailWith(r, "pool")
  /\ UNCHANGED <<op, row, done, age, borrowed, lock, overtook>>

(* Somebody else's transaction on one of the rows.  A lock that is given   *)
(* up goes to those who wait for it and not to a newcomer.                 *)
OutsiderLocks(x) == /\ lock[x] = Free
                    /\ ~\E r \in Requests : pc[r] = "lockwait" /\ row[r] = x
                    /\ lock' = [lock EXCEPT ![x] = Outsider]
                    /\ UNCHANGED <<pc, op, row, done, age, borrowed, overtook, why>>
OutsiderUnlocks(x) == /\ lock[x] = Outsider
                      /\ lock' = [lock EXCEPT ![x] = Free]
                      /\ UNCHANGED <<pc, op, row, done, age, borrowed, overtook, why>>

(* What a request may still wait for before something must happen to it.   *)
MayWait(r) ==
  /\ pc[r] = "queue" => age[r] < PoolTimeout /\ Cardinality(borrowed) >= Capacity
  /\ pc[r] = "lockwait" => ~LockWaitIsOver(r) /\ lock[row[r]] # Free
  /\ pc[r] = "work" => age[r] < SessionTime

(* Ages past pool_timeout, which no wait and no session may reach, are not *)
(* told apart.                                                             *)
Older(a) == IF a <= PoolTimeout THEN a + 1 ELSE a

Tick ==
  /\ \E r \in Requests : pc[r] \in {"queue"} \cup Running
  /\ \A r \in Requests : MayWait(r)
  /\ age' = [r \in Requests |-> IF pc[r] \in {"queue"} \cup Running THEN Older(age[r]) ELSE age[r]]
  /\ UNCHANGED <<pc, op, row, done, borrowed, lock, overtook, why>>

RequestStep(r) == \/ Ask(r) \/ Borrow(r) \/ Acquire(r) \/ Finish(r) \/ Fail(r)
                  \/ LockTimesOut(r) \/ PoolTimesOut(r)

Next == \/ \E r \in Requests : RequestStep(r)
        \/ \E x \in Rows : OutsiderLocks(x) \/ OutsiderUnlocks(x)
        \/ Tick

(* Everything but the outsider makes progress: the event loop runs every   *)
(* task that can run, the database answers, and time passes.  A request    *)
(* that has not arrived yet need not arrive.                               *)
Fairness ==
  /\ \A r \in Requests :
       WF_vars((pc[r] = "between" /\ Ask(r)) \/ Borrow(r) \/ Acquire(r) \/ Finish(r)
               \/ LockTimesOut(r) \/ PoolTimesOut(r))
  /\ WF_vars(Tick)

Spec == Init /\ [][Next]_vars /\ Fairness

-----------------------------------------------------------------------------
(* Whatever ends a session - a commit, a failed statement, a lock_timeout  *)
(* - its connection goes back and its row's lock is dropped: exactly the   *)
(* requests that are inside a session have a connection, and whoever holds *)
(* a lock is one of them (unit_of_work.py 29-40).                          *)
Inside == {r \in Requests : pc[r] \in Running}
NothingLeaks ==
  /\ borrowed = Inside
  /\ \A x \in Rows : lock[x] \in Requests => pc[lock[x]] = "work" /\ row[lock[x]] = x

(* Requests wait for each other's rows with a connection in their hand,    *)
(* and yet an exhausted pool never waits for itself: somebody who has a    *)
(* connection can go on, or it is an outsider they all wait for.           *)
CanGoOn(r) == pc[r] = "work" \/ (pc[r] = "lockwait" /\ lock[row[r]] = Free)
PoolNeverWaitsForItself ==
  Cardinality(borrowed) >= Capacity =>
    \/ \E r \in borrowed : CanGoOn(r)
    \/ \E x \in Rows : lock[x] = Outsider

(* A request that is refused a connection after pool_timeout was crowded   *)
(* out: while it waited at least Capacity different requests were given    *)
(* one.  A few that wait for a locked row cannot do it, because            *)
(* lock_timeout gives their connections back before pool_timeout           *)
(* (database_connection_handler.py 18-27 and 32-36).                       *)
RefusedOnlyWhenCrowded ==
  \A r \in Requests : why[r] = "pool" => Cardinality(overtook[r]) >= Capacity

(* Every request that arrives is answered, whatever the outsider does.     *)
EveryRequestEnds == \A r \in Requests : pc[r] = "queue" ~> pc[r] \in Ended

(* Clauses of the inductive invariant.                                     *)
AgesAreBounded ==
  /\ Cardinality(borrowed) <= Capacity
  /\ \A r \in Requests :
       /\ pc[r] \in {"absent", "between"} => age[r] = 0
       /\ pc[r] = "lockwait" => age[r] <= LockTimeout
       /\ pc[r] = "work" => age[r] <= SessionTime
EldersAreOld ==    \* who was not seen getting a connection had it before
  \A q \in Queue : \A r \in borrowed \ overtook[q] : age[r] >= age[q]
LongWaitIsCrowded ==
  \A q \in Queue : age[q] > SessionTime => Cardinality(overtook[q]) >= Capacity

RefusedHaveEnded == \A r \in Requests : why[r] = "pool" => pc[r] = "failed"

IInv == /\ TypeOK /\ NothingLeaks /\ AgesAreBounded /\ EldersAreOld
        /\ LongWaitIsCrowded /\ RefusedHaveEnded /\ RefusedOnlyWhenCrowded

============================================================================
