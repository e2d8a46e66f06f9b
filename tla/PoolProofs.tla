----------------------------- MODULE PoolProofs -----------------------------
(***************************************************************************)
(* Proofs, for any requests, rows, capacity and time-outs with LockTimeout *)
(* <= SessionTime < PoolTimeout, that the pool leaks nothing, never waits  *)
(* for itself and refuses only who was crowded out.                        *)
(***************************************************************************)
EXTENDS ConnectionPool, FiniteSetTheorems, TLAPS

USE DEF Running, Ended, Free, Outsider, Queue, Inside

LEMMA InitIInv == Init => IInv
<1> SUFFICES ASSUME Init PROVE IInv
  OBVIOUS
<1>1. TypeOK
  BY PoolAssumption DEF Init, TypeOK, Rows, RowsOf
<1>2. NothingLeaks
  BY OwnersAssumption DEF Init, NothingLeaks
<1>3. Cardinality(borrowed) = 0
  BY FS_EmptySet DEF Init
<1> QED
  BY <1>1, <1>2, <1>3, PoolAssumption DEF Init, IInv, AgesAreBounded, EldersAreOld,
     LongWaitIsCrowded, RefusedHaveEnded, RefusedOnlyWhenCrowded

LEMMA TypeStep == TypeOK /\ [Next]_vars => TypeOK'
<1> SUFFICES ASSUME TypeOK, [Next]_vars PROVE TypeOK'
  OBVIOUS
<1> USE DEF TypeOK, Goto
<1>1. ASSUME NEW r \in Requests, Ask(r) PROVE TypeOK'
  BY <1>1 DEF Ask
<1>2. ASSUME NEW r \in Requests, Borrow(r) PROVE TypeOK'
  <2>1. overtook' \in [Requests -> SUBSET Requests]
    BY <1>2 DEF Borrow, Overtakes
  <2>2. age' \in [Requests -> 0..PoolTimeout]
    BY <1>2, PoolAssumption DEF Borrow
  <2> QED
    BY <1>2, <2>1, <2>2 DEF Borrow
<1>3. ASSUME NEW r \in Requests, Acquire(r) PROVE TypeOK'
  BY <1>3 DEF Acquire
<1>4. ASSUME NEW r \in Requests, Close(r)
      PROVE  /\ borrowed' \in SUBSET Requests
             /\ age' \in [Requests -> 0..PoolTimeout]
             /\ lock' \in [Rows -> Requests \cup {Free, Outsider}]
  BY <1>4, PoolAssumption DEF Close, Unlocked
<1>5. ASSUME NEW r \in Requests, Finish(r) PROVE TypeOK'
  <2>1. done' \in [Requests -> Nat]
    BY <1>5 DEF Finish
  <2>2. pc' = [pc EXCEPT ![r] = "served"] \/ pc' = [pc EXCEPT ![r] = "between"]
    BY <1>5 DEF Finish
  <2>3. Close(r) /\ UNCHANGED <<op, row, overtook, why>>
    BY <1>5 DEF Finish
  <2> QED
    BY <1>4, <2>1, <2>2, <2>3
<1>6. ASSUME NEW r \in Requests, Fail(r) PROVE TypeOK'
  BY <1>4, <1>6 DEF Fail, FailWith
<1>7. ASSUME NEW r \in Requests, LockTimesOut(r) PROVE TypeOK'
  BY <1>4, <1>7 DEF LockTimesOut, FailWith
<1>8. ASSUME NEW r \in Requests, PoolTimesOut(r) PROVE TypeOK'
  BY <1>8 DEF PoolTimesOut, FailWith
<1>9. ASSUME NEW x \in Rows, OutsiderLocks(x) \/ OutsiderUnlocks(x) PROVE TypeOK'
  BY <1>9 DEF OutsiderLocks, OutsiderUnlocks
<1>10. CASE Tick
  <2>1. ASSUME NEW r \in Requests, pc[r] \in {"queue"} \cup Running
        PROVE  age[r] < PoolTimeout
    <3>1. MayWait(r)
      BY <1>10 DEF Tick
    <3>2. age[r] \in Nat /\ LockTimeout <= SessionTime /\ SessionTime < PoolTimeout
          /\ LockTimeout \in Nat /\ SessionTime \in Nat /\ PoolTimeout \in Nat
      BY PoolAssumption
    <3> QED
      BY <2>1, <3>1, <3>2 DEF MayWait, LockWaitIsOver, Running
  <2>2. age' = [r \in Requests |-> IF pc[r] \in {"queue"} \cup Running THEN Older(age[r]) ELSE age[r]]
    BY <1>10 DEF Tick
  <2>3. \A r \in Requests : age[r] \in 0..PoolTimeout
    OBVIOUS
  <2>4. age' \in [Requests -> 0..PoolTimeout]
    BY <2>1, <2>2, <2>3, PoolAssumption DEF Older
  <2> QED
    BY <1>10, <2>4 DEF Tick
<1>11. CASE UNCHANGED vars
  BY <1>11 DEF vars
<1> QED
  BY <1>1, <1>2, <1>3, <1>5, <1>6, <1>7, <1>8, <1>9, <1>10, <1>11 DEF Next, RequestStep

(* A session that is closed leaves neither a connection nor a lock.        *)
LEMMA CloseStep ==
  ASSUME TypeOK, NothingLeaks, NEW r \in Requests, pc[r] \in Running, Close(r),
         NEW label \in {"served", "between", "failed"}, Goto(r, label), UNCHANGED row
  PROVE  NothingLeaks'
<1>1. borrowed' = Inside'
  BY DEF TypeOK, NothingLeaks, Close, Goto
<1>2. ASSUME NEW x \in Rows, lock'[x] \in Requests
      PROVE  pc'[lock'[x]] = "work" /\ row'[lock'[x]] = x
  <2>1. lock'[x] = lock[x] /\ lock[x] # r
    BY <1>2, OwnersAssumption DEF TypeOK, Close, Unlocked
  <2> QED
    BY <1>2, <2>1 DEF TypeOK, NothingLeaks, Goto
<1> QED
  BY <1>1, <1>2 DEF NothingLeaks

LEMMA LeakStep == TypeOK /\ NothingLeaks /\ [Next]_vars => NothingLeaks'
<1> SUFFICES ASSUME TypeOK, NothingLeaks, [Next]_vars PROVE NothingLeaks'
  OBVIOUS
<1> USE DEF TypeOK, NothingLeaks, Goto
<1>1. ASSUME NEW r \in Requests, Ask(r) PROVE NothingLeaks'
  BY <1>1 DEF Ask
<1>2. ASSUME NEW r \in Requests, Borrow(r) PROVE NothingLeaks'
  BY <1>2 DEF Borrow
<1>3. ASSUME NEW r \in Requests, Acquire(r) PROVE NothingLeaks'
  <2>1. borrowed' = Inside'
    BY <1>3 DEF Acquire
  <2>2. ASSUME NEW x \in Rows, lock'[x] \in Requests
        PROVE  pc'[lock'[x]] = "work" /\ row'[lock'[x]] = x
    BY <1>3, <2>2 DEF Acquire
  <2> QED
    BY <2>1, <2>2
<1>4. ASSUME NEW r \in Requests, Finish(r) PROVE NothingLeaks'
  BY <1>4, CloseStep DEF Finish
<1>5. ASSUME NEW r \in Requests, Fail(r) \/ LockTimesOut(r) PROVE NothingLeaks'
  BY <1>5, CloseStep DEF Fail, LockTimesOut, FailWith
<1>6. ASSUME NEW r \in Requests, PoolTimesOut(r) PROVE NothingLeaks'
  BY <1>6 DEF PoolTimesOut, FailWith
<1>7. ASSUME NEW x \in Rows, OutsiderLocks(x) \/ OutsiderUnlocks(x) PROVE NothingLeaks'
  BY <1>7, OwnersAssumption DEF OutsiderLocks, OutsiderUnlocks
<1>8. CASE Tick
  BY <1>8 DEF Tick
<1>9. CASE UNCHANGED vars
  BY <1>9 DEF vars
<1> QED
  BY <1>1, <1>2, <1>3, <1>4, <1>5, <1>6, <1>7, <1>8, <1>9 DEF Next, RequestStep

-----------------------------------------------------------------------------
(* Time: who waits for a lock has waited less than LockTimeout when a Tick *)
(* comes, who works less than SessionTime, and who queues finds the pool   *)
(* exhausted.                                                              *)

LEMMA Finite ==
  ASSUME NEW S \in SUBSET Requests PROVE IsFiniteSet(S) /\ Cardinality(S) \in Nat
  BY FS_Subset, FS_CardinalityType, PoolAssumption

LEMMA NewcomersAreNew ==
  ASSUME IInv, NEW q \in Requests, pc[q] \in {"absent", "between"} PROVE age[q] = 0
<1>1. AgesAreBounded
  BY DEF IInv
<1> QED
  BY <1>1, Zenon DEF AgesAreBounded

LEMMA AgesStep == IInv /\ [Next]_vars => AgesAreBounded'
<1> SUFFICES ASSUME IInv, [Next]_vars PROVE AgesAreBounded'
  OBVIOUS
<1> USE PoolAssumption DEF IInv, TypeOK, AgesAreBounded, Goto
<1>0. IsFiniteSet(borrowed) /\ Cardinality(borrowed) \in Nat
  BY Finite
<1>1. ASSUME NEW r \in Requests, Ask(r) PROVE AgesAreBounded'
  BY <1>1 DEF Ask
<1>2. ASSUME NEW r \in Requests, Borrow(r) PROVE AgesAreBounded'
  <2>1. Cardinality(borrowed) + 1 <= Capacity
    BY <1>0, <1>2 DEF Borrow
  <2>2. Cardinality(borrowed \cup {r}) <= Cardinality(borrowed) + 1
    <3>1. Cardinality(borrowed \cup {r}) =
            IF r \in borrowed THEN Cardinality(borrowed) ELSE Cardinality(borrowed) + 1
      BY <1>0, FS_AddElement
    <3> QED
      BY <1>0, <3>1
  <2>3. Cardinality(borrowed') <= Capacity
    BY <1>0, <1>2, <2>1, <2>2, Finite DEF Borrow
  <2> QED
    BY <1>2, <2>3 DEF Borrow
<1>3. ASSUME NEW r \in Requests, Acquire(r) PROVE AgesAreBounded'
  BY <1>3 DEF Acquire
<1>4. ASSUME NEW r \in Requests, Finish(r) \/ Fail(r) \/ LockTimesOut(r)
      PROVE  AgesAreBounded'
  <2>1. Close(r)
    BY <1>4 DEF Finish, Fail, LockTimesOut
  <2>2. Cardinality(borrowed') <= Capacity
    <3>1. borrowed' = borrowed \ {r}
      BY <2>1 DEF Close
    <3>2. Cardinality(borrowed \ {r}) <= Cardinality(borrowed)
      BY <1>0, FS_Subset
    <3> QED
      BY <1>0, <3>1, <3>2, Finite
  <2>3. pc'[r] \notin Running /\ \A q \in Requests \ {r} : pc'[q] = pc[q]
    BY <1>4 DEF Finish, Fail, LockTimesOut, FailWith
  <2>4. age'[r] = 0 /\ \A q \in Requests \ {r} : age'[q] = age[q]
    BY <2>1 DEF Close
  <2> QED
    BY <2>2, <2>3, <2>4
<1>5. ASSUME NEW r \in Requests, PoolTimesOut(r) PROVE AgesAreBounded'
  BY <1>5 DEF PoolTimesOut, FailWith
<1>6. ASSUME NEW x \in Rows, OutsiderLocks(x) \/ OutsiderUnlocks(x) PROVE AgesAreBounded'
  BY <1>6 DEF OutsiderLocks, OutsiderUnlocks
<1>7. CASE Tick
  BY <1>7 DEF Tick, MayWait, LockWaitIsOver, Older
<1>8. CASE UNCHANGED vars
  BY <1>8 DEF vars
<1> QED
  BY <1>1, <1>2, <1>3, <1>4, <1>5, <1>6, <1>7, <1>8 DEF Next, RequestStep

(* Whoever has a connection and was not seen to get it has had it for at   *)
(* least as long as the queue's head has queued.                           *)
LEMMA EldersStep == IInv /\ [Next]_vars => EldersAreOld'
<1> SUFFICES ASSUME IInv, [Next]_vars,
                    NEW q \in Requests, pc'[q] = "queue",
                    NEW h \in borrowed', h \notin overtook'[q]
             PROVE  age'[h] >= age'[q]
  BY DEF EldersAreOld
<1> USE PoolAssumption DEF IInv, TypeOK, Goto
<1>0. borrowed = Inside /\ borrowed' = Inside' /\ h \in Requests /\ h # q
  <2>1. NothingLeaks'
    BY LeakStep
  <2> QED
    BY <2>1 DEF NothingLeaks
<1>1. ASSUME NEW r \in Requests, Ask(r) PROVE age'[h] >= age'[q]
  <2>1. CASE r = q
    <3>1. age' = age /\ pc[q] \in {"absent", "between"}
      BY <1>1, <2>1 DEF Ask
    <3>2. age[q] = 0
      BY <3>1, NewcomersAreNew
    <3>3. age[h] \in 0..PoolTimeout
      BY <1>0
    <3> QED
      BY <3>1, <3>2, <3>3
  <2>2. CASE r # q
    BY <1>0, <1>1, <2>2 DEF Ask, EldersAreOld
  <2> QED
    BY <2>1, <2>2
<1>2. ASSUME NEW r \in Requests, Borrow(r) PROVE age'[h] >= age'[q]
  <2>1. r # q /\ pc[q] = "queue"
    BY <1>2 DEF Borrow
  <2>2. overtook'[q] = overtook[q] \cup {r}
    BY <1>2, <2>1 DEF Borrow, Overtakes
  <2>3. h # r /\ h \in borrowed /\ age'[h] = age[h] /\ age'[q] = age[q]
    BY <1>2, <2>1, <2>2 DEF Borrow
  <2> QED
    BY <2>1, <2>2, <2>3 DEF EldersAreOld
<1>3. ASSUME NEW r \in Requests, Acquire(r) PROVE age'[h] >= age'[q]
  BY <1>0, <1>3 DEF Acquire, EldersAreOld
<1>4. ASSUME NEW r \in Requests, Finish(r) \/ Fail(r) \/ LockTimesOut(r)
      PROVE  age'[h] >= age'[q]
  <2>1. Close(r) /\ overtook' = overtook
    BY <1>4 DEF Finish, Fail, LockTimesOut
  <2>2. r # q /\ pc[q] = "queue"
    BY <1>4 DEF Finish, Fail, LockTimesOut, FailWith
  <2>3. h \in borrowed /\ h # r /\ age'[h] = age[h] /\ age'[q] = age[q]
    BY <2>1, <2>2, <1>0 DEF Close
  <2> QED
    BY <2>1, <2>2, <2>3 DEF EldersAreOld
<1>5. ASSUME NEW r \in Requests, PoolTimesOut(r) PROVE age'[h] >= age'[q]
  BY <1>0, <1>5 DEF PoolTimesOut, FailWith, EldersAreOld
<1>6. ASSUME NEW x \in Rows, OutsiderLocks(x) \/ OutsiderUnlocks(x)
      PROVE  age'[h] >= age'[q]
  BY <1>6 DEF OutsiderLocks, OutsiderUnlocks, EldersAreOld
<1>7. CASE Tick
  <2>1. h \in borrowed /\ pc[q] = "queue" /\ age[h] >= age[q]
    BY <1>7 DEF Tick, EldersAreOld
  <2>2. pc[h] \in Running
    BY <1>0, <2>1
  <2>3. age'[h] = Older(age[h]) /\ age'[q] = Older(age[q])
    BY <1>0, <1>7, <2>1, <2>2 DEF Tick
  <2> QED
    BY <1>0, <2>1, <2>3 DEF Older
<1>8. CASE UNCHANGED vars
  BY <1>8 DEF vars, EldersAreOld
<1> QED
  BY <1>1, <1>2, <1>3, <1>4, <1>5, <1>6, <1>7, <1>8 DEF Next, RequestStep

(* The history of one who queues only grows while he queues.               *)
LEMMA CrowdStep == IInv /\ [Next]_vars => LongWaitIsCrowded'
<1> SUFFICES ASSUME IInv, [Next]_vars,
                    NEW q \in Requests, pc'[q] = "queue", age'[q] > SessionTime
             PROVE  Cardinality(overtook'[q]) >= Capacity
  BY DEF LongWaitIsCrowded
<1> USE PoolAssumption DEF IInv, TypeOK, Goto
<1>0. IsFiniteSet(overtook[q]) /\ IsFiniteSet(borrowed) /\ IsFiniteSet(overtook'[q])
  <2>1. overtook'[q] \in SUBSET Requests
    BY TypeStep
  <2> QED
    BY <2>1, Finite
<1>1. ASSUME pc[q] = "queue", age'[q] = age[q], overtook[q] \subseteq overtook'[q]
      PROVE  Cardinality(overtook'[q]) >= Capacity
  <2>1. Cardinality(overtook[q]) >= Capacity
    BY <1>1 DEF LongWaitIsCrowded
  <2> QED
    <3>2. Cardinality(overtook[q]) <= Cardinality(overtook'[q])
      BY <1>0, <1>1, FS_Subset
    <3>3. Cardinality(overtook[q]) \in Nat /\ Cardinality(overtook'[q]) \in Nat
      BY <1>0, FS_CardinalityType
    <3> QED
      BY <2>1, <3>2, <3>3
<1>2. ASSUME NEW r \in Requests, Ask(r) PROVE Cardinality(overtook'[q]) >= Capacity
  <2>1. CASE r = q
    <3>1. age' = age /\ pc[q] \in {"absent", "between"}
      BY <1>2, <2>1 DEF Ask
    <3>2. age[q] = 0
      BY <3>1, NewcomersAreNew
    <3> QED
      BY <3>1, <3>2
  <2>2. CASE r # q
    BY <1>1, <1>2, <2>2 DEF Ask
  <2> QED
    BY <2>1, <2>2
<1>3. ASSUME NEW r \in Requests, Borrow(r) PROVE Cardinality(overtook'[q]) >= Capacity
  BY <1>1, <1>3 DEF Borrow, Overtakes
<1>4. ASSUME NEW r \in Requests, Acquire(r) PROVE Cardinality(overtook'[q]) >= Capacity
  BY <1>1, <1>4 DEF Acquire
<1>5. ASSUME NEW r \in Requests, Finish(r) \/ Fail(r) \/ LockTimesOut(r)
      PROVE  Cardinality(overtook'[q]) >= Capacity
  <2>1. Close(r) /\ overtook' = overtook /\ r # q /\ pc[q] = "queue"
    BY <1>5 DEF Finish, Fail, LockTimesOut, FailWith
  <2> QED
    BY <1>1, <2>1 DEF Close
<1>6. ASSUME NEW r \in Requests, PoolTimesOut(r)
      PROVE  Cardinality(overtook'[q]) >= Capacity
  BY <1>1, <1>6 DEF PoolTimesOut, FailWith
<1>7. ASSUME NEW x \in Rows, OutsiderLocks(x) \/ OutsiderUnlocks(x)
      PROVE  Cardinality(overtook'[q]) >= Capacity
  BY <1>1, <1>7 DEF OutsiderLocks, OutsiderUnlocks
<1>8. CASE Tick
  <2>1. pc[q] = "queue" /\ overtook' = overtook /\ age[q] >= SessionTime
    BY <1>8 DEF Tick, Older
  <2>2. Cardinality(borrowed) >= Capacity
    BY <1>8, <2>1 DEF Tick, MayWait
  <2>3. ASSUME NEW h \in borrowed PROVE h \in overtook[q]
    <3>1. pc[h] \in Running /\ h \in Requests
      BY <2>3 DEF NothingLeaks
    <3>2. age[h] < SessionTime
      BY <1>8, <3>1 DEF Tick, MayWait, LockWaitIsOver, AgesAreBounded
    <3> QED
      BY <2>1, <2>3, <3>1, <3>2 DEF EldersAreOld
  <2>4. Cardinality(borrowed) <= Cardinality(overtook[q])
    BY <1>0, <2>3, FS_Subset
  <2> QED
    BY <1>0, <2>1, <2>2, <2>4, FS_CardinalityType
<1>9. CASE UNCHANGED vars
  BY <1>1, <1>9 DEF vars
<1> QED
  BY <1>2, <1>3, <1>4, <1>5, <1>6, <1>7, <1>8, <1>9 DEF Next, RequestStep

LEMMA RefusedStep == IInv /\ [Next]_vars => RefusedHaveEnded' /\ RefusedOnlyWhenCrowded'
<1> SUFFICES ASSUME IInv, [Next]_vars,
                    NEW q \in Requests, why'[q] = "pool"
             PROVE  pc'[q] = "failed" /\ Cardinality(overtook'[q]) >= Capacity
  BY DEF RefusedHaveEnded, RefusedOnlyWhenCrowded
<1> USE PoolAssumption DEF IInv, TypeOK, Goto
<1>1. CASE why[q] = "pool"
  <2>1. pc[q] = "failed"
    BY <1>1 DEF RefusedHaveEnded
  <2>2. overtook'[q] = overtook[q] /\ pc'[q] = "failed"
    <3>1. ASSUME NEW r \in Requests, RequestStep(r)
          PROVE  overtook'[q] = overtook[q] /\ pc'[q] = "failed"
      <4>1. r # q
        BY <2>1, <3>1 DEF RequestStep, Ask, Borrow, Acquire, Finish, Fail, LockTimesOut,
           PoolTimesOut
      <4>2. pc'[q] = pc[q]
        BY <3>1, <4>1 DEF RequestStep, Ask, Borrow, Acquire, Finish, Fail, LockTimesOut,
           PoolTimesOut, FailWith
      <4>3. overtook'[q] = overtook[q]
        BY <2>1, <3>1, <4>1 DEF RequestStep, Ask, Borrow, Acquire, Finish, Fail,
           LockTimesOut, PoolTimesOut, Overtakes
      <4> QED
        BY <2>1, <4>2, <4>3
    <3>2. ASSUME NEW x \in Rows, OutsiderLocks(x) \/ OutsiderUnlocks(x)
          PROVE  overtook'[q] = overtook[q] /\ pc'[q] = "failed"
      BY <2>1, <3>2 DEF OutsiderLocks, OutsiderUnlocks
    <3> QED
      BY <2>1, <3>1, <3>2 DEF Next, Tick, vars
  <2> QED
    BY <1>1, <2>2 DEF RefusedOnlyWhenCrowded
<1>2. CASE why[q] # "pool"
  <2>1. PoolTimesOut(q)
    BY <1>2 DEF Next, RequestStep, Ask, Borrow, Acquire, Finish, Fail, LockTimesOut,
       PoolTimesOut, FailWith, OutsiderLocks, OutsiderUnlocks, Tick, vars
  <2> QED
    BY <2>1 DEF PoolTimesOut, LongWaitIsCrowded, FailWith
<1> QED
  BY <1>1, <1>2

LEMMA InvStep == IInv /\ [Next]_vars => IInv'
  BY TypeStep, LeakStep, AgesStep, EldersStep, CrowdStep, RefusedStep DEF IInv

(* An exhausted pool: whoever waits for a row waits for somebody who works *)
(* with a connection of his own, or for the outsider.                      *)
LEMMA SomebodyGoesOn == IInv => PoolNeverWaitsForItself
<1> SUFFICES ASSUME IInv, Cardinality(borrowed) >= Capacity
             PROVE  \/ \E r \in borrowed : CanGoOn(r)
                    \/ \E x \in Rows : lock[x] = Outsider
  BY DEF PoolNeverWaitsForItself
<1>1. PICK r \in borrowed : r \in Inside
  <2>1. borrowed # {}
    BY FS_EmptySet, PoolAssumption
  <2> QED
    BY <2>1 DEF IInv, NothingLeaks
<1>2. CASE pc[r] = "work" \/ lock[row[r]] = Free
  BY <1>1, <1>2 DEF CanGoOn
<1>3. CASE lock[row[r]] \in Requests
  BY <1>1, <1>3 DEF IInv, TypeOK, NothingLeaks, CanGoOn
<1>4. row[r] \in Rows /\ lock[row[r]] \in Requests \cup {Free, Outsider}
  BY <1>1 DEF IInv, TypeOK
<1> QED
  BY <1>1, <1>2, <1>3, <1>4

-----------------------------------------------------------------------------
LEMMA Invariance == Spec => []IInv
<1>1. IInv /\ [Next]_vars => IInv'
  BY InvStep
<1> QED
  BY <1>1, InitIInv, PTL DEF Spec

(* Type correctness.                                                       *)
THEOREM TypeCorrect == Spec => []TypeOK
<1>1. IInv => TypeOK
  BY DEF IInv
<1> QED
  BY <1>1, Invariance, PTL

(* Every way to leave a session gives its connection and its lock back.    *)
THEOREM SessionsLeakNothing == Spec => []NothingLeaks
<1>1. IInv => NothingLeaks
  BY DEF IInv
<1> QED
  BY <1>1, Invariance, PTL

(* No deadlock between row locks and the pool.                             *)
THEOREM PoolGoesOn == Spec => []PoolNeverWaitsForItself
  BY Invariance, SomebodyGoesOn, PTL

(* A pool_timeout means that Capacity other requests were served first.    *)
THEOREM RefusalsAreCrowds == Spec => []RefusedOnlyWhenCrowded
<1>1. IInv => RefusedOnlyWhenCrowded
  BY DEF IInv
<1> QED
  BY <1>1, Invariance, PTL

============================================================================
