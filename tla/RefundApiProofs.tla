-------------------------- MODULE RefundApiProofs --------------------------
(***************************************************************************)
(* Proofs, for every instance of RefundApi, that IInv is inductive, and of *)
(* the properties that follow from it.                                     *)
(***************************************************************************)
EXTENDS RefundApiProperties, TLAPS

USE DEF Ids, Files, Finished, Locking

-----------------------------------------------------------------------------
(* Facts about calls. *)

LEMMA CallFacts ==
  ASSUME NEW c \in Calls
  PROVE  /\ c.user \in Users
         /\ c.op \in {"create", "delete", "review", "pay"}
         /\ c.op = "create" => c.amount \in Amounts
         /\ c.op # "create" => c.target \in Ids
         /\ c.op = "review" => c.want \in Statuses /\ c.reason \in BOOLEAN
<1>1. c \in AnyCall
  BY CallsAssumption
<1>2. CASE c \in CreateCall
  BY <1>2 DEF CreateCall
<1>3. CASE c \in DeleteCall
  BY <1>3 DEF DeleteCall
<1>4. CASE c \in ReviewCall
  BY <1>4 DEF ReviewCall
<1>5. CASE c \in PayCall
  BY <1>5 DEF PayCall
<1> QED
  BY <1>1, <1>2, <1>3, <1>4, <1>5 DEF AnyCall

LEMMA NoneIsNotACall == None \notin Calls
BY CallsAssumption, RequestsAssumption

(* The call of a request in progress. *)
LEMMA RequestCall ==
  ASSUME TypeOK, CallInv, NEW r \in Requests, pc[r] # "idle"
  PROVE  call[r] \in Calls
BY DEF TypeOK, CallInv, CallOK

(* A row and a line of the history that a request writes are well typed.   *)
LEMMA NewRowType ==
  ASSUME TypeOK, CallInv, NEW r \in Requests, pc[r] = "insertRefund",
         Cents(call[r].amount) # "overflow"
  PROVE  NewRow(r) \in Row
<1>1. call[r] \in Calls /\ call[r].op = "create"
  BY RequestCall DEF CallInv, CallOK
<1>2. call[r].user \in Users /\ call[r].amount \in Amounts
  BY <1>1, CallFacts
<1>3. Cents(call[r].amount) \in {"zero", "positive"}
  BY <1>2 DEF Cents, Amounts
<1> QED
  BY <1>2, <1>3 DEF NewRow, Row, Statuses

LEMMA NewReviewType ==
  ASSUME IInv, NEW r \in Requests, pc[r] \in {"insertReview", "commit"}
  PROVE  NewReview(r) \in Review
<1>1. call[r] \in Calls /\ call[r].op \in {"review", "pay"}
  BY RequestCall DEF IInv, CallInv, CallOK
<1>2. call[r].user \in Users
  BY <1>1, CallFacts
<1>3. CASE call[r].op = "pay"
  BY <1>2, <1>3 DEF NewReview, Review, Statuses
<1>4. CASE call[r].op = "review"
  <2>1. seen[r] # None /\ seen[r] \in Row
    BY <1>4 DEF IInv, SeenInv, SeenOK, TypeOK
  <2>2. seen[r].status \in Statuses
    BY <2>1 DEF Row
  <2>3. call[r].want \in Statuses /\ call[r].reason \in BOOLEAN
    BY <1>1, <1>4, CallFacts
  <2> QED
    BY <1>2, <1>4, <2>2, <2>3 DEF NewReview, Review
<1> QED
  BY <1>1, <1>3, <1>4

-----------------------------------------------------------------------------
(* Type correctness, action by action. *)

LEMMA UnlockType ==
  ASSUME TypeOK, NEW r \in Requests, Unlock(r)
  PROVE  lock' \in [Ids -> Requests \cup {None}]
BY DEF TypeOK, Unlock

LEMMA ArriveType ==
  ASSUME IInv, NEW r \in Requests, Arrive(r)
  PROVE  TypeOK'
<1> USE DEF IInv, TypeOK, Receive, Goto, Answer, AnswerAt, database, storages, Labels, Replies,
            Successes, Refusals, Failures
<1>1. PICK c \in Calls : \/ CreateRefund(r, c) \/ DeleteRead(r, c)
                         \/ ReviewRefund(r, c) \/ PayRefund(r, c)
  BY DEF Arrive
<1>2. c.op # "create" => refunds[c.target] \in Row \cup {None}
  BY CallFacts
<1>3. CASE CreateRefund(r, c)
  BY <1>3 DEF CreateRefund
<1>4. CASE DeleteRead(r, c)
  BY <1>4, <1>2 DEF DeleteRead, DeleteVerdict
<1>5. CASE ReviewRefund(r, c)
  BY <1>5 DEF ReviewRefund
<1>6. CASE PayRefund(r, c)
  BY <1>6, <1>2 DEF PayRefund, PayVerdict
<1> QED
  BY <1>1, <1>3, <1>4, <1>5, <1>6

(* The program counter and the answer, whatever the step. *)
LEMMA StepControlType ==
  ASSUME TypeOK, NEW r \in Requests, Step(r)
  PROVE  pc' \in [Requests -> Labels] /\ reply' \in [Requests -> Replies]
<1> USE DEF TypeOK, Goto, Answer, AnswerAt, Raise, Labels, Replies, Successes, Refusals, Failures
<1>1. CASE InsertRefund(r)
  BY <1>1 DEF InsertRefund
<1>2. CASE UndoReceipt(r)
  BY <1>2 DEF UndoReceipt
<1>3. CASE CreateReread(r)
  BY <1>3 DEF CreateReread
<1>4. CASE DeleteRow(r)
  BY <1>4 DEF DeleteRow
<1>5. CASE DeleteCommit(r)
  BY <1>5 DEF DeleteCommit
<1>6. CASE DeleteReceipt(r)
  BY <1>6 DEF DeleteReceipt
<1>7. CASE SelectForUpdate(r)
  BY <1>7 DEF SelectForUpdate, ReviewVerdict
<1>8. CASE UpdateStatus(r)
  BY <1>8 DEF UpdateStatus
<1>9. CASE InsertReview(r)
  BY <1>9 DEF InsertReview
<1>10. CASE Commit(r)
  BY <1>10 DEF Commit, CloseFailed, CommitRaised
<1>11. CASE Rollback(r)
  BY <1>11 DEF Rollback
<1>12. CASE MarkAsPaid(r)
  BY <1>12 DEF MarkAsPaid
<1>13. CASE UndoPayment(r)
  BY <1>13 DEF UndoPayment
<1>14. CASE PayReread(r)
  BY <1>14 DEF PayReread
<1>15. CASE LockTimeout(r)
  BY <1>15 DEF LockTimeout
<1> QED
  BY <1>1, <1>2, <1>3, <1>4, <1>5, <1>6, <1>7, <1>8, <1>9, <1>10,
     <1>11, <1>12, <1>13, <1>14, <1>15 DEF Step

DataOK == /\ call \in [Requests -> Calls \cup {None}]
          /\ seen \in [Requests -> Row \cup {None}]
          /\ refunds \in [Ids -> Row \cup {None}]
          /\ reviews \in [Ids -> Seq(Review)]
          /\ lock \in [Ids -> Requests \cup {None}]
          /\ staged \in [Requests -> [row: Row \cup {None}, review: Review \cup {None}]]
          /\ receipts \in SUBSET Files
          /\ payments \in SUBSET Files
          /\ logged \in SUBSET ({"receipts", "payments"} \X Files)
          /\ crashes \in 0..MaxCrashes

LEMMA StepDataType ==
  ASSUME IInv, NEW r \in Requests, Step(r)
  PROVE  DataOK'
<1> USE DEF DataOK, database, storages
<1>a. TypeOK /\ CallInv /\ DataOK
  BY DEF IInv, TypeOK
<1>b. pc[r] \notin {"idle", "insertRefund", "undoReceipt", "createReread", "done", "dead"}
        => Target(r) \in Ids
  BY <1>a, StepControlType, RequestCall, CallFacts DEF CallInv, CallOK, Target, TypeOK, Labels
<1>c. r \in Ids
  OBVIOUS
<1>1. CASE InsertRefund(r)
  BY <1>1, <1>a, <1>c, NewRowType DEF InsertRefund
<1>2. CASE UndoReceipt(r)
  BY <1>2, <1>a DEF UndoReceipt, DeleteReceiptQuietly
<1>3. CASE CreateReread(r)
  BY <1>3, <1>a DEF CreateReread
<1>4. CASE DeleteRow(r)
  BY <1>4, <1>a, <1>b, SMTT(20), ZenonT(20) DEF DeleteRow, Lock
<1>5. CASE DeleteCommit(r)
  BY <1>5, <1>a, UnlockType DEF DeleteCommit
<1>6. CASE DeleteReceipt(r)
  <2>1. seen[r].receipt \in Files
    BY <1>6, <1>a DEF DeleteReceipt, IInv, SeenInv, SeenOK, Row
  <2> QED
    BY <1>6, <1>a, <2>1 DEF DeleteReceipt, DeleteReceiptQuietly
<1>7. CASE SelectForUpdate(r)
  BY <1>7, <1>a, <1>b DEF SelectForUpdate, Lock, ReviewVerdict
<1>8. CASE UpdateStatus(r)
  <2>1. call[r].want \in Statuses
    BY <1>8, <1>a, RequestCall, CallFacts DEF UpdateStatus, CallInv, CallOK
  <2>2. refunds[Target(r)] \in Row
    BY <1>8, <1>a, <1>b DEF UpdateStatus, IInv, SeenInv, SeenOK, CallInv, CallOK
  <2>3. [refunds[Target(r)] EXCEPT !.status = call[r].want] \in Row
    BY <2>1, <2>2 DEF Row
  <2> QED
    BY <1>8, <1>a, <2>3, SMTT(20), ZenonT(20) DEF UpdateStatus
<1>9. CASE InsertReview(r)
  BY <1>9, <1>a, NewReviewType, SMTT(20), ZenonT(20) DEF InsertReview
<1>10. CASE Commit(r)
  <2>1. UNCHANGED <<call, seen, receipts, payments, logged, crashes>>
    BY <1>10 DEF Commit
  <2>2. CASE UNCHANGED <<refunds, reviews, lock, staged>>
    BY <1>a, <2>1, <2>2
  <2>3. CASE Publish(r)
    <3>1. Target(r) \in Ids /\ lock' \in [Ids -> Requests \cup {None}]
      BY <1>10, <1>a, <1>b, <2>3, UnlockType DEF Commit, Publish
    <3>2. staged[r].row \in Row \cup {None} /\ staged[r].review \in Review \cup {None}
      BY <1>a
    <3>3. refunds' \in [Ids -> Row \cup {None}]
      BY <1>a, <2>3, <3>1, <3>2 DEF Publish
    <3>4. reviews' \in [Ids -> Seq(Review)]
      BY <1>a, <2>3, <3>1, <3>2 DEF Publish
    <3>5. staged' \in [Requests -> [row: Row \cup {None}, review: Review \cup {None}]]
      BY <1>a, <2>3 DEF Publish, NoWrites
    <3> QED
      BY <1>a, <2>1, <3>1, <3>3, <3>4, <3>5
  <2> QED
    BY <1>10, <2>2, <2>3 DEF Commit
<1>11. CASE Rollback(r)
  BY <1>11, <1>a, UnlockType DEF Rollback, NoWrites
<1>12. CASE MarkAsPaid(r)
  <2>1. Matches(r, "approved") =>
          [refunds[Target(r)] EXCEPT !.status = "paid", !.payment = r] \in Row
    BY <1>12, <1>a, <1>b, SMTT(20), ZenonT(20) DEF MarkAsPaid, Matches, Row, Statuses
  <2>2. staged' \in [Requests -> [row: Row \cup {None}, review: Review \cup {None}]]
    BY <1>12, <1>a, <2>1, SMTT(20), ZenonT(20) DEF MarkAsPaid
  <2>3. lock' \in [Ids -> Requests \cup {None}]
    BY <1>12, <1>a, <1>b DEF MarkAsPaid, Lock
  <2> QED
    BY <1>12, <1>a, <2>2, <2>3 DEF MarkAsPaid
<1>13. CASE UndoPayment(r)
  BY <1>13, <1>a DEF UndoPayment, DeletePaymentQuietly
<1>14. CASE PayReread(r)
  BY <1>14, <1>a DEF PayReread
<1>15. CASE LockTimeout(r)
  BY <1>15, <1>a DEF LockTimeout
<1> QED
  BY <1>1, <1>2, <1>3, <1>4, <1>5, <1>6, <1>7, <1>8, <1>9, <1>10, <1>11, <1>12, <1>13, <1>14,
     <1>15 DEF Step

LEMMA StepType ==
  ASSUME IInv, NEW r \in Requests, Step(r)
  PROVE  TypeOK'
BY StepControlType, StepDataType DEF IInv, TypeOK, DataOK

LEMMA CrashType ==
  ASSUME IInv, Crash
  PROVE  TypeOK'
BY FaultsAssumption DEF IInv, TypeOK, Crash, NoWrites, Labels, storages

-----------------------------------------------------------------------------
(* What a step leaves alone. *)

(* A request moves only its own control and its own local variables. *)
LEMMA OthersOnArrive ==
  ASSUME TypeOK, NEW r \in Requests, Arrive(r), NEW q \in Requests, q # r
  PROVE  /\ pc'[q] = pc[q]
         /\ call'[q] = call[q]
         /\ seen'[q] = seen[q]
<1> USE DEF TypeOK, Receive, Goto, Answer, AnswerAt
<1>1. PICK c \in Calls : \/ CreateRefund(r, c) \/ DeleteRead(r, c)
                         \/ ReviewRefund(r, c) \/ PayRefund(r, c)
  BY DEF Arrive
<1>2. CASE CreateRefund(r, c)
  BY <1>2 DEF CreateRefund, CreateIsValid
<1>3. CASE DeleteRead(r, c)
  BY <1>3 DEF DeleteRead, DeleteVerdict
<1>4. CASE ReviewRefund(r, c)
  BY <1>4 DEF ReviewRefund
<1>5. CASE PayRefund(r, c)
  BY <1>5 DEF PayRefund, PayVerdict
<1> QED
  BY <1>1, <1>2, <1>3, <1>4, <1>5

LEMMA OthersOnStep ==
  ASSUME TypeOK, NEW r \in Requests, Step(r), NEW q \in Requests, q # r
  PROVE  /\ pc'[q] = pc[q]
         /\ seen'[q] = seen[q]
         /\ staged'[q] = staged[q]
<1> USE DEF TypeOK, Goto, Answer, AnswerAt, Raise, database
<1>1. CASE InsertRefund(r)
  BY <1>1 DEF InsertRefund
<1>2. CASE UndoReceipt(r)
  BY <1>2 DEF UndoReceipt
<1>3. CASE CreateReread(r)
  BY <1>3 DEF CreateReread
<1>4. CASE DeleteRow(r)
  BY <1>4 DEF DeleteRow, Lock
<1>5. CASE DeleteCommit(r)
  BY <1>5 DEF DeleteCommit
<1>6. CASE DeleteReceipt(r)
  BY <1>6 DEF DeleteReceipt
<1>7. CASE SelectForUpdate(r)
  BY <1>7 DEF SelectForUpdate, ReviewVerdict
<1>8. CASE UpdateStatus(r)
  BY <1>8 DEF UpdateStatus
<1>9. CASE InsertReview(r)
  BY <1>9 DEF InsertReview
<1>10. CASE Commit(r)
  BY <1>10 DEF Commit, CloseFailed, CommitRaised, Publish
<1>11. CASE Rollback(r)
  BY <1>11 DEF Rollback
<1>12. CASE MarkAsPaid(r)
  BY <1>12 DEF MarkAsPaid
<1>13. CASE UndoPayment(r)
  BY <1>13 DEF UndoPayment
<1>14. CASE PayReread(r)
  BY <1>14 DEF PayReread
<1>15. CASE LockTimeout(r)
  BY <1>15 DEF LockTimeout
<1> QED
  BY <1>1, <1>2, <1>3, <1>4, <1>5, <1>6, <1>7, <1>8, <1>9, <1>10,
     <1>11, <1>12, <1>13, <1>14, <1>15 DEF Step

(* Only an arrival writes a call, and it writes nothing in the database.   *)
LEMMA CallOnStep ==
  ASSUME NEW r \in Requests, Step(r)
  PROVE  call' = call
BY DEF Step, InsertRefund, UndoReceipt, CreateReread, DeleteRow, DeleteCommit, DeleteReceipt,
       SelectForUpdate, UpdateStatus, InsertReview, Commit, Rollback, MarkAsPaid, UndoPayment,
       PayReread, LockTimeout

LEMMA DatabaseOnArrive ==
  ASSUME NEW r \in Requests, Arrive(r)
  PROVE  UNCHANGED <<refunds, reviews, lock, staged>>
BY DEF Arrive, CreateRefund, DeleteRead, ReviewRefund, PayRefund, database

(* Rows and history change at three steps only. *)
LEMMA TablesOnStep ==
  ASSUME NEW r \in Requests, Step(r)
  PROVE  \/ UNCHANGED <<refunds, reviews>>
         \/ InsertRefund(r) \/ DeleteCommit(r) \/ Commit(r)
BY DEF Step, UndoReceipt, CreateReread, DeleteRow, DeleteReceipt,
       SelectForUpdate, UpdateStatus, InsertReview, Rollback, MarkAsPaid, UndoPayment,
       PayReread, LockTimeout, database

-----------------------------------------------------------------------------
(* CallInv: the operation of a request never changes on its way. *)

LEMMA ArriveCallInv ==
  ASSUME IInv, NEW r \in Requests, Arrive(r)
  PROVE  CallInv'
<1> SUFFICES ASSUME NEW q \in Requests PROVE CallOK(q)'
  BY DEF CallInv
<1>a. CallOK(q)
  BY DEF IInv, CallInv
<1>b. CASE q # r
  BY <1>a, <1>b, OthersOnArrive DEF IInv, CallOK, ReviewIsValid
<1>c. CASE q = r
  <2> USE NoneIsNotACall, <1>c DEF IInv, TypeOK, CallOK, Receive, Goto, Answer, AnswerAt
<2>1. PICK c \in Calls : \/ CreateRefund(r, c) \/ DeleteRead(r, c)
                         \/ ReviewRefund(r, c) \/ PayRefund(r, c)
  BY DEF Arrive
<2>2. CASE CreateRefund(r, c)
  BY <2>2 DEF CreateRefund, CreateIsValid
<2>3. CASE DeleteRead(r, c)
  BY <2>3 DEF DeleteRead, DeleteVerdict
<2>4. CASE ReviewRefund(r, c)
  BY <2>4 DEF ReviewRefund
<2>5. CASE PayRefund(r, c)
  BY <2>5 DEF PayRefund, PayVerdict
<2> QED
  BY <2>1, <2>2, <2>3, <2>4, <2>5
<1> QED
  BY <1>b, <1>c

LEMMA StepCallInv ==
  ASSUME IInv, NEW r \in Requests, Step(r)
  PROVE  CallInv'
<1> SUFFICES ASSUME NEW q \in Requests PROVE CallOK(q)'
  BY DEF CallInv
<1>a. CallOK(q)
  BY DEF IInv, CallInv
<1>b. CASE q # r
  BY <1>a, <1>b, OthersOnStep, CallOnStep DEF IInv, CallOK, ReviewIsValid
<1>c. CASE q = r
  <2> USE <1>c, <1>a, CallOnStep DEF IInv, TypeOK, CallOK, Goto, Answer, AnswerAt, Raise, ReviewIsValid
<2>1. CASE InsertRefund(r)
  BY <2>1 DEF InsertRefund
<2>2. CASE UndoReceipt(r)
  BY <2>2 DEF UndoReceipt
<2>3. CASE CreateReread(r)
  BY <2>3 DEF CreateReread
<2>4. CASE DeleteRow(r)
  BY <2>4 DEF DeleteRow, Lock
<2>5. CASE DeleteCommit(r)
  BY <2>5 DEF DeleteCommit
<2>6. CASE DeleteReceipt(r)
  BY <2>6 DEF DeleteReceipt
<2>7. CASE SelectForUpdate(r)
  BY <2>7 DEF SelectForUpdate, ReviewVerdict
<2>8. CASE UpdateStatus(r)
  BY <2>8 DEF UpdateStatus
<2>9. CASE InsertReview(r)
  BY <2>9 DEF InsertReview
<2>10. CASE Commit(r)
  BY <2>10 DEF Commit, CloseFailed, CommitRaised, Publish
<2>11. CASE Rollback(r)
  BY <2>11 DEF Rollback
<2>12. CASE MarkAsPaid(r)
  BY <2>12 DEF MarkAsPaid
<2>13. CASE UndoPayment(r)
  BY <2>13 DEF UndoPayment
<2>14. CASE PayReread(r)
  BY <2>14 DEF PayReread
<2>15. CASE LockTimeout(r)
  BY <2>15 DEF LockTimeout
<2> QED
  BY <2>1, <2>2, <2>3, <2>4, <2>5, <2>6, <2>7, <2>8, <2>9, <2>10,
     <2>11, <2>12, <2>13, <2>14, <2>15 DEF Step
<1> QED
  BY <1>b, <1>c

-----------------------------------------------------------------------------
(* LockInv: a lock belongs to the transaction that took it. *)

Holding == Locking \cup {"rollback"}

LEMMA LockHolder ==
  ASSUME TypeOK, LockInv
  PROVE  /\ None \notin Requests
         /\ \A q \in Requests : pc[q] \in Locking => lock[Target(q)] = q
         /\ \A i \in Ids : lock[i] # None => /\ lock[i] \in Requests
                                             /\ pc[lock[i]] \in Holding
                                             /\ call[lock[i]].target = i
BY RequestsAssumption DEF TypeOK, LockInv, LocksAreHeldByTransactions, Holding

(* The three things a step of r does to the locks. *)
LEMMA LockKept ==
  ASSUME TypeOK, LockInv, NEW r \in Requests, lock' = lock,
         \A q \in Requests : q # r => pc'[q] = pc[q],
         \A q \in Requests : pc'[q] # "idle" /\ pc[q] # "idle" => call'[q] = call[q],
         pc'[r] \in Locking => pc[r] \in Locking,
         pc[r] \in Holding => pc'[r] \in Holding
  PROVE  LockInv'
<1>1. \A q \in Requests : pc'[q] \in Locking => lock'[Target(q)'] = q
  BY LockHolder DEF Target
<1>2. \A i \in Ids : lock'[i] # None => pc'[lock'[i]] \in Holding /\ call'[lock'[i]].target = i
  BY LockHolder DEF Holding
<1> QED
  BY <1>1, <1>2 DEF LockInv, LocksAreHeldByTransactions, Holding, Target

LEMMA LockTaken ==
  ASSUME TypeOK, LockInv, NEW r \in Requests, Lock(r), Target(r) \in Ids, lock[Target(r)] = None,
         \A q \in Requests : q # r => pc'[q] = pc[q],
         call' = call,
         pc[r] \notin Holding,
         pc'[r] \in Holding
  PROVE  LockInv'
<1>1. lock' = [lock EXCEPT ![Target(r)] = r] /\ lock \in [Ids -> Requests \cup {None}]
  BY DEF Lock, TypeOK
<1>2. \A q \in Requests : pc'[q] \in Locking => lock'[Target(q)] = q
  BY <1>1, LockHolder
<1>3. \A i \in Ids : lock'[i] # None => pc'[lock'[i]] \in Holding /\ call[lock'[i]].target = i
  BY <1>1, LockHolder DEF Target
<1> QED
  BY <1>2, <1>3 DEF LockInv, LocksAreHeldByTransactions, Holding, Target

LEMMA LockReleased ==
  ASSUME TypeOK, LockInv, NEW r \in Requests, Unlock(r),
         \A q \in Requests : q # r => pc'[q] = pc[q],
         \A q \in Requests : pc[q] \in Locking => Target(q) \in Ids,
         call' = call,
         pc'[r] \notin Locking
  PROVE  LockInv'
<1>1. /\ \A i \in Ids : lock'[i] = IF lock[i] = r THEN None ELSE lock[i]
  BY DEF Unlock
<1>3. \A q \in Requests : pc'[q] \in Locking => lock'[Target(q)] = q
  BY <1>1, LockHolder
<1>4. \A i \in Ids : lock'[i] # None => pc'[lock'[i]] \in Holding /\ call[lock'[i]].target = i
  BY <1>1, LockHolder
<1> QED
  BY <1>3, <1>4 DEF LockInv, LocksAreHeldByTransactions, Holding, Target

LEMMA ArriveLockInv ==
  ASSUME IInv, NEW r \in Requests, Arrive(r)
  PROVE  LockInv'
<1> USE DEF Receive, Goto, Answer, AnswerAt
<1>1. PICK c \in Calls : \/ CreateRefund(r, c) \/ DeleteRead(r, c)
                         \/ ReviewRefund(r, c) \/ PayRefund(r, c)
  BY DEF Arrive
<1>2. pc[r] = "idle"
  BY <1>1 DEF CreateRefund, DeleteRead, ReviewRefund, PayRefund
<1>3. pc'[r] \notin Holding
  BY <1>1, <1>2 DEF CreateRefund, DeleteRead, ReviewRefund, PayRefund, IInv, TypeOK, Holding
<1>4. lock' = lock
  BY DatabaseOnArrive
<1>5. \A q \in Requests : q # r => pc'[q] = pc[q] /\ call'[q] = call[q]
  BY OthersOnArrive DEF IInv
<1> QED
  BY <1>2, <1>3, <1>4, <1>5, LockKept DEF IInv, Holding

LEMMA StepLockInv ==
  ASSUME IInv, NEW r \in Requests, Step(r)
  PROVE  LockInv'
<1>a. /\ TypeOK /\ LockInv
      /\ pc \in [Requests -> Labels]
      /\ \A q \in Requests : q # r => pc'[q] = pc[q]
      /\ call' = call
  BY OthersOnStep, CallOnStep DEF IInv, TypeOK
<1>b. pc[r] \in {"deleteRefund", "selectForUpdate", "markAsPaid"} => Target(r) \in Ids
  BY RequestCall, CallFacts DEF IInv, CallInv, CallOK, Target
<1>c. \A q \in Requests : pc[q] \in Locking => Target(q) \in Ids
  BY RequestCall, CallFacts DEF IInv, CallInv, CallOK, Target
<1> USE DEF Goto, Answer, AnswerAt, Raise, database, Holding
<1>1. CASE InsertRefund(r)
  BY <1>1, <1>a, LockKept DEF InsertRefund
<1>2. CASE UndoReceipt(r)
  BY <1>2, <1>a, LockKept DEF UndoReceipt
<1>3. CASE CreateReread(r)
  BY <1>3, <1>a, LockKept DEF CreateReread
<1>4. CASE DeleteRow(r)
  <2>1. \/ Lock(r) /\ lock[Target(r)] = None /\ pc'[r] \in Holding
        \/ lock' = lock /\ pc'[r] \notin Locking
    BY <1>4, <1>a DEF DeleteRow, Locked, Matches
  <2> QED
    BY <1>4, <2>1, <1>a, <1>b, LockTaken, LockKept DEF DeleteRow
<1>5. CASE DeleteCommit(r)
  BY <1>5, <1>a, <1>c, LockReleased DEF DeleteCommit
<1>6. CASE DeleteReceipt(r)
  BY <1>6, <1>a, LockKept DEF DeleteReceipt
<1>7. CASE SelectForUpdate(r)
  <2>1. \/ Lock(r) /\ lock[Target(r)] = None /\ pc'[r] \in Holding
        \/ lock' = lock /\ pc'[r] \notin Locking
    BY <1>7, <1>a DEF SelectForUpdate, Locked, Matches, ReviewVerdict
  <2> QED
    BY <1>7, <2>1, <1>a, <1>b, LockTaken, LockKept DEF SelectForUpdate
<1>8. CASE UpdateStatus(r)
  BY <1>8, <1>a, LockKept DEF UpdateStatus
<1>9. CASE InsertReview(r)
  BY <1>9, <1>a, LockKept DEF InsertReview
<1>10. CASE Commit(r)
  <2>1. \/ Unlock(r) /\ pc'[r] \notin Locking
        \/ lock' = lock /\ pc'[r] = "rollback"
    BY <1>10, <1>a DEF Commit, Publish, CloseFailed, CommitRaised
  <2> QED
    BY <1>10, <2>1, <1>a, <1>c, LockKept, LockReleased DEF Commit
<1>11. CASE Rollback(r)
  BY <1>11, <1>a, <1>c, LockReleased DEF Rollback
<1>12. CASE MarkAsPaid(r)
  <2>1. \/ Lock(r) /\ lock[Target(r)] = None /\ pc'[r] \in Holding
        \/ lock' = lock /\ pc'[r] \notin Locking
    BY <1>12, <1>a DEF MarkAsPaid, Locked, Matches
  <2> QED
    BY <1>12, <2>1, <1>a, <1>b, LockTaken, LockKept DEF MarkAsPaid
<1>13. CASE UndoPayment(r)
  BY <1>13, <1>a, LockKept DEF UndoPayment
<1>14. CASE PayReread(r)
  BY <1>14, <1>a, LockKept DEF PayReread
<1>15. CASE LockTimeout(r)
  BY <1>15, <1>a, LockKept DEF LockTimeout
<1> QED
  BY <1>1, <1>2, <1>3, <1>4, <1>5, <1>6, <1>7, <1>8, <1>9, <1>10,
     <1>11, <1>12, <1>13, <1>14, <1>15 DEF Step

-----------------------------------------------------------------------------
(* RowInv: rows keep their owner and their files. *)

(* A request never returns to the beginning, nor a served payment to its   *)
(* transaction.                                                            *)
LEMMA NoWayBack ==
  ASSUME IInv, NEW r \in Requests, Step(r)
  PROVE  /\ pc[r] # "idle" /\ pc'[r] \notin {"idle", "insertRefund"}
         /\ call[r].op = "pay" /\ pc[r] \notin {"markAsPaid", "insertReview", "commit"}
              => pc'[r] \notin {"markAsPaid", "insertReview", "commit"}
<1>a. CallOK(r) /\ pc \in [Requests -> Labels]
  BY DEF IInv, CallInv, TypeOK
<1> USE DEF Goto, Answer, AnswerAt, Raise, CallOK
<1>1. CASE InsertRefund(r)
  BY <1>1, <1>a DEF InsertRefund
<1>2. CASE UndoReceipt(r)
  BY <1>2, <1>a DEF UndoReceipt
<1>3. CASE CreateReread(r)
  BY <1>3, <1>a DEF CreateReread
<1>4. CASE DeleteRow(r)
  BY <1>4, <1>a DEF DeleteRow
<1>5. CASE DeleteCommit(r)
  BY <1>5, <1>a DEF DeleteCommit
<1>6. CASE DeleteReceipt(r)
  BY <1>6, <1>a DEF DeleteReceipt
<1>7. CASE SelectForUpdate(r)
  BY <1>7, <1>a DEF SelectForUpdate, ReviewVerdict
<1>8. CASE UpdateStatus(r)
  BY <1>8, <1>a DEF UpdateStatus
<1>9. CASE InsertReview(r)
  BY <1>9, <1>a DEF InsertReview
<1>10. CASE Commit(r)
  BY <1>10, <1>a DEF Commit, CloseFailed, CommitRaised
<1>11. CASE Rollback(r)
  BY <1>11, <1>a DEF Rollback
<1>12. CASE MarkAsPaid(r)
  BY <1>12, <1>a DEF MarkAsPaid
<1>13. CASE UndoPayment(r)
  BY <1>13, <1>a DEF UndoPayment
<1>14. CASE PayReread(r)
  BY <1>14, <1>a DEF PayReread
<1>15. CASE LockTimeout(r)
  BY <1>15, <1>a DEF LockTimeout
<1> QED
  BY <1>1, <1>2, <1>3, <1>4, <1>5, <1>6, <1>7, <1>8, <1>9, <1>10,
     <1>11, <1>12, <1>13, <1>14, <1>15 DEF Step

LEMMA ExistsKept ==
  ASSUME IInv, NEW r \in Requests, Arrive(r) \/ Step(r), NEW i \in Ids, Exists(i)
  PROVE  Exists(i)' /\ Owner(i)' = Owner(i)
<1>1. CASE Arrive(r)
  <2>1. pc[r] = "idle"
    BY <1>1 DEF Arrive, CreateRefund, DeleteRead, ReviewRefund, PayRefund, Receive
  <2>2. i \in Requests => pc'[i] = pc[i] /\ call'[i] = call[i]
    BY <1>1, <2>1, OthersOnArrive DEF Exists, IInv
  <2> QED
    BY <2>2 DEF Exists, Owner
<1>2. CASE Step(r)
  <2>1. i \in Requests => pc'[i] = pc[i] \/ i = r
    BY <1>2, OthersOnStep DEF IInv
  <2> QED
    BY <1>2, <2>1, NoWayBack, CallOnStep DEF Exists, Owner
<1> QED
  BY <1>1, <1>2

(* A row whose owner and files a step leaves alone. *)
LEMMA RowKept ==
  ASSUME IInv, NEW r \in Requests, Arrive(r) \/ Step(r), NEW i \in Ids,
         refunds[i] # None, refunds'[i] # None,
         refunds'[i].owner = refunds[i].owner,
         refunds'[i].receipt = refunds[i].receipt,
         refunds'[i].payment = refunds[i].payment
  PROVE  RowOK(i)'
<1>1. RowOK(i) /\ Exists(i)
  BY DEF IInv, RowInv, RowOK
<1>2. Exists(i)' /\ Owner(i)' = Owner(i)
  BY <1>1, ExistsKept
<1> DEFINE p == refunds[i].payment
<1>3. ASSUME p \in Requests, pc[p] \notin {"idle", "markAsPaid", "insertReview", "commit"},
             call[p].op = "pay"
      PROVE  pc'[p] \notin {"idle", "markAsPaid", "insertReview", "commit"} /\ call'[p] = call[p]
  <2>1. CASE Arrive(r)
    <3>1. pc[r] = "idle"
      BY <2>1 DEF Arrive, CreateRefund, DeleteRead, ReviewRefund, PayRefund, Receive
    <3> QED
      BY <1>3, <2>1, <3>1, OthersOnArrive DEF IInv
  <2>2. CASE Step(r)
    <3>1. CASE p = r
      BY <1>3, <2>2, <3>1, NoWayBack, CallOnStep
    <3>2. CASE p # r
      BY <1>3, <2>2, <3>2, OthersOnStep, CallOnStep DEF IInv
    <3> QED
      BY <3>1, <3>2
  <2> QED
    BY <2>1, <2>2
<1> QED
  BY <1>1, <1>2, <1>3 DEF RowOK, Target

LEMMA ArriveRowInv ==
  ASSUME IInv, NEW r \in Requests, Arrive(r)
  PROVE  RowInv'
<1> SUFFICES ASSUME NEW i \in Ids PROVE RowOK(i)'
  BY DEF RowInv
<1>1. refunds' = refunds
  BY DatabaseOnArrive
<1>2. CASE refunds[i] = None
  BY <1>1, <1>2 DEF RowOK
<1>3. CASE refunds[i] # None
  BY <1>1, <1>3, RowKept
<1> QED
  BY <1>2, <1>3

LEMMA StepRowInv ==
  ASSUME IInv, NEW r \in Requests, Step(r)
  PROVE  RowInv'
<1> SUFFICES ASSUME NEW i \in Ids, refunds'[i] # None PROVE RowOK(i)'
  BY DEF RowInv, RowOK
<1>a. refunds \in [Ids -> Row \cup {None}] /\ pc \in [Requests -> Labels]
  BY DEF IInv, TypeOK
<1>1. CASE refunds'[i] = refunds[i]
  BY <1>1, RowKept
<1>2. CASE InsertRefund(r)
  <2>1. CASE i = r /\ refunds'[i] = NewRow(r)
    <3>1. pc'[r] \in {"createReread", "undoReceipt"}
      BY <1>2, <1>a DEF InsertRefund, Goto
    <3>2. call' = call /\ r \notin Seeds
      BY CallOnStep, RequestsAssumption
    <3> QED
      BY <2>1, <3>1, <3>2 DEF RowOK, Exists, Owner, NewRow
  <2> QED
    BY <1>1, <1>2, <1>a, <2>1 DEF InsertRefund
<1>3. CASE DeleteCommit(r)
  BY <1>1, <1>3, <1>a DEF DeleteCommit
<1>4. CASE Commit(r)
  <2>1. CASE i = Target(r) /\ refunds'[i] = staged[r].row
    <3>1. refunds[i] \in Row /\ refunds[i] # None
      BY <1>4, <1>a, <2>1 DEF Commit, IInv, SeenInv, SeenOK, CallInv, CallOK, Matches
    <3>2. staged[r].row = IF call[r].op = "pay"
                          THEN [refunds[i] EXCEPT !.status = "paid", !.payment = r]
                          ELSE [refunds[i] EXCEPT !.status = call[r].want]
      BY <1>4, <2>1 DEF Commit, IInv, StagedInv, StagedOK
    <3>3. CASE call[r].op # "pay"
      BY <2>1, <3>1, <3>2, <3>3, RowKept DEF Row
    <3>4. CASE call[r].op = "pay" /\ refunds'[i] # refunds[i]
      <4>1. RowOK(i) /\ Exists(i)' /\ Owner(i)' = Owner(i)
        BY <3>1, ExistsKept DEF IInv, RowInv, RowOK
      <4>2. pc'[r] \in {"payReread", "done", "undoPayment", "rollback"}
        BY <1>4, <1>a, <3>4 DEF Commit, Goto, Answer, AnswerAt, CloseFailed, CommitRaised, Raise
      <4>3. /\ refunds'[i].owner = refunds[i].owner
            /\ refunds'[i].receipt = refunds[i].receipt
            /\ refunds'[i].payment = r
        BY <2>1, <3>1, <3>2, <3>4 DEF Row
      <4> QED
        BY <2>1, <3>1, <3>4, <4>1, <4>2, <4>3, CallOnStep DEF RowOK, Target
    <3> QED
      BY <1>1, <3>3, <3>4
  <2> QED
    BY <1>1, <1>4, <1>a, <2>1 DEF Commit, Publish, database
<1> QED
  BY <1>1, <1>2, <1>3, <1>4, TablesOnStep

-----------------------------------------------------------------------------
(* SeenInv and StagedInv: what a transaction has read or written is still  *)
(* right, because nobody else writes a row while it holds the lock.        *)

LEMMA LockedRowExists ==
  ASSUME IInv, NEW q \in Requests, pc[q] \in Locking
  PROVE  Target(q) \in Ids /\ refunds[Target(q)] # None
<1>1. CallOK(q) /\ SeenOK(q)
  BY DEF IInv, CallInv, SeenInv
<1>2. Target(q) \in Ids
  BY <1>1, RequestCall, CallFacts DEF IInv, CallOK, Target
<1> QED
  BY <1>1, <1>2 DEF CallOK, SeenOK, Matches

LEMMA LockedRowKept ==
  ASSUME IInv, NEW r \in Requests, Step(r), NEW q \in Requests, q # r, pc[q] \in Locking
  PROVE  refunds'[Target(q)] = refunds[Target(q)]
<1>1. Target(q) \in Ids /\ refunds[Target(q)] # None
  BY LockedRowExists
<1>2. Exists(Target(q)) /\ refunds \in [Ids -> Row \cup {None}]
  BY <1>1 DEF IInv, RowInv, RowOK, TypeOK
<1>3. lock[Target(q)] = q
  BY DEF IInv, LockInv
<1>4. CASE InsertRefund(r)
  BY <1>1, <1>2, <1>4 DEF InsertRefund, Exists
<1>5. CASE DeleteCommit(r)
  <2>1. lock[Target(r)] = r
    BY <1>5 DEF DeleteCommit, IInv, LockInv
  <2> QED
    BY <1>1, <1>2, <1>3, <1>5, <2>1 DEF DeleteCommit
<1>6. CASE Commit(r)
  <2>1. lock[Target(r)] = r
    BY <1>6 DEF Commit, IInv, LockInv
  <2> QED
    BY <1>1, <1>2, <1>3, <1>6, <2>1 DEF Commit, Publish, database
<1> QED
  BY <1>4, <1>5, <1>6, TablesOnStep

LEMMA ArriveSeenInv ==
  ASSUME IInv, NEW r \in Requests, Arrive(r)
  PROVE  SeenInv'
<1> SUFFICES ASSUME NEW q \in Requests PROVE SeenOK(q)'
  BY DEF SeenInv
<1>a. SeenOK(q) /\ refunds' = refunds /\ TypeOK
  BY DatabaseOnArrive DEF IInv, SeenInv
<1>b. CASE q # r
  <2>1. pc'[q] = pc[q] /\ call'[q] = call[q] /\ seen'[q] = seen[q]
    BY <1>a, <1>b, OthersOnArrive
  <2>2. pc[q] = "markAsPaid" => /\ Exists(Target(q))'
                                /\ Owner(Target(q))' = Owner(Target(q))
    <3> SUFFICES ASSUME pc[q] = "markAsPaid"
                 PROVE  Exists(Target(q))' /\ Owner(Target(q))' = Owner(Target(q))
      OBVIOUS
    <3>1. Target(q) \in Ids /\ Exists(Target(q))
      BY <1>a, RequestCall, CallFacts DEF IInv, CallInv, CallOK, Target, SeenOK
    <3>2. /\ \A i \in Ids : Exists(i) => Exists(i)' /\ Owner(i)' = Owner(i)
      BY ExistsKept
    <3>3. Target(q)' = Target(q)
      BY <2>1 DEF Target
    <3> QED
      BY <3>1, <3>2, <3>3 DEF Exists, Owner
  <2> QED
    BY <1>a, <2>1, <2>2 DEF SeenOK, Matches, Target
<1>c. CASE q = r
  <2> USE <1>a, <1>c DEF TypeOK, SeenOK, Receive, Goto, Answer, AnswerAt
  <2>1. PICK c \in Calls : \/ CreateRefund(r, c) \/ DeleteRead(r, c)
                           \/ ReviewRefund(r, c) \/ PayRefund(r, c)
    BY DEF Arrive
  <2>2. CASE CreateRefund(r, c)
    BY <2>2 DEF CreateRefund
  <2>3. CASE DeleteRead(r, c)
    <3>1. c.target \in Ids /\ RowOK(c.target)
      BY <2>3, CallFacts DEF DeleteRead, IInv, RowInv
    <3> QED
      BY <2>3, <3>1 DEF DeleteRead, DeleteVerdict, VisibleTo, RowOK, Target
  <2>4. CASE ReviewRefund(r, c)
    BY <2>4 DEF ReviewRefund
  <2>5. CASE PayRefund(r, c)
    <3>1. c.target \in Ids /\ RowOK(c.target) /\ call'[r] = c
      BY <2>5, CallFacts DEF PayRefund, IInv, RowInv
    <3>2. pc'[r] \in {"markAsPaid", "done"}
      BY <2>5 DEF PayRefund
    <3>3. pc'[r] = "markAsPaid" => /\ refunds[c.target] # None
                                   /\ refunds[c.target].owner # c.user
      BY <2>5 DEF PayRefund, PayVerdict
    <3>4. Exists(c.target) => Exists(c.target)' /\ Owner(c.target)' = Owner(c.target)
      BY <3>1, ExistsKept DEF IInv
    <3> QED
      BY <3>1, <3>2, <3>3, <3>4 DEF RowOK, Target, Exists, Owner
  <2> QED
    BY <2>1, <2>2, <2>3, <2>4, <2>5
<1> QED
  BY <1>b, <1>c

LEMMA StepSeenInv ==
  ASSUME IInv, NEW r \in Requests, Step(r)
  PROVE  SeenInv'
<1> SUFFICES ASSUME NEW q \in Requests PROVE SeenOK(q)'
  BY DEF SeenInv
<1>a. SeenOK(q) /\ CallOK(q) /\ TypeOK /\ call' = call
  BY CallOnStep DEF IInv, SeenInv, CallInv
<1>b. CASE q # r
  <2>1. pc'[q] = pc[q] /\ seen'[q] = seen[q]
    BY <1>a, <1>b, OthersOnStep
  <2>2. pc[q] \in Locking => refunds'[Target(q)] = refunds[Target(q)]
    BY <1>b, LockedRowKept
  <2>3. pc[q] = "markAsPaid" => /\ Exists(Target(q))'
                                /\ Owner(Target(q))' = Owner(Target(q))
    <3> SUFFICES ASSUME pc[q] = "markAsPaid"
                 PROVE  Exists(Target(q))' /\ Owner(Target(q))' = Owner(Target(q))
      OBVIOUS
    <3>1. Target(q) \in Ids /\ Exists(Target(q))
      BY <1>a, RequestCall, CallFacts DEF IInv, CallInv, CallOK, Target, SeenOK
    <3>2. \A i \in Ids : Exists(i) => Exists(i)' /\ Owner(i)' = Owner(i)
      BY ExistsKept
    <3>3. Target(q)' = Target(q)
      BY <1>a DEF Target
    <3> QED
      BY <3>1, <3>2, <3>3 DEF Exists, Owner
  <2> QED
    BY <1>a, <2>1, <2>2, <2>3 DEF SeenOK, Matches, Target
<1>c. CASE q = r
  <2> USE <1>a, <1>c DEF TypeOK, SeenOK, CallOK, Goto, Answer, AnswerAt, Raise, Matches, Target
<2>1. CASE InsertRefund(r)
  BY <2>1 DEF InsertRefund
<2>2. CASE UndoReceipt(r)
  BY <2>2 DEF UndoReceipt
<2>3. CASE CreateReread(r)
  BY <2>3 DEF CreateReread
<2>4. CASE DeleteRow(r)
  BY <2>4 DEF DeleteRow
<2>5. CASE DeleteCommit(r)
  BY <2>5 DEF DeleteCommit
<2>6. CASE DeleteReceipt(r)
  BY <2>6 DEF DeleteReceipt
<2>7. CASE SelectForUpdate(r)
  BY <2>7 DEF SelectForUpdate, ReviewVerdict
<2>8. CASE UpdateStatus(r)
  BY <2>8 DEF UpdateStatus
<2>9. CASE InsertReview(r)
  BY <2>9 DEF InsertReview
<2>10. CASE Commit(r)
  BY <2>10 DEF Commit, CloseFailed, CommitRaised
<2>11. CASE Rollback(r)
  BY <2>11 DEF Rollback
<2>12. CASE MarkAsPaid(r)
  <3>1. \/ Matches(r, "approved") /\ pc'[r] = "insertReview"
        \/ pc'[r] = "rollback"
    BY <2>12 DEF MarkAsPaid
  <3>2. Target(r) \in Ids /\ RowOK(Target(r))
    BY <2>12, RequestCall, CallFacts DEF MarkAsPaid, IInv, CallInv, CallOK, RowInv, Target
  <3>3. refunds' = refunds
    BY <2>12 DEF MarkAsPaid
  <3> QED
    BY <2>12, <3>1, <3>2, <3>3 DEF MarkAsPaid, Matches, RowOK
<2>13. CASE UndoPayment(r)
  BY <2>13 DEF UndoPayment
<2>14. CASE PayReread(r)
  BY <2>14 DEF PayReread
<2>15. CASE LockTimeout(r)
  BY <2>15 DEF LockTimeout
<2> QED
  BY <2>1, <2>2, <2>3, <2>4, <2>5, <2>6, <2>7, <2>8, <2>9, <2>10,
     <2>11, <2>12, <2>13, <2>14, <2>15 DEF Step
<1> QED
  BY <1>b, <1>c

LEMMA ArriveStagedInv ==
  ASSUME IInv, NEW r \in Requests, Arrive(r)
  PROVE  StagedInv'
<1> SUFFICES ASSUME NEW q \in Requests PROVE StagedOK(q)'
  BY DEF StagedInv
<1>a. StagedOK(q) /\ refunds' = refunds /\ staged' = staged /\ TypeOK
  BY DatabaseOnArrive DEF IInv, StagedInv
<1>b. CASE q # r
  BY <1>a, <1>b, OthersOnArrive DEF StagedOK, NewReview, Target
<1>c. CASE q = r
  <2>1. pc'[r] \notin {"insertReview", "commit"}
    BY <1>a, SMTT(20), ZenonT(20) DEF TypeOK, Arrive, CreateRefund, DeleteRead, ReviewRefund, PayRefund, Receive, Goto,
                Answer, AnswerAt
  <2> QED
    BY <1>c, <2>1 DEF StagedOK
<1> QED
  BY <1>b, <1>c

LEMMA StepStagedInv ==
  ASSUME IInv, NEW r \in Requests, Step(r)
  PROVE  StagedInv'
<1> SUFFICES ASSUME NEW q \in Requests PROVE StagedOK(q)'
  BY DEF StagedInv
<1>a. StagedOK(q) /\ CallOK(q) /\ TypeOK /\ call' = call
  BY CallOnStep DEF IInv, StagedInv, CallInv
<1>b. CASE q # r
  <2>1. pc'[q] = pc[q] /\ seen'[q] = seen[q] /\ staged'[q] = staged[q]
    BY <1>a, <1>b, OthersOnStep
  <2>2. pc[q] \in Locking => refunds'[Target(q)] = refunds[Target(q)]
    BY <1>b, LockedRowKept
  <2> QED
    BY <1>a, <2>1, <2>2 DEF StagedOK, NewReview, Target
<1>c. CASE q = r
  <2>a. /\ staged \in [Requests -> [row: Row \cup {None}, review: Review \cup {None}]]
        /\ pc \in [Requests -> Labels]
    BY <1>a DEF TypeOK
  <2> USE <1>a, <1>c DEF TypeOK, StagedOK, CallOK, Goto, Answer, AnswerAt, Raise, NewReview, Target
<2>1. CASE InsertRefund(r)
  BY <2>1 DEF InsertRefund
<2>2. CASE UndoReceipt(r)
  BY <2>2 DEF UndoReceipt
<2>3. CASE CreateReread(r)
  BY <2>3 DEF CreateReread
<2>4. CASE DeleteRow(r)
  BY <2>4 DEF DeleteRow
<2>5. CASE DeleteCommit(r)
  BY <2>5 DEF DeleteCommit
<2>6. CASE DeleteReceipt(r)
  BY <2>6 DEF DeleteReceipt
<2>7. CASE SelectForUpdate(r)
  BY <2>7 DEF SelectForUpdate, ReviewVerdict
<2>8. CASE UpdateStatus(r)
  <3>1. refunds' = refunds /\ call[r].op = "review"
    BY <2>8 DEF UpdateStatus
  <3>2. \/ pc'[r] = "rollback"
        \/ /\ pc'[r] = "insertReview"
           /\ staged'[r].row = [refunds[Target(r)] EXCEPT !.status = call[r].want]
    <4> HIDE <1>a DEF TypeOK, StagedOK, CallOK, NewReview, Target
    <4>1. refunds[Target(r)] # None
      BY <2>8, LockedRowExists DEF UpdateStatus
    <4> QED
      BY <2>a, <2>8, <4>1 DEF UpdateStatus
  <3> QED
    BY <3>1, <3>2
<2>9. CASE InsertReview(r)
  <3>1. refunds' = refunds /\ seen' = seen /\ pc[r] = "insertReview"
    BY <2>9 DEF InsertReview
  <3>2. \/ pc'[r] = "rollback"
        \/ /\ pc'[r] = "commit"
           /\ staged'[r].row = staged[r].row
           /\ staged'[r].review = NewReview(r)
    <4> HIDE <1>a DEF TypeOK, StagedOK, CallOK, NewReview, Target
    <4> QED
      BY <2>a, <2>9 DEF InsertReview
  <3> QED
    BY <3>1, <3>2
<2>10. CASE Commit(r)
  BY <2>10 DEF Commit, CloseFailed, CommitRaised
<2>11. CASE Rollback(r)
  BY <2>11 DEF Rollback
<2>12. CASE MarkAsPaid(r)
  BY <2>12 DEF MarkAsPaid
<2>13. CASE UndoPayment(r)
  BY <2>13 DEF UndoPayment
<2>14. CASE PayReread(r)
  BY <2>14 DEF PayReread
<2>15. CASE LockTimeout(r)
  BY <2>15 DEF LockTimeout
<2> QED
  BY <2>1, <2>2, <2>3, <2>4, <2>5, <2>6, <2>7, <2>8, <2>9, <2>10,
     <2>11, <2>12, <2>13, <2>14, <2>15 DEF Step
<1> QED
  BY <1>b, <1>c

-----------------------------------------------------------------------------
(* HistoryExplainsStatus. *)

(* A walk that ends in pending has not begun. *)
LEMMA PendingWalk ==
  ASSUME NEW log \in Seq(Review), Lifecycle!IsWalk(log), Lifecycle!StatusAfter(log) = "pending"
  PROVE  log = <<>>
<1> SUFFICES ASSUME log # <<>> PROVE FALSE
  OBVIOUS
<1>1. Len(log) \in DOMAIN log
  OBVIOUS
<1>2. log[Len(log)].to = "pending"
  BY DEF Lifecycle!StatusAfter
<1>3. log[Len(log)].to \in {"approved", "rejected", "paid"}
  BY <1>1 DEF Lifecycle!IsWalk, Lifecycle!ReviewTargets
<1> QED
  BY <1>2, <1>3

(* A walk goes on with a line that starts where it ended. *)
LEMMA LongerWalk ==
  ASSUME NEW log \in Seq(Review), NEW d \in Review,
         Lifecycle!IsWalk(log),
         d.from = Lifecycle!StatusAfter(log),
         d.from # d.to,
         \/ d.from # "paid" /\ d.to \in ReviewTargets
         \/ d.from = "approved" /\ d.to = "paid"
  PROVE  /\ Lifecycle!IsWalk(Append(log, d))
         /\ Lifecycle!StatusAfter(Append(log, d)) = d.to
         /\ Append(log, d) # <<>>
<1> DEFINE longer == Append(log, d)
<1>1. /\ longer \in Seq(Review)
      /\ Len(longer) = Len(log) + 1
      /\ longer[Len(log) + 1] = d
      /\ \A k \in 1..Len(log) : longer[k] = log[k]
      /\ DOMAIN longer = 1..(Len(log) + 1)
      /\ DOMAIN log = 1..Len(log)
      /\ Len(log) \in Nat
  OBVIOUS
<1> SUFFICES /\ Lifecycle!IsWalk(longer)
             /\ Lifecycle!StatusAfter(longer) = d.to
             /\ longer # <<>>
  OBVIOUS
<1> HIDE DEF longer
<1>2. longer # <<>>
  BY <1>1
<1>5. longer[Len(longer)] = d
  BY <1>1
<1>6. Lifecycle!StatusAfter(longer) = d.to
  BY <1>2, <1>5 DEF Lifecycle!StatusAfter
<1>3. ASSUME NEW k \in 1..Len(log)
      PROVE  /\ longer[k].from = IF k = 1 THEN "pending" ELSE longer[k - 1].to
             /\ longer[k].from # longer[k].to
             /\ \/ longer[k].from # "paid" /\ longer[k].to \in Lifecycle!ReviewTargets
                \/ longer[k].from = "approved" /\ longer[k].to = "paid"
  BY <1>1 DEF Lifecycle!IsWalk
<1>4. CASE log = <<>>
  <2>1. Len(log) = 0 /\ d.from = "pending"
    BY <1>4 DEF Lifecycle!StatusAfter
  <2> QED
    BY <1>1, <1>2, <1>6, <2>1 DEF Lifecycle!IsWalk, Lifecycle!ReviewTargets, ReviewTargets
<1>7. CASE log # <<>>
  <2>1. Len(log) > 0 /\ d.from = log[Len(log)].to
    BY <1>1, <1>7 DEF Lifecycle!StatusAfter
  <2>2. longer[Len(log)].to = d.from
    <3>1. Len(log) \in 1..Len(log)
      BY <1>1, <2>1
    <3>2. longer[Len(log)] = log[Len(log)]
      BY <1>1, <3>1
    <3> QED
      BY <2>1, <3>2
  <2>3. ASSUME NEW k \in DOMAIN longer
        PROVE  /\ longer[k].from = IF k = 1 THEN "pending" ELSE longer[k - 1].to
               /\ longer[k].from # longer[k].to
               /\ \/ longer[k].from # "paid" /\ longer[k].to \in Lifecycle!ReviewTargets
                  \/ longer[k].from = "approved" /\ longer[k].to = "paid"
    <3>1. CASE k \in 1..Len(log)
      BY <1>3, <3>1
    <3>2. CASE k = Len(log) + 1
      <4>1. longer[k] = d /\ k - 1 = Len(log) /\ k # 1
        BY <1>1, <2>1, <3>2
      <4> QED
        BY <2>2, <4>1 DEF Lifecycle!ReviewTargets, ReviewTargets
    <3> QED
      BY <1>1, <2>3, <3>1, <3>2
  <2> QED
    BY <1>2, <1>6, <2>3 DEF Lifecycle!IsWalk
<1> QED
  BY <1>4, <1>7

LEMMA HistoryOnInit ==
  ASSUME Init
  PROVE  HistoryExplainsStatus
<1> SUFFICES ASSUME NEW i \in Ids PROVE Lifecycle!Coherent(Claims[i], reviews[i])
  BY DEF HistoryExplainsStatus
<1>1. CASE i \in Seeds
  <2>1. refunds[i] = SeedRow[i] /\ refunds[i] # None /\ reviews[i] = SeedLog[i]
    BY <1>1, SeedsAssumption, RequestsAssumption DEF Init
  <2>2. Claims[i] = [owner |-> SeedRow[i].owner, status |-> SeedRow[i].status,
                     payment |-> SeedRow[i].payment]
    BY <2>1 DEF Claims
  <2> QED
    BY <1>1, <2>1, <2>2, SeedsAreCoherent
<1>2. CASE i \notin Seeds
  <2>1. Claims[i] = None /\ reviews[i] = <<>>
    BY <1>2 DEF Init, Claims
  <2> QED
    BY <2>1 DEF Lifecycle!Coherent, Lifecycle!IsWalk
<1> QED
  BY <1>1, <1>2

(* The refunds a step leaves alone keep their history. *)
LEMMA HistoryElsewhere ==
  ASSUME IInv, NEW t \in Ids,
         \A i \in Ids : i # t => refunds'[i] = refunds[i] /\ reviews'[i] = reviews[i],
         Lifecycle!Coherent(Claims'[t], reviews'[t])
  PROVE  HistoryExplainsStatus'
<1>1. ASSUME NEW i \in Ids
      PROVE  Lifecycle!Coherent(Claims'[i], reviews'[i])
  <2>1. CASE i = t
    BY <2>1
  <2>2. CASE i # t
    <3>1. refunds'[i] = refunds[i] /\ reviews'[i] = reviews[i]
      BY <2>2
    <3>2. Claims'[i] = Claims[i]
      BY <3>1 DEF Claims
    <3> QED
      BY <3>1, <3>2 DEF IInv, HistoryExplainsStatus
  <2> QED
    BY <2>1, <2>2
<1> QED
  BY <1>1 DEF HistoryExplainsStatus, Lifecycle!Coherent, Lifecycle!IsWalk, Lifecycle!StatusAfter

(* What a decision or a payment writes when it commits. *)
LEMMA CommittedWrites ==
  ASSUME IInv, NEW r \in Requests, pc[r] = "commit", Publish(r)
  PROVE  LET t == Target(r)
             d == NewReview(r)
             row == refunds[t]
             new == staged[r].row
         IN  /\ t \in Ids /\ row # None /\ row \in Row
             /\ d \in Review
             /\ refunds' = [refunds EXCEPT ![t] = new]
             /\ reviews' = [reviews EXCEPT ![t] = Append(reviews[t], d)]
             /\ Lifecycle!IsWalk(reviews[t])
             /\ row.status = Lifecycle!StatusAfter(reviews[t])
             /\ row.status = "paid" <=> row.payment # None
             /\ \A k \in DOMAIN reviews[t] : reviews[t][k].reviewer # row.owner
             /\ d.from = row.status
             /\ d.from # d.to
             /\ d.reviewer # row.owner
             /\ \/ d.from # "paid" /\ d.to \in ReviewTargets
                \/ d.from = "approved" /\ d.to = "paid"
             /\ new \in Row /\ new # None
             /\ new.owner = row.owner
             /\ new.status = d.to
             /\ d.to = "paid" <=> new.payment # None
<1> DEFINE t == Target(r)
           d == NewReview(r)
           row == refunds[t]
           log == reviews[t]
<1>1. /\ t \in Ids /\ row # None /\ row \in Row
      /\ log \in Seq(Review)
      /\ refunds \in [Ids -> Row \cup {None}] /\ reviews \in [Ids -> Seq(Review)]
  BY LockedRowExists DEF IInv, TypeOK
<1>2. d \in Review /\ d # None
  BY NewReviewType, RequestsAssumption
<1>3. CallOK(r) /\ SeenOK(r) /\ StagedOK(r)
  BY DEF IInv, CallInv, SeenInv, StagedInv
<1>4. call[r].op \in {"review", "pay"}
  BY <1>3 DEF CallOK
<1>5. staged[r].review = d
  BY <1>3 DEF StagedOK
<1>6. refunds' = [refunds EXCEPT ![t] = staged[r].row] /\ reviews' = [reviews EXCEPT ![t] = Append(log, d)]
  BY <1>1, <1>2, <1>5 DEF Publish
<1>7. /\ Lifecycle!IsWalk(log)
      /\ row.status = Lifecycle!StatusAfter(log)
      /\ row.status = "paid" <=> row.payment # None
      /\ \A k \in DOMAIN log : log[k].reviewer # row.owner
  <2>1. Claims[t] = [owner |-> row.owner, status |-> row.status, payment |-> row.payment]
    BY <1>1 DEF Claims
  <2>2. Lifecycle!Coherent(Claims[t], log)
    BY <1>1 DEF IInv, HistoryExplainsStatus
  <2>3. Claims[t] # None
    BY <1>1, <2>1, ClaimsAreNotNone DEF Lifecycle!Claim, Row, Statuses, Lifecycle!Statuses
  <2> QED
    BY <2>1, <2>2, <2>3 DEF Lifecycle!Coherent
(* The line that is written continues the history and is not the owner's.  *)
<1>8. /\ d.from = row.status
      /\ d.from # d.to
      /\ d.reviewer # row.owner
      /\ \/ d.from # "paid" /\ d.to \in ReviewTargets
         \/ d.from = "approved" /\ d.to = "paid"
  <2>1. CASE call[r].op = "pay"
    BY <1>3, <2>1 DEF NewReview, SeenOK, Matches
  <2>2. CASE call[r].op = "review"
    BY <1>3, <2>2 DEF NewReview, SeenOK, CallOK, ReviewIsValid, Finished
  <2> QED
    BY <1>4, <2>1, <2>2
(* The row that is written has the status of that line. *)
<1>9. /\ staged[r].row \in Row /\ staged[r].row # None
      /\ staged[r].row.owner = row.owner
      /\ staged[r].row.status = d.to
      /\ d.to = "paid" <=> staged[r].row.payment # None
  <2>1. CASE call[r].op = "pay"
    <3>1. staged[r].row = [row EXCEPT !.status = "paid", !.payment = r]
      BY <1>3, <2>1 DEF StagedOK
    <3>2. [row EXCEPT !.status = "paid", !.payment = r] \in Row
      BY <1>1 DEF Row, Statuses, Files, Ids
    <3>3. d.to = "paid"
      BY <2>1 DEF NewReview
    <3>4. r # None
      BY RequestsAssumption
    <3> QED
      BY <1>1, <3>1, <3>2, <3>3, <3>4, RequestsAssumption DEF Row
  <2>2. CASE call[r].op = "review"
    <3>1. staged[r].row = [row EXCEPT !.status = call[r].want] /\ d.to = call[r].want
      BY <1>3, <2>2 DEF StagedOK, NewReview
    <3>2. call[r].want \in {"approved", "rejected"} /\ row.status # "paid"
      BY <1>3, <1>8, <2>2, <3>1 DEF CallOK, ReviewIsValid, ReviewTargets
    <3>3. [row EXCEPT !.status = call[r].want] \in Row
      BY <1>1, <3>2 DEF Row, Statuses
    <3> QED
      BY <1>1, <1>7, <3>1, <3>2, <3>3, RequestsAssumption DEF Row
  <2> QED
    BY <1>4, <2>1, <2>2
<1> QED
  BY <1>1, <1>2, <1>6, <1>7, <1>8, <1>9

LEMMA HistoryOnCommit ==
  ASSUME IInv, NEW r \in Requests, pc[r] = "commit", Publish(r)
  PROVE  HistoryExplainsStatus'
<1> DEFINE t == Target(r)
           d == NewReview(r)
           row == refunds[t]
           log == reviews[t]
<1>1. /\ t \in Ids /\ row # None /\ row \in Row
      /\ log \in Seq(Review)
      /\ refunds \in [Ids -> Row \cup {None}] /\ reviews \in [Ids -> Seq(Review)]
  BY LockedRowExists DEF IInv, TypeOK
<1>2. d \in Review
  BY CommittedWrites
<1>6. refunds' = [refunds EXCEPT ![t] = staged[r].row] /\ reviews' = [reviews EXCEPT ![t] = Append(log, d)]
  BY CommittedWrites
<1>7. /\ Lifecycle!IsWalk(log)
      /\ row.status = Lifecycle!StatusAfter(log)
      /\ \A k \in DOMAIN log : log[k].reviewer # row.owner
  BY CommittedWrites
<1>8. /\ d.from = row.status
      /\ d.from # d.to
      /\ d.reviewer # row.owner
      /\ \/ d.from # "paid" /\ d.to \in ReviewTargets
         \/ d.from = "approved" /\ d.to = "paid"
  BY CommittedWrites
<1>9. /\ staged[r].row \in Row /\ staged[r].row # None
      /\ staged[r].row.owner = row.owner
      /\ staged[r].row.status = d.to
      /\ d.to = "paid" <=> staged[r].row.payment # None
  BY CommittedWrites
<1>11. Lifecycle!Coherent(Claims'[t], reviews'[t])
  <2>1. reviews'[t] = Append(log, d) /\ refunds'[t] = staged[r].row
    BY <1>1, <1>6
  <2>2. Claims'[t] = [owner |-> row.owner, status |-> d.to, payment |-> staged[r].row.payment]
    BY <1>1, <1>9, <2>1 DEF Claims
  <2>3. /\ Lifecycle!IsWalk(Append(log, d))
        /\ Lifecycle!StatusAfter(Append(log, d)) = d.to
    BY <1>1, <1>2, <1>7, <1>8, LongerWalk
  <2>4. \A k \in DOMAIN Append(log, d) : Append(log, d)[k].reviewer # row.owner
    BY <1>1, <1>2, <1>7, <1>8
  <2>5. Lifecycle!Coherent([owner |-> row.owner, status |-> d.to,
                            payment |-> staged[r].row.payment], Append(log, d))
    <3> DEFINE claim == [owner |-> row.owner, status |-> d.to, payment |-> staged[r].row.payment]
    <3>1. claim \in Lifecycle!Claim
      BY <1>1, <1>2, <1>9 DEF Row, Review, Statuses, Lifecycle!Claim, Lifecycle!Statuses
    <3>2. claim # None
      BY <3>1, ClaimsAreNotNone
    <3>3. claim.owner = row.owner /\ claim.status = d.to /\ claim.payment = staged[r].row.payment
      OBVIOUS
    <3> HIDE DEF claim
    <3>4. Lifecycle!Coherent(claim, Append(log, d))
      BY <1>9, <2>3, <2>4, <3>2, <3>3 DEF Lifecycle!Coherent
    <3> QED
      BY <3>4 DEF claim
  <2> QED
    BY <2>1, <2>2, <2>5
<1>12. \A i \in Ids : i # t => refunds'[i] = refunds[i] /\ reviews'[i] = reviews[i]
  BY <1>1, <1>6
<1> HIDE DEF t, d, row, log
<1> QED
  BY <1>1, <1>11, <1>12, HistoryElsewhere

LEMMA HistoryUnchanged ==
  ASSUME HistoryExplainsStatus, UNCHANGED <<refunds, reviews>>
  PROVE  HistoryExplainsStatus'
<1>1. ASSUME NEW i \in Ids
      PROVE  Lifecycle!Coherent(Claims'[i], reviews'[i])
  BY DEF HistoryExplainsStatus, Claims
<1> QED
  BY <1>1 DEF HistoryExplainsStatus, Lifecycle!Coherent, Lifecycle!IsWalk, Lifecycle!StatusAfter

(* A refund that does not exist has no history. *)
LEMMA NoRowNoHistory ==
  ASSUME HistoryExplainsStatus, NEW i \in Ids, refunds[i] = None
  PROVE  reviews[i] = <<>>
<1>1. Claims[i] = None
  BY DEF Claims
<1> QED
  BY <1>1 DEF HistoryExplainsStatus, Lifecycle!Coherent

(* Nor has one that is still pending. *)
LEMMA PendingHasNoHistory ==
  ASSUME TypeOK, HistoryExplainsStatus, NEW i \in Ids,
         refunds[i] # None, refunds[i].status = "pending"
  PROVE  reviews[i] = <<>>
<1>1. reviews[i] \in Seq(Review) /\ refunds[i] \in Row
  BY DEF TypeOK
<1>2. Claims[i] = [owner |-> refunds[i].owner, status |-> refunds[i].status,
                   payment |-> refunds[i].payment]
  BY DEF Claims
<1>3. Claims[i] # None
  BY <1>1, <1>2, ClaimsAreNotNone DEF Lifecycle!Claim, Row, Statuses, Lifecycle!Statuses
<1>4. Lifecycle!Coherent(Claims[i], reviews[i])
  BY DEF HistoryExplainsStatus
<1>5. Lifecycle!IsWalk(reviews[i]) /\ Lifecycle!StatusAfter(reviews[i]) = "pending"
  BY <1>2, <1>3, <1>4 DEF Lifecycle!Coherent
<1> QED
  BY <1>1, <1>5, PendingWalk

LEMMA HistoryOnStep ==
  ASSUME IInv, NEW r \in Requests, Step(r)
  PROVE  HistoryExplainsStatus'
<1>a. /\ TypeOK /\ HistoryExplainsStatus
      /\ refunds \in [Ids -> Row \cup {None}] /\ reviews \in [Ids -> Seq(Review)]
  BY DEF IInv, TypeOK
<1>1. CASE UNCHANGED <<refunds, reviews>>
  BY <1>1, <1>a, HistoryUnchanged
<1>2. CASE InsertRefund(r) /\ refunds' # refunds
  <2>1. /\ pc[r] = "insertRefund"
        /\ Cents(call[r].amount) # "overflow"
        /\ refunds' = [refunds EXCEPT ![r] = NewRow(r)]
        /\ reviews' = reviews
    BY <1>2 DEF InsertRefund
  <2>2. NewRow(r) \in Row
    BY <2>1, NewRowType DEF IInv
  <2>3. refunds[r] = None
    BY <2>1 DEF IInv, RowInv, RowOK, Exists
  <2>4. reviews'[r] = <<>>
    BY <1>a, <2>1, <2>3, NoRowNoHistory
  <2>5. refunds'[r] = NewRow(r) /\ refunds'[r] # None
    BY <1>a, <2>1, <2>2, RequestsAssumption
  <2>6. Claims'[r] = [owner |-> NewRow(r).owner, status |-> "pending", payment |-> None]
    BY <2>5 DEF Claims, NewRow
  <2>7. Lifecycle!Coherent([owner |-> NewRow(r).owner, status |-> "pending", payment |-> None], <<>>)
    BY DEF Lifecycle!Coherent, Lifecycle!IsWalk, Lifecycle!StatusAfter
  <2>8. Lifecycle!Coherent(Claims'[r], reviews'[r])
    BY <2>4, <2>6, <2>7
  <2>9. \A i \in Ids : i # r => refunds'[i] = refunds[i] /\ reviews'[i] = reviews[i]
    BY <1>a, <2>1
  <2> QED
    BY <2>8, <2>9, HistoryElsewhere
<1>3. CASE DeleteCommit(r) /\ refunds' # refunds
  <2> DEFINE t == Target(r)
  <2>1. /\ pc[r] = "deleteCommit"
        /\ refunds' = [refunds EXCEPT ![t] = None]
        /\ reviews' = reviews
    BY <1>3 DEF DeleteCommit
  <2>2. t \in Ids /\ refunds[t] # None /\ refunds[t].status = "pending"
    BY <2>1, LockedRowExists DEF IInv, SeenInv, SeenOK, Matches
  <2>3. reviews'[t] = <<>>
    BY <1>a, <2>1, <2>2, PendingHasNoHistory
  <2>4. refunds'[t] = None
    BY <1>a, <2>1, <2>2
  <2>5. Claims'[t] = None
    BY <2>2, <2>4 DEF Claims
  <2>6. Lifecycle!Coherent(None, <<>>)
    BY DEF Lifecycle!Coherent, Lifecycle!IsWalk
  <2>7. Lifecycle!Coherent(Claims'[t], reviews'[t])
    BY <2>3, <2>5, <2>6
  <2>8. \A i \in Ids : i # t => refunds'[i] = refunds[i] /\ reviews'[i] = reviews[i]
    BY <1>a, <2>1
  <2> HIDE DEF t
  <2> QED
    BY <2>2, <2>7, <2>8, HistoryElsewhere
<1>4. CASE Commit(r)
  BY <1>1, <1>4, HistoryOnCommit DEF Commit, database
<1> QED
  <2>1. InsertRefund(r) \/ DeleteCommit(r) => reviews' = reviews
    BY DEF InsertRefund, DeleteCommit
  <2> QED
    BY <1>1, <1>2, <1>3, <1>4, <2>1, TablesOnStep

-----------------------------------------------------------------------------
(* The inductive invariant. *)

LEMMA InitInv ==
  ASSUME Init
  PROVE  IInv
<1>1. TypeOK
  <2>1. /\ refunds \in [Ids -> Row \cup {None}]
        /\ reviews \in [Ids -> Seq(Review)]
    BY SeedsAssumption DEF Init
  <2>2. staged \in [Requests -> [row: Row \cup {None}, review: Review \cup {None}]]
    BY DEF Init, NoWrites
  <2>3. /\ pc \in [Requests -> Labels] /\ reply \in [Requests -> Replies]
        /\ call \in [Requests -> Calls \cup {None}] /\ seen \in [Requests -> Row \cup {None}]
        /\ lock \in [Ids -> Requests \cup {None}]
    BY DEF Init, Labels, Replies
  <2>4. /\ receipts \in SUBSET Files /\ payments \in SUBSET Files
        /\ logged \in SUBSET ({"receipts", "payments"} \X Files)
        /\ crashes \in 0..MaxCrashes
    BY FaultsAssumption DEF Init
  <2> QED
    BY <2>1, <2>2, <2>3, <2>4 DEF TypeOK
<1>2. CallInv /\ SeenInv /\ StagedInv
  BY DEF Init, CallInv, CallOK, SeenInv, SeenOK, StagedInv, StagedOK
<1>3. LockInv
  BY DEF Init, LockInv, LocksAreHeldByTransactions
<1>4. RowInv
  BY SeedsAssumption, RequestsAssumption DEF Init, RowInv, RowOK, Exists, Owner
<1> QED
  BY <1>1, <1>2, <1>3, <1>4, HistoryOnInit DEF IInv

LEMMA CrashInv ==
  ASSUME IInv, Crash
  PROVE  IInv'
<1>1. /\ UNCHANGED <<call, seen, refunds, reviews>>
      /\ \A r \in Requests : pc'[r] \in {"idle"} \cup Finished
      /\ \A r \in Requests : pc'[r] # pc[r] => pc'[r] = "dead" /\ pc[r] # "idle"
      /\ \A i \in Ids : lock'[i] = None
  BY DEF Crash, IInv, TypeOK
<1>2. CallInv'
  BY <1>1 DEF IInv, CallInv, CallOK
<1>3. SeenInv' /\ StagedInv'
  BY <1>1 DEF SeenInv, SeenOK, StagedInv, StagedOK
<1>4. LockInv'
  BY <1>1 DEF LockInv, LocksAreHeldByTransactions
<1>5. RowInv'
  BY <1>1 DEF IInv, RowInv, RowOK, Exists, Owner, Target
<1> QED
  BY <1>1, <1>2, <1>3, <1>4, <1>5, CrashType, HistoryUnchanged DEF IInv

LEMMA StutterInv ==
  ASSUME IInv, UNCHANGED vars
  PROVE  IInv'
<1> USE DEF vars, IInv
<1>1. TypeOK'
  BY DEF TypeOK
<1>2. CallInv'
  BY DEF CallInv, CallOK
<1>3. LockInv'
  BY DEF LockInv, LocksAreHeldByTransactions, Target
<1>4. RowInv'
  BY DEF RowInv, RowOK, Exists, Owner, Target
<1>5. SeenInv'
  BY DEF SeenInv, SeenOK, Exists, Owner, Target, Matches
<1>6. StagedInv'
  BY DEF StagedInv, StagedOK, NewReview, Target
<1> QED
  BY <1>1, <1>2, <1>3, <1>4, <1>5, <1>6, HistoryUnchanged

LEMMA NextInv ==
  ASSUME IInv, [Next]_vars
  PROVE  IInv'
<1>1. ASSUME NEW r \in Requests, Arrive(r)
      PROVE  IInv'
  BY <1>1, ArriveType, ArriveCallInv, ArriveLockInv, ArriveRowInv, ArriveSeenInv,
     ArriveStagedInv, DatabaseOnArrive, HistoryUnchanged DEF IInv
<1>2. ASSUME NEW r \in Requests, Step(r)
      PROVE  IInv'
  BY <1>2, StepType, StepCallInv, StepLockInv, StepRowInv, StepSeenInv, StepStagedInv,
     HistoryOnStep DEF IInv
<1>3. CASE Crash
  BY <1>3, CrashInv
<1>4. CASE UNCHANGED vars
  BY <1>4, StutterInv
<1> QED
  BY <1>1, <1>2, <1>3, <1>4 DEF Next, Quiet

(* IInv holds in every state a behaviour reaches: the fact on which every  *)
(* property below rests.                                                   *)
THEOREM Invariance == Spec => []IInv
<1>1. Init => IInv
  BY InitInv
<1>2. IInv /\ [Next]_vars => IInv'
  BY NextInv
<1> QED
  BY <1>1, <1>2, PTL DEF Spec

(* No request, whatever the order of the awaits and whatever fails, leaves *)
(* a table, a storage or a variable of a coroutine outside its type.       *)
THEOREM TypeCorrect == Spec => []TypeOK
<1>1. IInv => TypeOK
  BY DEF IInv
<1> QED
  BY <1>1, Invariance, PTL

(* BR-015, BR-016, BR-017 and BR-022 for every number of concurrent        *)
(* requests: the log of decisions explains the status of each refund.      *)
THEOREM HistoryCorrect == Spec => []HistoryExplainsStatus
<1>1. IInv => HistoryExplainsStatus
  BY DEF IInv
<1> QED
  BY <1>1, Invariance, PTL

(* A row lock is held by a transaction that is still open, whatever raised *)
(* inside the UnitOfWork.                                                  *)
THEOREM LocksCorrect == Spec => []LocksAreHeldByTransactions
<1>1. IInv => LocksAreHeldByTransactions
  BY DEF IInv, LockInv
<1> QED
  BY <1>1, Invariance, PTL

-----------------------------------------------------------------------------
(* PaidIsFinal. *)

LEMMA PaidKept ==
  ASSUME IInv, NEW r \in Requests, Step(r),
         NEW i \in Ids, refunds[i] # None, refunds[i].status = "paid"
  PROVE  refunds'[i] = refunds[i] /\ reviews'[i] = reviews[i]
<1>a. refunds \in [Ids -> Row \cup {None}] /\ reviews \in [Ids -> Seq(Review)]
  BY DEF IInv, TypeOK
<1>1. CASE InsertRefund(r)
  <2>1. refunds[r] = None
    BY <1>1 DEF InsertRefund, IInv, RowInv, RowOK, Exists
  <2> QED
    BY <1>a, <1>1, <2>1 DEF InsertRefund
<1>2. CASE DeleteCommit(r)
  <2>1. refunds[Target(r)] # None /\ refunds[Target(r)].status = "pending"
    BY <1>2 DEF DeleteCommit, IInv, SeenInv, SeenOK, Matches
  <2> QED
    BY <1>a, <1>2, <2>1 DEF DeleteCommit
<1>3. CASE Commit(r) /\ ~UNCHANGED <<refunds, reviews>>
  <2>1. pc[r] = "commit" /\ Publish(r)
    BY <1>3 DEF Commit, database
  <2>2. refunds[Target(r)].status # "paid"
    BY <2>1, CommittedWrites
  <2>3. /\ refunds' = [refunds EXCEPT ![Target(r)] = staged[r].row]
        /\ reviews' = [reviews EXCEPT ![Target(r)] = Append(reviews[Target(r)], NewReview(r))]
    BY <2>1, CommittedWrites
  <2> QED
    BY <1>a, <2>2, <2>3
<1> QED
  BY <1>1, <1>2, <1>3, TablesOnStep

(* The row and the history of a paid refund never change again, though     *)
(* reviewers and payers that read it before the payment are still at work. *)
THEOREM PaymentIsFinal == Spec => PaidIsFinal
<1> DEFINE Kept == \A i \in Ids : refunds[i] # None /\ refunds[i].status = "paid"
                      => refunds'[i] = refunds[i] /\ reviews'[i] = reviews[i]
<1>1. IInv /\ [Next]_vars => [Kept]_vars
  <2> SUFFICES ASSUME IInv, Next, NEW i \in Ids, refunds[i] # None, refunds[i].status = "paid"
               PROVE  refunds'[i] = refunds[i] /\ reviews'[i] = reviews[i]
    OBVIOUS
  <2>1. CASE UNCHANGED <<refunds, reviews>>
    BY <2>1
  <2>2. CASE \E r \in Requests : Step(r)
    BY <2>2, PaidKept
  <2> QED
    BY <2>1, <2>2, DatabaseOnArrive DEF Next, Crash, Quiet, vars
<1>2. Spec => [][Kept]_vars
  BY <1>1, Invariance, PTL DEF Spec
<1> QED
  BY <1>2 DEF PaidIsFinal

-----------------------------------------------------------------------------
(* RefundApi implements RefundLifecycle. *)

LEMMA ClaimsType ==
  ASSUME TypeOK
  PROVE  Lifecycle!TypeOK
<1>1. \A i \in Ids : Claims[i] \in Lifecycle!Claim \cup {None}
  BY DEF TypeOK, Claims, Row, Statuses, Lifecycle!Claim, Lifecycle!Statuses
<1>2. Lifecycle!Decision = Review
  BY DEF Lifecycle!Decision, Review, Statuses, Lifecycle!Statuses
<1>3. Claims \in [Ids -> Lifecycle!Claim \cup {None}]
  BY <1>1 DEF Claims
<1>4. reviews \in [Ids -> Seq(Review)]
  BY DEF TypeOK
<1> QED
  BY <1>2, <1>3, <1>4 DEF Lifecycle!TypeOK

LEMMA ClaimsOnInit ==
  ASSUME Init
  PROVE  Lifecycle!Init
BY InitInv, ClaimsType DEF IInv, HistoryExplainsStatus, Lifecycle!Init

(* The claims after a step that writes one row. *)
LEMMA ClaimsAfter ==
  ASSUME TypeOK, NEW t \in Ids, NEW row \in Row, refunds' = [refunds EXCEPT ![t] = row]
  PROVE  Claims' = [Claims EXCEPT ![t] = [owner |-> row.owner, status |-> row.status,
                                          payment |-> row.payment]]
<1>1. row # None
  BY RequestsAssumption
<1>2. refunds'[t] = row /\ \A i \in Ids : i # t => refunds'[i] = refunds[i]
  BY DEF TypeOK
<1> QED
  BY <1>1, <1>2 DEF Claims

LEMMA CreateImplements ==
  ASSUME IInv, NEW r \in Requests, InsertRefund(r), ~UNCHANGED <<refunds, reviews>>
  PROVE  Lifecycle!Create(r)
<1>1. /\ pc[r] = "insertRefund"
      /\ Cents(call[r].amount) # "overflow"
      /\ refunds' = [refunds EXCEPT ![r] = NewRow(r)]
      /\ reviews' = reviews
  BY DEF InsertRefund
<1>2. NewRow(r) \in Row
  BY <1>1, NewRowType DEF IInv
<1>3. refunds[r] = None
  BY <1>1 DEF IInv, RowInv, RowOK, Exists
<1>4. Claims[r] = None
  BY <1>3 DEF Claims
<1>5. NewRow(r).owner \in Users /\ NewRow(r).status = "pending" /\ NewRow(r).payment = None
  BY <1>2 DEF NewRow, Row
<1>6. Claims' = [Claims EXCEPT ![r] = [owner |-> NewRow(r).owner, status |-> "pending",
                                       payment |-> None]]
  BY <1>1, <1>2, <1>5, ClaimsAfter DEF IInv
<1> QED
  BY <1>1, <1>4, <1>5, <1>6 DEF Lifecycle!Create

LEMMA DeleteImplements ==
  ASSUME IInv, NEW r \in Requests, DeleteCommit(r), ~UNCHANGED <<refunds, reviews>>
  PROVE  Target(r) \in Ids /\ Lifecycle!Delete(Target(r))
<1> DEFINE t == Target(r)
<1>1. /\ pc[r] = "deleteCommit"
      /\ refunds' = [refunds EXCEPT ![t] = None]
      /\ reviews' = reviews
  BY DEF DeleteCommit
<1>2. t \in Ids /\ refunds[t] # None /\ refunds[t].status = "pending"
  BY <1>1, LockedRowExists DEF IInv, SeenInv, SeenOK, Matches
<1> HIDE DEF t
<1>3. refunds \in [Ids -> Row \cup {None}] /\ refunds[t] \in Row
  BY <1>2 DEF IInv, TypeOK
<1>4. Claims[t] = [owner |-> refunds[t].owner, status |-> "pending",
                   payment |-> refunds[t].payment]
  BY <1>2 DEF Claims
<1>5. Claims[t] # None
  BY <1>3, <1>4, ClaimsAreNotNone DEF Lifecycle!Claim, Row, Lifecycle!Statuses
<1>6. refunds'[t] = None /\ \A i \in Ids : i # t => refunds'[i] = refunds[i]
  BY <1>1, <1>2, <1>3
<1>7. Claims' = [Claims EXCEPT ![t] = None]
  BY <1>2, <1>6 DEF Claims
<1>8. Claims[t].status = "pending"
  BY <1>4
<1> QED
  BY <1>1, <1>2, <1>5, <1>7, <1>8 DEF Lifecycle!Delete, t

LEMMA CommitImplements ==
  ASSUME IInv, NEW r \in Requests, pc[r] = "commit", Publish(r)
  PROVE  Lifecycle!Decide(Target(r)) \/ Lifecycle!Pay(Target(r))
<1> DEFINE t == Target(r)
           d == NewReview(r)
           row == refunds[t]
           new == staged[r].row
<1>1. /\ t \in Ids /\ row # None /\ row \in Row /\ d \in Review
      /\ new \in Row /\ new.owner = row.owner /\ new.status = d.to
      /\ d.to = "paid" <=> new.payment # None
      /\ row.status = "paid" <=> row.payment # None
  BY CommittedWrites
<1>2. /\ refunds' = [refunds EXCEPT ![t] = new]
      /\ reviews' = [reviews EXCEPT ![t] = Append(reviews[t], d)]
  BY CommittedWrites
<1>3. d.from = row.status /\ d.from # d.to /\ d.reviewer # row.owner
  BY CommittedWrites
<1>4. CallOK(r) /\ SeenOK(r) /\ StagedOK(r) /\ call[r].op \in {"review", "pay"}
  BY DEF IInv, CallInv, SeenInv, StagedInv, CallOK
<1>5. call[r] \in Calls
  BY RequestCall DEF IInv
<1>6. /\ call[r].op = "review" => /\ new = [row EXCEPT !.status = call[r].want]
                                  /\ d.to = call[r].want /\ d.reason = call[r].reason
                                  /\ ReviewIsValid(call[r])
      /\ call[r].op = "pay" => /\ new = [row EXCEPT !.status = "paid", !.payment = r]
                               /\ d = [reviewer |-> call[r].user, from |-> "approved",
                                       to |-> "paid", reason |-> FALSE]
  BY <1>4 DEF StagedOK, NewReview, CallOK
(* A payment points at a file that no other refund points at. *)
<1>7. ASSUME call[r].op = "pay", NEW j \in Ids
      PROVE  Claims[j] = None \/ Claims[j].payment # r
  <2>1. CASE refunds[j] = None
    BY <2>1 DEF Claims
  <2>2. CASE refunds[j] # None
    <3>1. refunds[j].payment # r
      BY <2>2, RequestsAssumption DEF IInv, RowInv, RowOK
    <3> QED
      BY <2>2, <3>1 DEF Claims
  <2> QED
    BY <2>1, <2>2
<1> HIDE DEF t, d, row, new
<1>8. Claims[t] = [owner |-> row.owner, status |-> row.status, payment |-> row.payment]
  BY <1>1 DEF Claims, row
<1>9. Claims[t] # None
  BY <1>1, <1>8, ClaimsAreNotNone DEF Lifecycle!Claim, Row, Statuses, Lifecycle!Statuses
<1>10. Claims' = [Claims EXCEPT ![t] = [owner |-> row.owner, status |-> d.to,
                                        payment |-> new.payment]]
  BY <1>1, <1>2, ClaimsAfter DEF IInv
<1>11. d = [reviewer |-> d.reviewer, from |-> row.status, to |-> d.to, reason |-> d.reason]
       /\ d.reviewer \in Users /\ d.reason \in BOOLEAN
  BY <1>1, <1>3 DEF Review
<1>12. t \in DOMAIN Claims
  BY <1>1 DEF Claims
<1>13. CASE call[r].op = "review"
  <2>1. /\ d.to \in ReviewTargets /\ (d.to = "rejected" => d.reason)
        /\ row.status # "paid" /\ new.payment = row.payment
    BY <1>1, <1>6, <1>13 DEF ReviewIsValid, ReviewTargets, Row
  <2>2. Claims' = [Claims EXCEPT ![t].status = d.to]
    <3>1. [Claims[t] EXCEPT !.status = d.to] = [owner |-> row.owner, status |-> d.to,
                                                payment |-> new.payment]
      BY <1>8, <2>1
    <3> QED
      BY <1>10, <3>1
  <2>3. Lifecycle!Record(t, [reviewer |-> d.reviewer, from |-> Claims[t].status, to |-> d.to,
                             reason |-> d.reason])
    <3>1. Claims[t].status = row.status
      BY <1>8
    <3>2. reviews' = [reviews EXCEPT ![t] = Append(@, d)]
      BY <1>2
    <3> QED
      BY <1>11, <3>1, <3>2 DEF Lifecycle!Record
  <2>4. d.reviewer \in Users \ {Claims[t].owner} /\ d.to \in Lifecycle!ReviewTargets \ {Claims[t].status}
    BY <1>3, <1>8, <1>11, <2>1 DEF ReviewTargets, Lifecycle!ReviewTargets
  <2>5. Claims[t].status # "paid"
    BY <1>8, <2>1
  <2>6. Lifecycle!Decide(t)
    BY <1>9, <1>11, <2>1, <2>2, <2>3, <2>4, <2>5 DEF Lifecycle!Decide
  <2> QED
    BY <2>6 DEF t
<1>14. CASE call[r].op = "pay"
  <2>1. /\ d.to = "paid" /\ d.from = "approved" /\ d.reason = FALSE /\ new.payment = r
    <3>1. d = [reviewer |-> call[r].user, from |-> "approved", to |-> "paid", reason |-> FALSE]
      BY <1>6, <1>14
    <3>2. new = [row EXCEPT !.status = "paid", !.payment = r]
      BY <1>6, <1>14
    <3>3. new.payment = r
      BY <1>1, <3>2 DEF Row
    <3> QED
      BY <3>1, <3>3
  <2>2. Claims' = [Claims EXCEPT ![t].status = "paid", ![t].payment = r]
    <3>1. [[Claims[t] EXCEPT !.status = "paid"] EXCEPT !.payment = r] =
            [owner |-> row.owner, status |-> d.to, payment |-> new.payment]
      <4>1. [Claims[t] EXCEPT !.status = "paid"] =
              [owner |-> row.owner, status |-> "paid", payment |-> row.payment]
        BY <1>8
      <4>2. [[owner |-> row.owner, status |-> "paid", payment |-> row.payment] EXCEPT !.payment = r] =
              [owner |-> row.owner, status |-> "paid", payment |-> r]
        OBVIOUS
      <4>3. d.to = "paid" /\ new.payment = r
        BY <2>1
      <4>4. [[Claims[t] EXCEPT !.status = "paid"] EXCEPT !.payment = r] =
              [owner |-> row.owner, status |-> "paid", payment |-> r]
        BY <4>1, <4>2
      <4> QED
        BY <4>3, <4>4
    <3>2. [Claims EXCEPT ![t].status = "paid", ![t].payment = r] =
            [Claims EXCEPT ![t] = [[@ EXCEPT !.status = "paid"] EXCEPT !.payment = r]]
      BY <1>12
    <3> QED
      BY <1>10, <3>1, <3>2
  <2>3. Lifecycle!Record(t, [reviewer |-> d.reviewer, from |-> "approved", to |-> "paid",
                             reason |-> FALSE])
    BY <1>2, <1>3, <1>11, <2>1 DEF Lifecycle!Record
  <2>4. d.reviewer \in Users \ {Claims[t].owner} /\ Claims[t].status = "approved"
    BY <1>3, <1>8, <1>11, <2>1
  <2>5. Lifecycle!Pay(t)
    BY <1>7, <1>9, <1>14, <2>2, <2>3, <2>4 DEF Lifecycle!Pay
  <2> QED
    BY <2>5 DEF t
<1> QED
  BY <1>4, <1>13, <1>14

LEMMA StepImplements ==
  ASSUME IInv, [Next]_vars
  PROVE  [Lifecycle!Next]_Lifecycle!vars
<1>1. CASE UNCHANGED <<refunds, reviews>>
  BY <1>1 DEF Lifecycle!vars, Claims
<1>2. ASSUME NEW r \in Requests, Step(r), ~UNCHANGED <<refunds, reviews>>
      PROVE  Lifecycle!Next
  <2>1. CASE InsertRefund(r)
    BY <1>2, <2>1, CreateImplements DEF Lifecycle!Next
  <2>2. CASE DeleteCommit(r)
    BY <1>2, <2>2, DeleteImplements DEF Lifecycle!Next
  <2>3. CASE Commit(r)
    <3>1. pc[r] = "commit" /\ Publish(r)
      BY <1>2, <2>3 DEF Commit, database
    <3>2. Target(r) \in Ids
      BY <3>1, CommittedWrites
    <3> QED
      BY <3>1, <3>2, CommitImplements DEF Lifecycle!Next
  <2> QED
    BY <1>2, <2>1, <2>2, <2>3, TablesOnStep
<1> QED
  BY <1>1, <1>2, DatabaseOnArrive DEF Next, Crash, Quiet, vars

(* Concurrent reviewers, payers, deleters and creators, their transactions *)
(* and whatever fails among them, come down to the life of a refund that   *)
(* RefundLifecycle describes: one atomic step for each commit.             *)
THEOREM RefinesLifecycle == Spec => ImplementsLifecycle
<1>1. Init => Lifecycle!Init
  BY ClaimsOnInit
<1>2. IInv /\ [Next]_vars => [Lifecycle!Next]_Lifecycle!vars
  BY StepImplements
<1> QED
  BY <1>1, <1>2, Invariance, PTL DEF Spec, ImplementsLifecycle, Lifecycle!Spec

-----------------------------------------------------------------------------
(* FilesInv: what a step does to the answers, the rows and the files, in   *)
(* the terms of the invariant.                                             *)

(* The way of a request through its labels, and what it answers there. *)
Ends(r, answer) == pc'[r] = "done" /\ reply'[r] = answer
Goes(r, label) == pc'[r] = label /\ reply'[r] = reply[r]
Raises(r, answers) == pc'[r] = "rollback" /\ reply'[r] \in answers
Moves(r) ==
  \/ pc[r] = "insertRefund"
       /\ \/ Goes(r, "createReread") /\ refunds'[r] # None
          \/ Goes(r, "undoReceipt") /\ (refunds'[r] # None => Faults \cap {"ack", "close"} # {})
  \/ pc[r] = "undoReceipt" /\ Ends(r, "error")
  \/ pc[r] = "createReread" /\ (Ends(r, "error") \/ Ends(r, "created"))
  \/ pc[r] = "deleteRefund"
       /\ (Goes(r, "deleteCommit") \/ Ends(r, "error") \/ Ends(r, "onlyPending"))
  \/ pc[r] = "deleteCommit"
       /\ \/ Goes(r, "deleteReceipt") /\ refunds' = [refunds EXCEPT ![Target(r)] = None]
          \/ Ends(r, "error") /\ (refunds' # refunds => Faults \cap {"ack", "close"} # {})
  \/ pc[r] = "deleteReceipt" /\ Ends(r, "deleted")
  \/ pc[r] = "selectForUpdate"
       /\ (Goes(r, "updateStatus") \/ Raises(r, Refusals \cup {"error"}))
  \/ pc[r] = "updateStatus" /\ (Goes(r, "insertReview") \/ Raises(r, {"error"}))
  \/ pc[r] = "insertReview" /\ (Goes(r, "commit") \/ Raises(r, {"error"}))
  \/ pc[r] = "commit"
       /\ \/ Publish(r)
             /\ \/ call[r].op = "review" /\ Ends(r, "reviewed")
                \/ call[r].op = "pay" /\ Goes(r, "payReread")
                \/ Ends(r, "error")
                \/ "ack" \in Faults /\ call[r].op = "pay"
                     /\ pc'[r] = "undoPayment" /\ reply'[r] = "error"
          \/ UNCHANGED <<refunds, reviews>> /\ Raises(r, {"error"})
  \/ pc[r] = "rollback"
       /\ (IF call[r].op = "pay" THEN Goes(r, "undoPayment") ELSE Goes(r, "done"))
  \/ pc[r] = "markAsPaid"
       /\ (Goes(r, "insertReview") \/ Raises(r, {"paidByAnother", "error"}))
  \/ pc[r] = "undoPayment" /\ Goes(r, "done")
  \/ pc[r] = "payReread" /\ (Ends(r, "error") \/ Ends(r, "paid"))

LEMMA MovesOnStep ==
  ASSUME IInv, NEW r \in Requests, Step(r)
  PROVE  Moves(r)
<1>a. pc \in [Requests -> Labels] /\ reply \in [Requests -> Replies]
      /\ refunds \in [Ids -> Row \cup {None}] /\ None \notin Row /\ r \in Ids
  BY RequestsAssumption DEF IInv, TypeOK
<1> USE <1>a DEF Moves, Ends, Goes, Raises, Goto, Answer, AnswerAt, Raise
<1>1. CASE InsertRefund(r)
  <2>1. Cents(call[r].amount) # "overflow" => NewRow(r) # None
    BY <1>1, NewRowType DEF InsertRefund, IInv
  <2>2. pc[r] = "insertRefund" /\ (UNCHANGED refunds => refunds'[r] = None)
    BY <1>1 DEF InsertRefund, IInv, RowInv, RowOK, Exists
  <2>3. \/ Goes(r, "createReread") /\ refunds' = [refunds EXCEPT ![r] = NewRow(r)]
              /\ Cents(call[r].amount) # "overflow"
        \/ Goes(r, "undoReceipt") /\ (UNCHANGED refunds \/ Faults \cap {"ack", "close"} # {})
    BY <1>1 DEF InsertRefund
  <2> QED
    BY <2>1, <2>2, <2>3
<1>2. CASE UndoReceipt(r)
  BY <1>2 DEF UndoReceipt
<1>3. CASE CreateReread(r)
  BY <1>3 DEF CreateReread
<1>4. CASE DeleteRow(r)
  BY <1>4 DEF DeleteRow
<1>5. CASE DeleteCommit(r)
  BY <1>5 DEF DeleteCommit
<1>6. CASE DeleteReceipt(r)
  BY <1>6 DEF DeleteReceipt
<1>7. CASE SelectForUpdate(r)
  BY <1>7 DEF SelectForUpdate, ReviewVerdict, Refusals
<1>8. CASE UpdateStatus(r)
  BY <1>8 DEF UpdateStatus
<1>9. CASE InsertReview(r)
  BY <1>9 DEF InsertReview
<1>10. CASE Commit(r)
  BY <1>10 DEF Commit, CloseFailed, CommitRaised, database
<1>11. CASE Rollback(r)
  BY <1>11 DEF Rollback
<1>12. CASE MarkAsPaid(r)
  BY <1>12 DEF MarkAsPaid
<1>13. CASE UndoPayment(r)
  BY <1>13 DEF UndoPayment
<1>14. CASE PayReread(r)
  BY <1>14 DEF PayReread
<1>15. CASE LockTimeout(r)
  BY <1>15 DEF LockTimeout, Refusals
<1> QED
  BY <1>1, <1>2, <1>3, <1>4, <1>5, <1>6, <1>7, <1>8, <1>9, <1>10,
     <1>11, <1>12, <1>13, <1>14, <1>15 DEF Step

(* Nobody else is answered by a step of r. *)
LEMMA OthersReply ==
  ASSUME TypeOK, NEW r \in Requests, Arrive(r) \/ Step(r), NEW q \in Requests, q # r
  PROVE  reply'[q] = reply[q]
<1>1. CASE Arrive(r)
  <2>1. PICK c \in Calls : \/ CreateRefund(r, c) \/ DeleteRead(r, c)
                           \/ ReviewRefund(r, c) \/ PayRefund(r, c)
    BY <1>1 DEF Arrive
  <2>2. reply' = reply \/ \E a \in Replies \cup {"goOn"} : reply' = [reply EXCEPT ![r] = a]
    BY <2>1 DEF CreateRefund, DeleteRead, ReviewRefund, PayRefund, Goto, Answer, AnswerAt,
                DeleteVerdict, PayVerdict, Replies, Successes, Refusals, Failures
  <2> QED
    BY <2>2 DEF TypeOK
<1>2. CASE Step(r)
  <2>1. reply \in [Requests -> Replies]
    BY DEF TypeOK
  <2> USE <2>1 DEF Goto, Answer, AnswerAt, Raise
  <2>2. CASE InsertRefund(r) \/ UndoReceipt(r) \/ CreateReread(r)
    BY <2>2 DEF InsertRefund, UndoReceipt, CreateReread
  <2>3. CASE DeleteRow(r) \/ DeleteCommit(r) \/ DeleteReceipt(r)
    BY <2>3 DEF DeleteRow, DeleteCommit, DeleteReceipt
  <2>4. CASE SelectForUpdate(r) \/ UpdateStatus(r) \/ InsertReview(r)
    BY <2>4 DEF SelectForUpdate, UpdateStatus, InsertReview, ReviewVerdict
  <2>5. CASE Commit(r) \/ Rollback(r)
    BY <2>5 DEF Commit, CloseFailed, CommitRaised, Rollback
  <2>6. CASE MarkAsPaid(r) \/ UndoPayment(r) \/ PayReread(r) \/ LockTimeout(r)
    BY <2>6 DEF MarkAsPaid, UndoPayment, PayReread, LockTimeout
  <2> QED
    BY <1>2, <2>2, <2>3, <2>4, <2>5, <2>6 DEF Step
<1> QED
  BY <1>1, <1>2

(* A request arrives: what it answers at once, and the file it saves. *)
LEMMA ArriveEffects ==
  ASSUME IInv, NEW r \in Requests, Arrive(r)
  PROVE  \E c \in Calls :
           /\ pc[r] = "idle"
           /\ call' = [call EXCEPT ![r] = c] /\ call'[r] = c
           /\ UNCHANGED <<refunds, reviews, logged>>
           /\ \/ /\ c.op = "create" /\ payments' = payments
                 /\ \/ Goes(r, "insertRefund") /\ receipts' = receipts \cup {r}
                    \/ pc'[r] = "done" /\ reply'[r] \in {"badAmount", "saveError"}
                         /\ receipts' \in {receipts, receipts \cup {r}}
                    \/ Ends(r, "invalid") /\ receipts' = receipts
              \/ /\ c.op = "delete" /\ UNCHANGED <<receipts, payments>>
                 /\ Goes(r, "deleteRefund")
                      \/ (pc'[r] = "done" /\ reply'[r] \in Refusals \cup {"error"})
              \/ /\ c.op = "review" /\ UNCHANGED <<receipts, payments>>
                 /\ Goes(r, "selectForUpdate") \/ (pc'[r] = "done" /\ reply'[r] \in Refusals)
              \/ /\ c.op = "pay" /\ receipts' = receipts
                 /\ \/ Goes(r, "markAsPaid") /\ payments' = payments \cup {r}
                    \/ Ends(r, "saveError") /\ payments' \in {payments, payments \cup {r}}
                    \/ pc'[r] = "done" /\ reply'[r] \in Refusals \cup {"error"}
                         /\ payments' = payments
<1>a. pc \in [Requests -> Labels] /\ reply \in [Requests -> Replies]
      /\ call \in [Requests -> Calls \cup {None}]
  BY DEF IInv, TypeOK
<1>1. PICK c \in Calls : \/ CreateRefund(r, c) \/ DeleteRead(r, c)
                         \/ ReviewRefund(r, c) \/ PayRefund(r, c)
  BY DEF Arrive
<1> USE <1>a DEF Ends, Goes, Goto, Answer, AnswerAt, Receive, Refusals, database, storages
<1>2. CASE CreateRefund(r, c)
  BY <1>2 DEF CreateRefund
<1>3. CASE DeleteRead(r, c)
  BY <1>3 DEF DeleteRead, DeleteVerdict
<1>4. CASE ReviewRefund(r, c)
  BY <1>4 DEF ReviewRefund
<1>5. CASE PayRefund(r, c)
  BY <1>5 DEF PayRefund, PayVerdict
<1> QED
  BY <1>1, <1>2, <1>3, <1>4, <1>5
(* A row is inserted by its creator, removed while nobody has paid it, or  *)
(* written by a review or a payment that commits; nothing else moves it.   *)
LEMMA RowOnStep ==
  ASSUME IInv, NEW r \in Requests, Step(r), NEW i \in Ids
  PROVE  \/ refunds'[i] = refunds[i]
         \/ /\ pc[r] = "insertRefund" /\ i = r /\ refunds[i] = None
            /\ refunds'[i] # None /\ refunds'[i].payment = None
         \/ /\ pc[r] = "deleteCommit" /\ i = Target(r) /\ refunds'[i] = None
            /\ refunds[i] # None /\ refunds[i].payment = None
         \/ /\ pc[r] = "commit" /\ Publish(r) /\ i = Target(r)
            /\ refunds[i] # None /\ refunds[i].payment = None /\ refunds'[i] # None
            /\ call[r].op = "review" => refunds'[i].payment = None
            /\ call[r].op = "pay" => refunds'[i].payment = r /\ refunds'[i].status = "paid"
<1>a. refunds \in [Ids -> Row \cup {None}] /\ r \in Ids
  BY DEF IInv, TypeOK
<1>1. CASE InsertRefund(r)
  <2>1. refunds[r] = None
    BY <1>1 DEF InsertRefund, IInv, RowInv, RowOK, Exists
  <2>2. refunds' = refunds \/ (refunds' = [refunds EXCEPT ![r] = NewRow(r)] /\ NewRow(r) \in Row)
    BY <1>1, NewRowType DEF InsertRefund, IInv
  <2> QED
    BY <1>1, <1>a, <2>1, <2>2, RequestsAssumption DEF InsertRefund, NewRow
<1>2. CASE DeleteCommit(r)
  <2>1. /\ refunds[Target(r)] # None /\ refunds[Target(r)].status = "pending"
        /\ Target(r) \in Ids
    BY <1>2, LockedRowExists DEF DeleteCommit, IInv, SeenInv, SeenOK, Matches
  <2>2. refunds[Target(r)].payment = None
    <3>1. /\ Claims[Target(r)].status = "pending"
          /\ Claims[Target(r)].payment = refunds[Target(r)].payment
          /\ Claims[Target(r)] # None
      BY <1>a, <2>1, ClaimsAreNotNone DEF Claims, Lifecycle!Claim, Row, Statuses, Lifecycle!Statuses
    <3> QED
      BY <2>1, <3>1 DEF IInv, HistoryExplainsStatus, Lifecycle!Coherent
  <2> QED
    BY <1>2, <1>a, <2>1, <2>2 DEF DeleteCommit
<1>3. CASE Commit(r)
  <2>1. CASE Publish(r)
    <3>1. pc[r] = "commit"
      BY <1>3 DEF Commit
    <3>2. CallOK(r) /\ SeenOK(r) /\ StagedOK(r)
      BY DEF IInv, CallInv, SeenInv, StagedInv
    <3> DEFINE t == Target(r)
               new == staged[r].row
    <3>3. /\ t \in Ids /\ refunds[t] # None /\ refunds[t] \in Row
          /\ refunds' = [refunds EXCEPT ![t] = new] /\ new # None
          /\ refunds[t].status = "paid" <=> refunds[t].payment # None
      BY <2>1, <3>1, CommittedWrites
    <3>4. CASE call[r].op = "pay"
      <4>1. new = [refunds[t] EXCEPT !.status = "paid", !.payment = r]
        BY <3>1, <3>2, <3>4 DEF StagedOK
      <4>2. refunds[t].status = "approved"
        BY <3>1, <3>2, <3>4 DEF SeenOK, Matches
      <4>3. new.payment = r /\ new.status = "paid"
        BY <3>3, <4>1 DEF Row
      <4> HIDE DEF t, new
      <4> QED
        BY <1>a, <2>1, <3>1, <3>3, <3>4, <4>2, <4>3 DEF t
    <3>5. CASE call[r].op = "review"
      <4>1. new = [refunds[t] EXCEPT !.status = call[r].want]
        BY <3>1, <3>2, <3>5 DEF StagedOK
      <4>2. refunds[t].status # "paid"
        BY <3>1, <3>2, <3>5 DEF SeenOK
      <4>3. new.payment = None
        BY <3>3, <4>1, <4>2 DEF Row
      <4> HIDE DEF t, new
      <4> QED
        BY <1>a, <2>1, <3>1, <3>3, <3>5, <4>2, <4>3 DEF t
    <3> QED
      BY <3>1, <3>2, <3>4, <3>5 DEF CallOK
  <2>2. CASE UNCHANGED refunds
    BY <2>2
  <2> QED
    BY <1>3, <2>1, <2>2 DEF Commit, database
<1> QED
  BY <1>1, <1>2, <1>3, TablesOnStep

(* The payment a commit writes, and that a commit is a review's or a payment's. *)
LEMMA CommitIsOfUnitOfWork ==
  ASSUME IInv, NEW r \in Requests, pc[r] = "commit"
  PROVE  call[r].op \in {"review", "pay"} /\ Target(r) \in Ids
BY LockedRowExists DEF IInv, CallInv, CallOK

LEMMA PaymentWritten ==
  ASSUME IInv, NEW r \in Requests, Step(r), pc[r] = "commit", Publish(r), call[r].op = "pay"
  PROVE  refunds'[Target(r)] # None /\ refunds'[Target(r)].payment = r
         /\ refunds'[Target(r)].status = "paid"
<1>1. /\ Target(r) \in Ids /\ refunds[Target(r)] \in Row
      /\ refunds' = [refunds EXCEPT ![Target(r)] = staged[r].row]
      /\ staged[r].row # None /\ refunds \in [Ids -> Row \cup {None}]
  BY CommittedWrites DEF IInv, TypeOK
<1>2. staged[r].row = [refunds[Target(r)] EXCEPT !.status = "paid", !.payment = r]
  BY DEF IInv, StagedInv, StagedOK
<1> QED
  BY <1>1, <1>2 DEF Row

(* What is gone stays gone. *)
LEMMA GoneStays ==
  ASSUME IInv, NEW r \in Requests, Step(r), NEW i \in Ids, Exists(i), refunds[i] = None
  PROVE  refunds'[i] = None
BY RowOnStep DEF Exists

(* A row never lets go of the payment it refers to. *)
LEMMA PaymentKept ==
  ASSUME IInv, NEW r \in Requests, Step(r), NEW i \in Ids, refunds[i] # None,
         refunds[i].payment # None
  PROVE  refunds'[i] = refunds[i]
BY RowOnStep, RequestsAssumption

(* The three compensations are the only steps that touch a storage. *)
LEMMA StorageOnStep ==
  ASSUME IInv, NEW r \in Requests, Step(r)
  PROVE  \/ /\ pc[r] \notin {"undoReceipt", "deleteReceipt", "undoPayment"}
            /\ UNCHANGED <<receipts, payments, logged>>
         \/ pc[r] = "undoReceipt" /\ DeleteReceiptQuietly(r) /\ UNCHANGED <<refunds, reviews>>
         \/ /\ pc[r] = "deleteReceipt" /\ DeleteReceiptQuietly(Target(r))
            /\ UNCHANGED <<refunds, reviews>>
         \/ pc[r] = "undoPayment" /\ DeletePaymentQuietly(r) /\ UNCHANGED <<refunds, reviews>>
<1>1. pc[r] = "deleteReceipt" => seen[r].receipt = Target(r)
  BY DEF IInv, SeenInv, SeenOK
<1> QED
  BY <1>1 DEF Step, InsertRefund, UndoReceipt, CreateReread, DeleteRow, DeleteCommit, DeleteReceipt,
       SelectForUpdate, UpdateStatus, InsertReview, Commit, Rollback, MarkAsPaid, UndoPayment,
       PayReread, LockTimeout, database, storages

(* Lines of the history are added, never changed. *)
LEMMA HistoryGrows ==
  ASSUME IInv, NEW r \in Requests, Step(r), NEW i \in Ids, NEW k \in DOMAIN reviews[i]
  PROVE  k \in DOMAIN reviews'[i] /\ reviews'[i][k] = reviews[i][k]
<1>1. reviews \in [Ids -> Seq(Review)]
  BY DEF IInv, TypeOK
<1>2. CASE reviews' = reviews
  BY <1>2
<1>3. CASE pc[r] = "commit" /\ Publish(r)
  <2>1. /\ Target(r) \in Ids /\ NewReview(r) \in Review
        /\ reviews' = [reviews EXCEPT ![Target(r)] = Append(reviews[Target(r)], NewReview(r))]
    BY <1>3, CommittedWrites
  <2>2. reviews[i] \in Seq(Review) /\ k \in 1..Len(reviews[i])
    BY <1>1
  <2>3. CASE i = Target(r)
    <3>1. reviews'[i] = Append(reviews[i], NewReview(r))
      BY <1>1, <2>1, <2>3
    <3> QED
      BY <2>1, <2>2, <3>1
  <2> QED
    BY <1>1, <2>1, <2>3
<1> QED
  BY <1>2, <1>3, TablesOnStep DEF InsertRefund, DeleteCommit, Commit, database
-----------------------------------------------------------------------------
(* FilesInv is kept by an arrival: the request that arrives has no row, no *)
(* file and no answer yet, and the others see at most one more file.       *)

LEMMA AskedKept ==
  ASSUME IInv, ReplyInv, NEW r \in Requests, Arrive(r) \/ Step(r), NEW f \in Ids,
         AskedToDelete(f)
  PROVE  AskedToDelete(f)'
<1>1. PICK d \in Requests : call[d] # None /\ call[d].op = "delete" /\ call[d].target = f
  BY DEF AskedToDelete
<1>2. pc[d] # "idle"
  BY <1>1 DEF ReplyInv, ReplyOK
<1>3. call'[d] = call[d]
  BY <1>2, OthersOnArrive, CallOnStep, ArriveEffects DEF IInv
<1> QED
  BY <1>1, <1>3 DEF AskedToDelete

LEMMA ArriveFiles ==
  ASSUME IInv, FilesInv, NEW r \in Requests, Arrive(r)
  PROVE  FilesInv'
<1>a. PICK c \in Calls :
           /\ pc[r] = "idle"
           /\ call' = [call EXCEPT ![r] = c] /\ call'[r] = c
           /\ UNCHANGED <<refunds, reviews, logged>>
           /\ \/ /\ c.op = "create" /\ payments' = payments
                 /\ \/ Goes(r, "insertRefund") /\ receipts' = receipts \cup {r}
                    \/ pc'[r] = "done" /\ reply'[r] \in {"badAmount", "saveError"}
                         /\ receipts' \in {receipts, receipts \cup {r}}
                    \/ Ends(r, "invalid") /\ receipts' = receipts
              \/ /\ c.op = "delete" /\ UNCHANGED <<receipts, payments>>
                 /\ Goes(r, "deleteRefund")
                      \/ (pc'[r] = "done" /\ reply'[r] \in Refusals \cup {"error"})
              \/ /\ c.op = "review" /\ UNCHANGED <<receipts, payments>>
                 /\ Goes(r, "selectForUpdate") \/ (pc'[r] = "done" /\ reply'[r] \in Refusals)
              \/ /\ c.op = "pay" /\ receipts' = receipts
                 /\ \/ Goes(r, "markAsPaid") /\ payments' = payments \cup {r}
                    \/ Ends(r, "saveError") /\ payments' \in {payments, payments \cup {r}}
                    \/ pc'[r] = "done" /\ reply'[r] \in Refusals \cup {"error"}
                         /\ payments' = payments
  BY ArriveEffects
<1>b. \A q \in Requests : q # r => pc'[q] = pc[q] /\ call'[q] = call[q] /\ reply'[q] = reply[q]
  BY OthersOnArrive, OthersReply DEF IInv
<1>c. /\ refunds[r] = None /\ r \notin receipts /\ r \notin payments
      /\ reply[r] = "none"
      /\ \A i \in Ids : refunds[i] = None \/ refunds[i].payment # r
  <2>1. reply[r] = "none" /\ refunds[r] = None /\ r \notin receipts /\ r \notin payments
    BY <1>a DEF FilesInv, ReplyInv, ReplyOK, CreatorInv, CreatorOK, PayerInv, PayerOK
  <2>2. \A i \in Ids : RowOK(i)
    BY DEF IInv, RowInv
  <2> QED
    BY <1>a, <2>1, <2>2, RequestsAssumption DEF RowOK
<1>d. \A d \in Requests : call[d] # None => pc'[d] = pc[d] /\ call'[d] = call[d] /\ reply'[d] = reply[d]
  BY <1>a, <1>b DEF FilesInv, ReplyInv, ReplyOK
<1>e. receipts \subseteq receipts' /\ payments \subseteq payments'
      /\ \A f \in Files : f # r => (f \in receipts' => f \in receipts)
                                   /\ (f \in payments' => f \in payments)
  BY <1>a
<1>f. c # None /\ r \notin Seeds
  BY NoneIsNotACall, RequestsAssumption
<1>1. ReplyInv'
  <2> SUFFICES ASSUME NEW q \in Requests PROVE ReplyOK(q)'
    BY DEF ReplyInv
  <2>1. ReplyOK(q)
    BY DEF FilesInv, ReplyInv
  <2> QED
    BY <1>a, <1>b, <1>c, <2>1 DEF ReplyOK, Goes, Ends
<1>2. CreatorInv'
  <2> SUFFICES ASSUME NEW q \in Requests PROVE CreatorOK(q)'
    BY DEF CreatorInv
  <2>1. CreatorOK(q) /\ (AskedToDelete(q) => AskedToDelete(q)')
    BY AskedKept DEF FilesInv, CreatorInv
  <2>2. CASE q # r
    BY <1>a, <1>b, <1>e, <2>1, <2>2 DEF CreatorOK
  <2>3. CASE q = r
    BY <1>a, <1>c, <2>3 DEF CreatorOK, Goes, Ends, Refusals
  <2> QED
    BY <2>2, <2>3
<1>3. DeleterInv'
  <2> SUFFICES ASSUME NEW q \in Requests PROVE DeleterOK(q)'
    BY DEF DeleterInv
  <2>1. DeleterOK(q)
    BY DEF FilesInv, DeleterInv
  <2>2. CASE q # r
    BY <1>a, <1>b, <2>1, <2>2, ExistsKept DEF DeleterOK, Target
  <2>3. CASE q = r
    BY <1>a, <1>c, <2>3 DEF DeleterOK, Goes, Ends, Refusals
  <2> QED
    BY <2>2, <2>3
<1>4. ReviewerInv'
  <2> SUFFICES ASSUME NEW q \in Requests PROVE ReviewerOK(q)'
    BY DEF ReviewerInv
  <2>1. ReviewerOK(q)
    BY DEF FilesInv, ReviewerInv
  <2>2. CASE q # r
    BY <1>a, <1>b, <2>1, <2>2 DEF ReviewerOK, Target
  <2>3. CASE q = r
    BY <1>a, <1>c, <2>3 DEF ReviewerOK, Goes, Ends, Refusals
  <2> QED
    BY <2>2, <2>3
<1>5. PayerInv'
  <2> SUFFICES ASSUME NEW q \in Requests PROVE PayerOK(q)'
    BY DEF PayerInv
  <2>1. PayerOK(q)
    BY DEF FilesInv, PayerInv
  <2>2. CASE q # r
    BY <1>a, <1>b, <1>e, <2>1, <2>2 DEF PayerOK, Target, Matches
  <2>3. CASE q = r
    BY <1>a, <1>c, <2>3 DEF PayerOK, PayingSteps, Goes, Ends, Refusals
  <2> QED
    BY <2>2, <2>3
<1>6. RowFileInv'
  <2> SUFFICES ASSUME NEW i \in Ids PROVE ReceiptOK(i)' /\ PaymentOK(i)'
    BY DEF RowFileInv
  <2>1. ReceiptOK(i) /\ PaymentOK(i)
    BY DEF FilesInv, RowFileInv
  <2>2. ReceiptOK(i)'
    BY <1>a, <1>b, <1>e, <2>1 DEF ReceiptOK
  <2>3. PaymentOK(i)'
    BY <1>a, <1>b, <1>e, <2>1 DEF PaymentOK
  <2> QED
    BY <2>2, <2>3
<1>7. CauseInv'
  <2> SUFFICES ASSUME NEW f \in Files PROVE ReceiptCause(f)' /\ PaymentCause(f)'
    BY DEF CauseInv
  <2>1. ReceiptCause(f) /\ PaymentCause(f)
    BY DEF FilesInv, CauseInv
  <2>2. ReceiptCause(f)'
    <3>1. CASE f = r
      BY <1>a, <1>c, <3>1 DEF ReceiptCause, Goes, Ends
    <3>2. CASE f # r
      BY <1>a, <1>b, <1>d, <1>e, <2>1, <3>2 DEF ReceiptCause
    <3> QED
      BY <3>1, <3>2
  <2>3. PaymentCause(f)'
    <3>1. CASE f = r
      BY <1>a, <1>c, <1>f, <3>1 DEF PaymentCause, Goes, Ends
    <3>2. CASE f # r
      BY <1>a, <1>b, <1>e, <2>1, <3>2 DEF PaymentCause
    <3> QED
      BY <3>1, <3>2
  <2> QED
    BY <2>2, <2>3
<1> QED
  BY <1>1, <1>2, <1>3, <1>4, <1>5, <1>6, <1>7 DEF FilesInv
-----------------------------------------------------------------------------
(* FilesInv is kept by a step of a request. *)

LEMMA OthersOnAnyStep ==
  ASSUME IInv, NEW r \in Requests, Step(r), NEW q \in Requests, q # r
  PROVE  pc'[q] = pc[q] /\ call'[q] = call[q] /\ reply'[q] = reply[q]
BY OthersOnStep, CallOnStep, OthersReply DEF IInv

LEMMA StepReplyInv ==
  ASSUME IInv, FilesInv, NEW r \in Requests, Step(r)
  PROVE  ReplyInv'
<1> SUFFICES ASSUME NEW q \in Requests PROVE ReplyOK(q)'
  BY DEF ReplyInv
<1>1. ReplyOK(q) /\ ReplyOK(r)
  BY DEF FilesInv, ReplyInv
<1>2. CASE q # r
  BY <1>1, <1>2, OthersOnAnyStep DEF ReplyOK
<1>3. CASE q = r
  <2>1. Moves(r) /\ pc'[r] # "idle"
    BY MovesOnStep, NoWayBack
  <2> QED
    BY <1>1, <1>3, <2>1 DEF ReplyOK, Moves, Goes, Ends, Raises
<1> QED
  BY <1>2, <1>3

LEMMA StepCreatorInv ==
  ASSUME IInv, FilesInv, NEW r \in Requests, Step(r)
  PROVE  CreatorInv'
<1> SUFFICES ASSUME NEW q \in Requests PROVE CreatorOK(q)'
  BY DEF CreatorInv
<1>1. /\ CreatorOK(q) /\ CallOK(r) /\ DeleterOK(r) /\ ReplyOK(q)
      /\ AskedToDelete(q) => AskedToDelete(q)'
  BY AskedKept DEF FilesInv, CreatorInv, DeleterInv, ReplyInv, IInv, CallInv
<1>2. /\ q \in receipts' => q \in receipts
      /\ q \in receipts /\ q \notin receipts' =>
           (pc[r] = "undoReceipt" /\ q = r) \/ (pc[r] = "deleteReceipt" /\ q = Target(r))
  BY StorageOnStep DEF DeleteReceiptQuietly, DeletePaymentQuietly
<1>3. /\ refunds'[q] # None => refunds[q] # None \/ (pc[r] = "insertRefund" /\ q = r)
      /\ refunds[q] # None /\ refunds'[q] = None => AskedToDelete(q)'
  <2>1. ASSUME pc[r] = "deleteCommit", q = Target(r)
        PROVE  AskedToDelete(q)'
    BY <1>1, <2>1, CallOnStep DEF AskedToDelete, CallOK, Target
  <2> QED
    BY <2>1, RowOnStep
<1>4. CASE q # r
  <2>1. pc[r] = "deleteReceipt" /\ q = Target(r) => pc[q] # "insertRefund"
    BY <1>1 DEF DeleterOK, Exists
  <2> QED
    BY <1>1, <1>2, <1>3, <1>4, <2>1, OthersOnAnyStep DEF CreatorOK
<1>5. CASE q = r
  <2>1. Moves(r) /\ call'[r] = call[r] /\ pc[r] # "idle"
    BY MovesOnStep, CallOnStep, NoWayBack
  <2>2. refunds'[r] # None \/ r \in receipts' =>
          pc'[r] # "idle" /\ call'[r].op = "create" /\ reply'[r] \notin Refusals
    <3>1. SUFFICES ASSUME refunds'[r] # None \/ r \in receipts'
                   PROVE  call[r].op = "create" /\ reply'[r] \notin Refusals
      BY <2>1, NoWayBack
    <3>2. call[r].op = "create" /\ reply[r] \notin Refusals
      BY <1>1, <1>2, <1>3, <1>5, <3>1 DEF CreatorOK, CallOK, ReplyOK, Refusals
    <3>3. pc[r] \in {"insertRefund", "undoReceipt", "createReread"}
      BY <1>1, <2>1, <3>2 DEF CallOK, Moves
    <3>4. reply'[r] \in {reply[r], "error", "created"}
      BY <2>1, <3>3 DEF Moves, Goes, Ends
    <3> QED
      BY <3>2, <3>4 DEF Refusals
  <2>3. pc'[r] = "undoReceipt" /\ refunds'[r] # None => Faults \cap {"ack", "close"} # {}
    BY <2>1 DEF Moves, Goes, Ends, Raises
  <2>4. pc'[r] = "createReread" \/ reply'[r] = "created" => refunds'[r] # None \/ AskedToDelete(r)'
    BY <1>1, <1>3, <1>5, <2>1 DEF CreatorOK, Moves, Goes, Ends, Raises, Refusals
  <2>5. pc'[r] # "insertRefund"
    BY NoWayBack
  <2> QED
    BY <1>5, <2>2, <2>3, <2>4, <2>5 DEF CreatorOK
<1> QED
  BY <1>4, <1>5

LEMMA StepDeleterInv ==
  ASSUME IInv, FilesInv, NEW r \in Requests, Step(r)
  PROVE  DeleterInv'
<1> SUFFICES ASSUME NEW q \in Requests PROVE DeleterOK(q)'
  BY DEF DeleterInv
<1>1. DeleterOK(q) /\ CallOK(r) /\ call'[q] = call[q]
  BY CallOnStep DEF FilesInv, DeleterInv, IInv, CallInv
<1>2. CASE pc[q] = "deleteReceipt" \/ reply[q] = "deleted"
  BY <1>1, <1>2, GoneStays, ExistsKept DEF DeleterOK, Target
<1>3. CASE q = r /\ pc[r] = "deleteCommit"
  <2>1. Target(r) \in Ids /\ refunds[Target(r)] # None /\ call[r].op = "delete"
    BY <1>1, <1>3, LockedRowExists DEF CallOK
  <2>2. Exists(Target(r))'
    <3>1. RowOK(Target(r))
      BY <2>1 DEF IInv, RowInv
    <3>2. Exists(Target(r))
      BY <2>1, <3>1 DEF RowOK
    <3> QED
      BY <2>1, <3>2, ExistsKept, CallOnStep DEF Target, Exists
  <2>3. pc'[r] = "deleteReceipt" => refunds'[Target(r)] = None
    BY <1>3, <2>1, MovesOnStep DEF Moves, Goes, Ends, IInv, TypeOK
  <2>4. reply'[r] # "deleted"
    BY <1>3, MovesOnStep DEF Moves, Goes, Ends, FilesInv, ReplyInv, ReplyOK
  <2> QED
    BY <1>1, <1>3, <2>1, <2>2, <2>3, <2>4 DEF DeleterOK, Target
<1>4. CASE ~(pc[q] = "deleteReceipt" \/ reply[q] = "deleted") /\ ~(q = r /\ pc[r] = "deleteCommit")
  <2>1. pc'[q] # "deleteReceipt" /\ reply'[q] # "deleted"
    BY <1>4, MovesOnStep, OthersOnAnyStep DEF Moves, Goes, Ends, Raises, Refusals
  <2> QED
    BY <2>1 DEF DeleterOK
<1> QED
  BY <1>2, <1>3, <1>4

LEMMA StepReviewerInv ==
  ASSUME IInv, FilesInv, NEW r \in Requests, Step(r)
  PROVE  ReviewerInv'
<1> SUFFICES ASSUME NEW q \in Requests, reply'[q] = "reviewed" PROVE ReviewerOK(q)'
  BY DEF ReviewerInv, ReviewerOK
<1>1. ReviewerOK(q) /\ call'[q] = call[q]
  BY CallOnStep DEF FilesInv, ReviewerInv
<1>2. CASE reply[q] = "reviewed"
  BY <1>1, <1>2, HistoryGrows DEF ReviewerOK, Target
<1>3. CASE reply[q] # "reviewed"
  <2>1. q = r /\ pc[r] = "commit" /\ Publish(r) /\ call[r].op = "review"
    BY <1>3, MovesOnStep, OthersOnAnyStep DEF Moves, Goes, Ends, Raises, Refusals
  <2> DEFINE log == reviews[Target(r)]
  <2>2. /\ Target(r) \in Ids /\ NewReview(r) \in Review /\ log \in Seq(Review)
        /\ reviews'[Target(r)] = Append(log, NewReview(r))
    BY <2>1, CommittedWrites DEF IInv, TypeOK
  <2>3. /\ NewReview(r).reviewer = call[r].user
        /\ NewReview(r).to = call[r].want
    BY <2>1 DEF NewReview
  <2>4. /\ Len(log) + 1 \in DOMAIN reviews'[Target(r)]
        /\ reviews'[Target(r)][Len(log) + 1] = NewReview(r)
    BY <2>2
  <2> HIDE DEF log
  <2> QED
    BY <1>1, <2>1, <2>2, <2>3, <2>4 DEF ReviewerOK, Target
<1> QED
  BY <1>2, <1>3
LEMMA StepPayerInv ==
  ASSUME IInv, FilesInv, NEW r \in Requests, Step(r)
  PROVE  PayerInv'
<1> SUFFICES ASSUME NEW q \in Requests PROVE PayerOK(q)'
  BY DEF PayerInv
<1>a. /\ PayerOK(q) /\ ReplyOK(q) /\ CallOK(q) /\ call' = call
      /\ refunds \in [Ids -> Row \cup {None}] /\ pc \in [Requests -> Labels]
  BY CallOnStep DEF FilesInv, PayerInv, ReplyInv, IInv, CallInv, TypeOK
<1>b. Moves(r) /\ pc[r] # "idle" /\ pc'[r] # "idle"
  BY MovesOnStep, NoWayBack
(* A payment is removed by the compensation of its own payer, or that is logged. *)
<1>c. /\ q \in payments' => q \in payments
      /\ q \in payments /\ q \notin payments' => pc[r] = "undoPayment" /\ q = r
      /\ logged \subseteq logged'
      /\ pc[r] = "undoPayment" /\ r \in payments' => <<"payments", r>> \in logged'
  BY StorageOnStep DEF DeleteReceiptQuietly, DeletePaymentQuietly
<1>1. q \in payments' => pc'[q] # "idle" /\ call'[q].op = "pay"
  BY <1>a, <1>b, <1>c, OthersOnAnyStep DEF PayerOK
<1>2. pc'[q] = "markAsPaid" \/ (pc'[q] \in PayingSteps /\ call'[q].op = "pay") => q \in payments'
  <2>1. CASE q # r
    BY <1>a, <1>c, <2>1, OthersOnAnyStep DEF PayerOK
  <2>2. CASE q = r
    <3>1. SUFFICES ASSUME pc'[r] \in {"markAsPaid"} \cup PayingSteps, call[r].op = "pay"
                   PROVE  r \in payments /\ pc[r] # "undoPayment"
      BY <1>a, <1>b, <1>c, <2>2 DEF PayingSteps, Moves, Goes, Ends, Raises
    <3>2. pc[r] \in {"markAsPaid", "insertReview", "commit", "rollback"}
      BY <1>a, <1>b, <2>2, <3>1 DEF PayingSteps, Moves, Goes, Ends, Raises, CallOK
    <3> QED
      BY <1>a, <2>2, <3>1, <3>2 DEF PayerOK, PayingSteps
  <2> QED
    BY <2>1, <2>2
<1>3. pc'[q] = "payReread" \/ reply'[q] = "paid" =>
        /\ call'[q].op = "pay" /\ Target(q)' \in Ids
        /\ q \in payments' /\ Matches(q, "paid")' /\ refunds'[Target(q)].payment = q
  <2> SUFFICES ASSUME pc'[q] = "payReread" \/ reply'[q] = "paid"
               PROVE  /\ call[q].op = "pay" /\ Target(q) \in Ids
                      /\ q \in payments' /\ refunds'[Target(q)] # None
                      /\ refunds'[Target(q)].status = "paid" /\ refunds'[Target(q)].payment = q
    BY <1>a DEF Target, Matches
  <2>1. CASE pc[q] = "payReread" \/ reply[q] = "paid"
    <3>1. /\ call[q].op = "pay" /\ Target(q) \in Ids /\ q \in payments
          /\ refunds[Target(q)] # None /\ refunds[Target(q)].status = "paid"
          /\ refunds[Target(q)].payment = q
      BY <1>a, <2>1 DEF PayerOK, Matches
    <3>2. refunds'[Target(q)] = refunds[Target(q)]
      BY <3>1, PaidKept
    <3>3. pc[q] # "undoPayment"
      BY <1>a, <1>b, <2>1, <3>1, OthersOnAnyStep DEF PayerOK, Moves, Goes
    <3> QED
      BY <1>c, <3>1, <3>2, <3>3
  <2>2. CASE ~(pc[q] = "payReread" \/ reply[q] = "paid")
    <3>1. q = r /\ pc[r] = "commit" /\ Publish(r) /\ call[r].op = "pay"
      BY <1>b, <2>2, OthersOnAnyStep DEF Moves, Goes, Ends, Raises, Refusals
    <3>2. Target(r) \in Ids /\ r \in payments
      BY <1>a, <3>1, LockedRowExists DEF PayerOK, PayingSteps
    <3>3. /\ refunds'[Target(r)] # None /\ refunds'[Target(r)].payment = r
          /\ refunds'[Target(r)].status = "paid"
      BY <3>1, <3>2, PaymentWritten
    <3> QED
      BY <1>c, <3>1, <3>2, <3>3
  <2> QED
    BY <2>1, <2>2
<1>4. ASSUME NEW i \in Ids, refunds'[i] # None, refunds'[i].payment = q
      PROVE  /\ reply'[q] \notin Refusals /\ pc'[q] # "rollback"
             /\ pc'[q] = "undoPayment" => reply'[q] = "error" /\ "ack" \in Faults
  <2>0. q # None
    BY RequestsAssumption
  <2>1. CASE refunds[i] # None /\ refunds[i].payment = q
    <3>1. /\ reply[q] \notin Refusals /\ pc[q] # "rollback"
          /\ pc[q] = "undoPayment" => reply[q] = "error" /\ "ack" \in Faults
      BY <1>a, <2>1 DEF PayerOK
    <3>2. CASE q # r
      BY <3>1, <3>2, OthersOnAnyStep
    <3>3. CASE q = r
      <4>1. call[r].op = "pay" /\ pc[r] \notin {"idle", "markAsPaid", "insertReview", "commit"}
        BY <2>1, <3>3, <2>0, RequestsAssumption DEF IInv, RowInv, RowOK
      <4>2. pc[r] \in {"undoPayment", "payReread"}
        BY <1>a, <1>b, <3>1, <3>3, <4>1 DEF CallOK, Moves
      <4> QED
        BY <1>b, <3>1, <3>3, <4>2 DEF Moves, Goes, Ends, Refusals
    <3> QED
      BY <3>2, <3>3
  <2>2. CASE ~(refunds[i] # None /\ refunds[i].payment = q)
    <3>1. pc[r] = "commit" /\ Publish(r) /\ q = r /\ call[r].op = "pay" /\ refunds'[i] # refunds[i]
      BY <1>4, <2>0, <2>2, RowOnStep, CommitIsOfUnitOfWork
    <3>2. reply[r] = "none"
      BY <1>a, <3>1 DEF ReplyOK
    <3> QED
      BY <1>b, <3>1, <3>2 DEF Moves, Goes, Ends, Raises, Refusals
  <2> QED
    BY <2>1, <2>2
<1>5. reply'[q] \in Refusals /\ q \in payments' =>
        <<"payments", q>> \in logged' \/ pc'[q] \in {"rollback", "undoPayment", "dead"}
  <2>1. CASE q # r
    BY <1>a, <1>c, <2>1, OthersOnAnyStep DEF PayerOK
  <2>2. CASE q = r
    <3> SUFFICES ASSUME reply'[r] \in Refusals, r \in payments'
                 PROVE  <<"payments", r>> \in logged' \/ pc'[r] \in {"rollback", "undoPayment", "dead"}
      BY <2>2
    <3>1. call[r].op = "pay"
      BY <1>a, <1>c, <2>2 DEF PayerOK
    <3>2. pc[r] \in {"markAsPaid", "insertReview", "commit", "rollback", "undoPayment", "payReread"}
      BY <1>a, <1>b, <2>2, <3>1 DEF CallOK, Moves
    <3>3. pc[r] \notin {"rollback", "undoPayment"} => reply[r] = "none"
      BY <1>a, <2>2, <3>2 DEF ReplyOK
    <3> QED
      BY <1>b, <1>c, <3>1, <3>2, <3>3 DEF Moves, Goes, Ends, Raises, Refusals
  <2> QED
    BY <2>1, <2>2
<1> QED
  BY <1>a, <1>1, <1>2, <1>3, <1>4, <1>5 DEF PayerOK, Target
LEMMA StepRowFileInv ==
  ASSUME IInv, FilesInv, NEW r \in Requests, Step(r)
  PROVE  RowFileInv'
<1> SUFFICES ASSUME NEW i \in Ids, refunds'[i] # None PROVE ReceiptOK(i)' /\ PaymentOK(i)'
  BY DEF RowFileInv, ReceiptOK, PaymentOK
<1>a. /\ ReceiptOK(i) /\ PaymentOK(i) /\ RowOK(i)
      /\ CreatorOK(r) /\ DeleterOK(r) /\ PayerOK(r) /\ CallOK(r)
  BY DEF FilesInv, RowFileInv, CreatorInv, DeleterInv, PayerInv, IInv, RowInv, CallInv
<1>b. Moves(r) /\ call' = call
  BY MovesOnStep, CallOnStep
<1>c. ASSUME NEW q \in Requests, pc[q] = "done"
      PROVE  pc'[q] = "done" /\ reply'[q] = reply[q]
  BY <1>b, <1>c, OthersOnAnyStep DEF Moves
<1>1. ReceiptOK(i)'
  <2>1. CASE pc[r] = "insertRefund" /\ i = r
    BY <1>a, <2>1, StorageOnStep DEF CreatorOK, ReceiptOK
  <2>2. CASE refunds[i] # None
    <3>1. CASE i \in receipts /\ i \notin receipts'
      <4>1. pc[r] = "undoReceipt" /\ i = r /\ Ends(r, "error")
        <5>1. pc[r] = "deleteReceipt" => i # Target(r)
          BY <1>a, <2>2 DEF DeleterOK
        <5> QED
          BY <1>b, <3>1, <5>1, StorageOnStep DEF Moves, DeleteReceiptQuietly, DeletePaymentQuietly
      <4> QED
        BY <1>a, <2>2, <4>1 DEF CreatorOK, ReceiptOK, Ends
    <3> QED
      BY <1>a, <1>c, <2>2, <3>1 DEF ReceiptOK
  <2> QED
    BY <2>1, <2>2, RowOnStep
<1>2. PaymentOK(i)'
  <2> SUFFICES ASSUME refunds'[i].payment # None PROVE PaymentOK(i)'
    BY DEF PaymentOK
  <2>1. CASE refunds[i] # None /\ refunds[i].payment # None
    <3> DEFINE p == refunds[i].payment
    <3>1. refunds'[i] = refunds[i]
      BY <2>1, PaymentKept
    <3>2. CASE p \in payments /\ p \notin payments'
      <4>1. pc[r] = "undoPayment" /\ p = r /\ Goes(r, "done")
        BY <1>b, <3>2, StorageOnStep DEF Moves, DeleteReceiptQuietly, DeletePaymentQuietly
      <4>2. reply[r] = "error" /\ "ack" \in Faults
        BY <1>a, <2>1, <4>1 DEF PayerOK
      <4> QED
        BY <3>1, <4>1, <4>2 DEF PaymentOK, Goes
    <3> QED
      BY <1>a, <1>c, <2>1, <3>1, <3>2 DEF PaymentOK
  <2>2. CASE ~(refunds[i] # None /\ refunds[i].payment # None)
    <3>1. pc[r] = "commit" /\ refunds'[i].payment = r /\ call[r].op = "pay"
      BY <2>2, RowOnStep, CommitIsOfUnitOfWork
    <3>2. r \in payments /\ payments' = payments
      BY <1>a, <3>1, StorageOnStep DEF PayerOK, PayingSteps
    <3> QED
      BY <3>1, <3>2 DEF PaymentOK
  <2> QED
    BY <2>1, <2>2
<1> QED
  BY <1>1, <1>2

LEMMA StepReceiptCause ==
  ASSUME IInv, FilesInv, NEW r \in Requests, Step(r), NEW f \in Files
  PROVE  ReceiptCause(f)'
<1> SUFFICES ASSUME f \in receipts', refunds'[f] = None,
                    ~(<<"receipts", f>> \in logged')
             PROVE  \/ /\ f \in Requests
                       /\ \/ pc'[f] \in {"insertRefund", "undoReceipt", "dead"}
                          \/ reply'[f] \in {"badAmount", "saveError"}
                    \/ \E d \in Requests :
                         /\ call'[d] # None /\ call'[d].op = "delete" /\ call'[d].target = f
                         /\ \/ pc'[d] \in {"deleteReceipt", "dead"}
                            \/ reply'[d] = "error" /\ Faults \cap {"ack", "close"} # {}
  BY DEF ReceiptCause
<1>a. /\ ReceiptCause(f) /\ CallOK(r) /\ call' = call /\ Moves(r)
      /\ \A q \in Requests : ReplyOK(q) /\ CallOK(q)
  BY MovesOnStep, CallOnStep DEF FilesInv, CauseInv, ReplyInv, IInv, CallInv
<1>b. /\ f \in receipts /\ <<"receipts", f>> \notin logged
      /\ ~(pc[r] = "undoReceipt" /\ f = r)
      /\ ~(pc[r] = "deleteReceipt" /\ f = Target(r))
  BY StorageOnStep DEF DeleteReceiptQuietly, DeletePaymentQuietly
<1>1. CASE refunds[f] # None
  <2>1. pc[r] = "deleteCommit" /\ f = Target(r) /\ refunds' # refunds
    BY <1>1, RowOnStep
  <2>2. call[r] # None /\ call[r].op = "delete" /\ call[r].target = f
    BY <1>a, <2>1 DEF CallOK, Target
  <2>3. pc'[r] = "deleteReceipt" \/ (reply'[r] = "error" /\ Faults \cap {"ack", "close"} # {})
    BY <1>a, <2>1 DEF Moves, Goes, Ends
  <2> QED
    BY <1>a, <2>2, <2>3
<1>2. CASE /\ refunds[f] = None /\ f \in Requests
           /\ \/ pc[f] \in {"insertRefund", "undoReceipt", "dead"}
              \/ reply[f] \in {"badAmount", "saveError"}
  <2>1. CASE f # r
    BY <1>2, <2>1, OthersOnAnyStep
  <2>2. CASE f = r
    <3>1. pc[r] = "insertRefund"
      <4>1. call[r].op = "create"
        BY <1>b, <2>2 DEF FilesInv, CreatorInv, CreatorOK
      <4>2. pc[r] \notin {"rollback", "undoPayment", "done", "dead"}
        BY <1>a, <4>1 DEF CallOK, Moves
      <4> QED
        BY <1>a, <1>b, <1>2, <2>2, <4>2 DEF ReplyOK
    <3> QED
      BY <1>a, <1>2, <2>2, <3>1 DEF Moves, Goes
  <2> QED
    BY <2>1, <2>2
<1>3. ASSUME NEW d \in Requests, call[d] # None, call[d].op = "delete", call[d].target = f,
             \/ pc[d] \in {"deleteReceipt", "dead"}
             \/ reply[d] = "error" /\ Faults \cap {"ack", "close"} # {}
      PROVE  pc'[d] = pc[d] /\ reply'[d] = reply[d]
  <2>1. CASE d # r
    BY <2>1, OthersOnAnyStep
  <2>2. CASE d = r
    <3>1. pc[r] \notin {"deleteReceipt", "dead"}
      BY <1>a, <1>b, <1>3, <2>2 DEF Moves, Target
    <3> QED
      BY <1>a, <1>3, <2>2, <3>1 DEF ReplyOK, CallOK, Moves
  <2> QED
    BY <2>1, <2>2
<1> QED
  BY <1>a, <1>b, <1>1, <1>2, <1>3 DEF ReceiptCause

LEMMA StepPaymentCause ==
  ASSUME IInv, FilesInv, NEW r \in Requests, Step(r), NEW f \in Files
  PROVE  PaymentCause(f)'
<1> SUFFICES ASSUME f \in payments' PROVE PaymentCause(f)'
  BY DEF PaymentCause
<1>a. PaymentCause(f) /\ Moves(r) /\ ReplyOK(r) /\ call' = call /\ f # None
  BY MovesOnStep, CallOnStep, RequestsAssumption DEF FilesInv, CauseInv, ReplyInv
<1>b. /\ f \in payments /\ logged \subseteq logged'
      /\ pc[r] = "undoPayment" /\ f = r => <<"payments", f>> \in logged'
  BY StorageOnStep DEF DeleteReceiptQuietly, DeletePaymentQuietly
<1>1. CASE f \in Seeds
  <2>1. refunds[f] # None /\ refunds[f].payment = f
    BY <1>a, <1>b, <1>1 DEF PaymentCause
  <2> QED
    BY <1>a, <1>1, <2>1, PaymentKept DEF PaymentCause
<1>2. ASSUME f \notin Seeds, NEW i \in Ids, refunds[i] # None, refunds[i].payment = f
      PROVE  PaymentCause(f)'
  BY <1>a, <1>2, PaymentKept DEF PaymentCause
<1>3. CASE f \notin Seeds /\ <<"payments", f>> \in logged
  BY <1>b, <1>3 DEF PaymentCause
<1>4. CASE /\ f \notin Seeds
           /\ \/ pc[f] \in {"markAsPaid", "insertReview", "commit", "rollback", "undoPayment", "dead"}
              \/ reply[f] = "saveError"
  <2>1. CASE f # r
    BY <1>4, <2>1, OthersOnAnyStep DEF PaymentCause
  <2>2. CASE f = r
    <3>1. call[r].op = "pay"
      BY <1>b, <2>2 DEF FilesInv, PayerInv, PayerOK
    <3>2. pc[r] \in {"markAsPaid", "insertReview", "commit", "rollback", "undoPayment"}
      BY <1>a, <1>4, <2>2 DEF ReplyOK, Moves
    <3>3. CASE pc[r] = "commit" /\ Publish(r)
      <4>1. /\ Target(r) \in Ids /\ refunds'[Target(r)] # None
            /\ refunds'[Target(r)].payment = r
        BY <3>1, <3>3, PaymentWritten, CommitIsOfUnitOfWork
      <4> QED
        BY <1>4, <2>2, <4>1 DEF PaymentCause
    <3>4. CASE ~(pc[r] = "commit" /\ Publish(r))
      BY <1>a, <1>b, <1>4, <2>2, <3>1, <3>2, <3>4 DEF PaymentCause, Moves, Goes, Raises
    <3> QED
      BY <3>3, <3>4
  <2> QED
    BY <2>1, <2>2
<1> QED
  BY <1>a, <1>b, <1>1, <1>2, <1>3, <1>4 DEF PaymentCause

LEMMA StepFiles ==
  ASSUME IInv, FilesInv, NEW r \in Requests, Step(r)
  PROVE  FilesInv'
<1>1. CauseInv'
  BY StepReceiptCause, StepPaymentCause DEF CauseInv
<1> QED
  BY <1>1, StepReplyInv, StepCreatorInv, StepDeleterInv, StepReviewerInv, StepPayerInv,
     StepRowFileInv DEF FilesInv
-----------------------------------------------------------------------------
(* FilesInv from the start, across a crash and for ever. *)

LEMMA InitFiles ==
  ASSUME Init
  PROVE  FilesInv
<1>1. /\ \A r \in Requests : /\ pc[r] = "idle" /\ reply[r] = "none" /\ call[r] = None
                             /\ refunds[r] = None /\ r \notin receipts /\ r \notin payments
      /\ \A i \in Seeds : /\ refunds[i] = SeedRow[i] /\ i \in receipts
                          /\ refunds[i] # None /\ refunds[i].payment \in {None, i}
                          /\ i \in payments <=> refunds[i].payment # None
  BY RequestsAssumption, SeedsAssumption DEF Init
<1>2. ReplyInv /\ DeleterInv /\ ReviewerInv
  BY <1>1 DEF ReplyInv, ReplyOK, DeleterInv, DeleterOK, ReviewerInv, ReviewerOK
<1>3. CreatorInv
  BY <1>1 DEF CreatorInv, CreatorOK
<1>4. PayerInv
  BY <1>1, RequestsAssumption DEF PayerInv, PayerOK, PayingSteps, Refusals
<1>5. RowFileInv
  BY <1>1, RequestsAssumption DEF RowFileInv, ReceiptOK, PaymentOK
<1>6. CauseInv
  BY <1>1, RequestsAssumption DEF CauseInv, ReceiptCause, PaymentCause
<1> QED
  BY <1>2, <1>3, <1>4, <1>5, <1>6 DEF FilesInv

LEMMA CrashFiles ==
  ASSUME IInv, FilesInv, Crash
  PROVE  FilesInv'
<1>1. /\ UNCHANGED <<call, reply, refunds, reviews, receipts, payments, logged>>
      /\ \A r \in Requests : pc'[r] = pc[r] \/ (pc'[r] = "dead" /\ pc[r] # "idle")
      /\ \A r \in Requests : pc'[r] \in {"idle", "done", "dead"}
      /\ \A r \in Requests : pc[r] \in {"idle", "done", "dead"} => pc'[r] = pc[r]
  BY DEF Crash, IInv, TypeOK, storages
<1>2. ReplyInv'
  BY <1>1 DEF FilesInv, ReplyInv, ReplyOK
<1>3. CreatorInv'
  BY <1>1 DEF FilesInv, CreatorInv, CreatorOK, AskedToDelete
<1>4. DeleterInv'
  BY <1>1 DEF FilesInv, DeleterInv, DeleterOK, Target, Exists
<1>5. ReviewerInv'
  BY <1>1 DEF FilesInv, ReviewerInv, ReviewerOK, Target
<1>6. PayerInv'
  <2> SUFFICES ASSUME NEW r \in Requests PROVE PayerOK(r)'
    BY DEF PayerInv
  <2>1. PayerOK(r)
    BY DEF FilesInv, PayerInv
  <2> QED
    BY <1>1, <2>1 DEF PayerOK, PayingSteps, Matches, Target
<1>7. RowFileInv'
  BY <1>1 DEF FilesInv, RowFileInv, ReceiptOK, PaymentOK
<1>8. CauseInv'
  <2> SUFFICES ASSUME NEW f \in Files PROVE ReceiptCause(f)' /\ PaymentCause(f)'
    BY DEF CauseInv
  <2>1. ReceiptCause(f) /\ PaymentCause(f)
    BY DEF FilesInv, CauseInv
  <2>2. ReceiptCause(f)'
    BY <1>1, <2>1 DEF ReceiptCause
  <2>3. PaymentCause(f)'
    BY <1>1, <2>1 DEF PaymentCause
  <2> QED
    BY <2>2, <2>3
<1> QED
  BY <1>2, <1>3, <1>4, <1>5, <1>6, <1>7, <1>8 DEF FilesInv

LEMMA StutterFiles ==
  ASSUME FilesInv, UNCHANGED vars
  PROVE  FilesInv'
BY DEF vars, FilesInv, ReplyInv, ReplyOK, CreatorInv, CreatorOK, AskedToDelete, DeleterInv,
       DeleterOK, ReviewerInv, ReviewerOK, PayerInv, PayerOK, PayingSteps, Matches, Target,
       Exists, RowFileInv, ReceiptOK, PaymentOK, CauseInv, ReceiptCause, PaymentCause

LEMMA NextFiles ==
  ASSUME IInv, FilesInv, [Next]_vars
  PROVE  FilesInv'
BY ArriveFiles, StepFiles, CrashFiles, StutterFiles DEF Next, Quiet

(* What requests know of their own answers, rows and files, for every      *)
(* number of requests, every order of their steps and every failure.       *)
THEOREM FilesInvariance == Spec => []FilesInv
<1>1. Init => FilesInv
  BY InitFiles
<1>2. IInv /\ FilesInv /\ [Next]_vars => FilesInv'
  BY NextFiles
<1> QED
  BY <1>1, <1>2, Invariance, PTL DEF Spec

(* No compensation and no deletion takes a file a committed row names, but *)
(* for the request that was answered 500 because the answer to its own     *)
(* commit was lost.                                                        *)
THEOREM FilesCorrect == Spec => []FilesBehindRows
<1>1. IInv /\ FilesInv => FilesBehindRows
  <2> SUFFICES ASSUME IInv, FilesInv, NEW i \in Ids, refunds[i] # None
               PROVE  /\ refunds[i].receipt \notin receipts =>
                           /\ Faults \cap {"ack", "close"} # {}
                           /\ i \in Requests /\ reply[i] = "error"
                      /\ refunds[i].payment \notin payments \cup {None} =>
                           /\ "ack" \in Faults
                           /\ refunds[i].payment \in Requests
                           /\ reply[refunds[i].payment] = "error"
    BY DEF FilesBehindRows
  <2>1. refunds[i].receipt = i /\ ReceiptOK(i) /\ PaymentOK(i)
    BY DEF IInv, RowInv, RowOK, FilesInv, RowFileInv
  <2> QED
    BY <2>1 DEF ReceiptOK, PaymentOK
<1> QED
  BY <1>1, Invariance, FilesInvariance, PTL

(* Whatever ran at the same time, a 2xx is true when it is sent and stays  *)
(* true, and a 4xx left nothing behind.                                    *)
THEOREM AnswersCorrect == Spec => []AnswersAreTrue
<1>1. IInv /\ FilesInv => AnswersAreTrue
  <2> SUFFICES ASSUME IInv, FilesInv, NEW r \in Requests, pc[r] = "done"
               PROVE  /\ reply[r] = "created" =>
                           IF refunds[r] # None THEN r \in receipts ELSE AskedToDelete(r)
                      /\ reply[r] = "deleted" => refunds[Target(r)] = None
                      /\ reply[r] = "reviewed" =>
                           \E k \in DOMAIN reviews[Target(r)] :
                             /\ reviews[Target(r)][k].reviewer = call[r].user
                             /\ reviews[Target(r)][k].to = call[r].want
                      /\ reply[r] = "paid" =>
                           /\ Matches(r, "paid")
                           /\ refunds[Target(r)].payment = r
                           /\ r \in payments
                      /\ reply[r] \in Refusals =>
                           /\ refunds[r] = None
                           /\ \A i \in Ids : refunds[i] = None \/ refunds[i].payment # r
                           /\ r \notin receipts
                           /\ r \in payments => <<"payments", r>> \in logged
    BY DEF AnswersAreTrue, Served, AskedToDelete
  <2>1. /\ CreatorOK(r) /\ DeleterOK(r) /\ ReviewerOK(r) /\ PayerOK(r) /\ ReceiptOK(r)
    BY DEF FilesInv, CreatorInv, DeleterInv, ReviewerInv, PayerInv, RowFileInv
  <2>2. reply[r] = "created" => IF refunds[r] # None THEN r \in receipts ELSE AskedToDelete(r)
    BY <2>1 DEF CreatorOK, ReceiptOK
  <2>3. reply[r] \in Refusals => refunds[r] = None /\ r \notin receipts
    BY <2>1 DEF CreatorOK
  <2> QED
    BY <2>1, <2>2, <2>3 DEF DeleterOK, ReviewerOK, PayerOK
<1> QED
  BY <1>1, Invariance, FilesInvariance, PTL

(* The storages hold nothing that no row names and no failure explains.    *)
THEOREM OrphansExplained == Spec => []EveryOrphanHasACause
<1>1. IInv /\ FilesInv => EveryOrphanHasACause
  <2> SUFFICES ASSUME IInv, FilesInv PROVE EveryOrphanHasACause
    OBVIOUS
  <2>1. ASSUME NEW f \in OrphanReceipts
        PROVE  f \in receipts /\ f \in Files /\ refunds[f] = None /\ ReceiptCause(f)
    <3>1. f \in receipts /\ f \in Files
      BY DEF OrphanReceipts, IInv, TypeOK
    <3> QED
      BY <3>1 DEF OrphanReceipts, IInv, RowInv, RowOK, FilesInv, CauseInv
  <2>2. ASSUME NEW f \in OrphanPayments
        PROVE  /\ f \in payments /\ PaymentCause(f) /\ f \in Files
               /\ \A i \in Ids : refunds[i] = None \/ refunds[i].payment # f
    <3>1. f \in payments /\ f \in Files
      BY DEF OrphanPayments, IInv, TypeOK
    <3> QED
      BY <3>1 DEF OrphanPayments, FilesInv, CauseInv
  <2>3. ASSUME NEW f \in OrphanPayments
        PROVE  \/ <<"payments", f>> \in logged
               \/ pc[f] \in {"markAsPaid", "insertReview", "commit", "rollback", "undoPayment", "dead"}
               \/ reply[f] = "saveError"
    BY <2>2 DEF PaymentCause
  <2> QED
    BY <2>1, <2>3 DEF EveryOrphanHasACause, ReceiptCause
<1> QED
  BY <1>1, Invariance, FilesInvariance, PTL
============================================================================
