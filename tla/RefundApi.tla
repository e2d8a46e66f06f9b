----------------------------- MODULE RefundApi -----------------------------
(***************************************************************************)
(* The four operations of the API that write refunds, as concurrent        *)
(* requests against one PostgreSQL database and two file storages.         *)
(*                                                                         *)
(* A request is a coroutine of a single event loop: what it does between   *)
(* two awaits is one action, and the requests interleave at the awaits.    *)
(* Every call of RefundsRepository is a transaction of its own; a review   *)
(* and a payment run theirs inside a UnitOfWork.  A storage call is        *)
(* synchronous and belongs to the action that makes it.                    *)
(*                                                                         *)
(* The identifier of a refund created by request r is r, and so is the     *)
(* name of the one file r may save: serial keys and uuid4 names are fresh. *)
(***************************************************************************)
EXTENDS Naturals, Sequences, FiniteSets

CONSTANTS Requests,    \* the HTTP requests that may arrive, each once
          Seeds,       \* refunds that exist when the behaviour starts
          SeedRow,     \* their rows
          SeedLog,     \* their lines of refund_reviews
          Users,
          Calls,       \* what a client may ask for
          Faults,      \* the kinds of failure that may happen
          MaxCrashes,  \* bound on process crashes
          None         \* SQL NULL, no row, nobody

Ids == Requests \cup Seeds
Files == Ids

Statuses == {"pending", "approved", "rejected", "paid"}
ReviewTargets == {"approved", "rejected"}
Roles == {"standard", "admin"}

(* Classes of the form field `amount`, a float: at most zero; positive but *)
(* rounding to 0 cents; ordinary; rounding to more than an INTEGER column  *)
(* holds; nan or inf, which round() refuses.                               *)
Amounts == {"nonpositive", "subcent", "ordinary", "huge", "nonfinite"}

(* What round(amount * 100) is worth to the INTEGER column. *)
Cents(amount) == CASE amount = "subcent"  -> "zero"
                   [] amount = "ordinary" -> "positive"
                   [] OTHER               -> "overflow"

Row == [owner: Users, status: Statuses, cents: {"zero", "positive"},
        receipt: Files, payment: Files \cup {None}]

Review == [reviewer: Users, from: Statuses, to: Statuses, reason: BOOLEAN]

(* A call carries the user and the role of its token, and what the         *)
(* validators look at: `form` says that the remaining fields (name,        *)
(* category, extension, size) are acceptable, `reason` that one is given.  *)
CreateCall == [op: {"create"}, user: Users, role: Roles, form: BOOLEAN, amount: Amounts]
DeleteCall == [op: {"delete"}, user: Users, role: Roles, target: Ids]
ReviewCall == [op: {"review"}, user: Users, role: Roles, target: Ids,
               want: Statuses, reason: BOOLEAN]
PayCall    == [op: {"pay"}, user: Users, role: Roles, target: Ids, form: BOOLEAN]
AnyCall    == CreateCall \cup DeleteCall \cup ReviewCall \cup PayCall

(* save: storage.save raises, leaving nothing or part of a file.           *)
(* delete: storage.delete raises.  db: a statement or a commit fails and   *)
(* nothing is stored.  ack: a commit is durable but its answer is lost.    *)
(* close: closing the session raises after a durable commit.               *)
(* crash: the process dies.                                                *)
FaultKinds == {"save", "delete", "db", "ack", "close", "crash"}

ASSUME RequestsAssumption == /\ Requests \cap Seeds = {}
                             /\ None \notin Requests \cup Seeds
                             /\ None \notin Row \cup Review \cup AnyCall
ASSUME CallsAssumption    == Calls \subseteq AnyCall
ASSUME FaultsAssumption   == Faults \subseteq FaultKinds /\ MaxCrashes \in Nat
ASSUME SeedsAssumption    == /\ SeedRow \in [Seeds -> Row]
                             /\ SeedLog \in [Seeds -> Seq(Review)]
                             /\ \A i \in Seeds : /\ SeedRow[i].receipt = i
                                                 /\ SeedRow[i].payment \in {None, i}

VARIABLES
  pc,        \* where each request is
  call,      \* what it was asked
  seen,      \* the row it read last, a local variable
  reply,     \* what it answered
  refunds,   \* committed rows of the table refunds
  reviews,   \* committed rows of refund_reviews, in order, by refund
  lock,      \* the open transaction that holds the row lock of each refund
  staged,    \* uncommitted writes of each open transaction
  receipts,  \* files of the storage "receipts"
  payments,  \* files of the storage "payments"
  logged,    \* file deletions that failed and left a warning in the log
  crashes    \* process crashes so far

vars == <<pc, call, seen, reply, refunds, reviews, lock, staged,
          receipts, payments, logged, crashes>>
database == <<refunds, reviews, lock, staged>>
storages == <<receipts, payments, logged>>

Finished == {"done", "dead"}
Labels == Finished \cup
  {"idle", "insertRefund", "undoReceipt", "createReread",
   "deleteRefund", "deleteCommit", "deleteReceipt",
   "selectForUpdate", "updateStatus", "insertReview", "commit", "rollback",
   "markAsPaid", "undoPayment", "payReread"}
Failures == {"badAmount", "saveError", "error"}    \* all three answer 500
Successes == {"created", "deleted", "reviewed", "paid"}
Refusals == {"invalid", "notAdmin", "notFound", "ownRefund", "onlyPending",
             "alreadyPaid", "alreadySo", "notApproved", "paidByAnother"}
Replies == {"none"} \cup Successes \cup Refusals \cup Failures

NoWrites == [row |-> None, review |-> None]

TypeOK ==
  /\ pc \in [Requests -> Labels]
  /\ call \in [Requests -> Calls \cup {None}]
  /\ seen \in [Requests -> Row \cup {None}]
  /\ reply \in [Requests -> Replies]
  /\ refunds \in [Ids -> Row \cup {None}]
  /\ reviews \in [Ids -> Seq(Review)]
  /\ lock \in [Ids -> Requests \cup {None}]
  /\ staged \in [Requests -> [row: Row \cup {None}, review: Review \cup {None}]]
  /\ receipts \in SUBSET Files
  /\ payments \in SUBSET Files
  /\ logged \in SUBSET ({"receipts", "payments"} \X Files)
  /\ crashes \in 0..MaxCrashes

Init ==
  /\ pc = [r \in Requests |-> "idle"]
  /\ call = [r \in Requests |-> None]
  /\ seen = [r \in Requests |-> None]
  /\ reply = [r \in Requests |-> "none"]
  /\ refunds = [i \in Ids |-> IF i \in Seeds THEN SeedRow[i] ELSE None]
  /\ reviews = [i \in Ids |-> IF i \in Seeds THEN SeedLog[i] ELSE <<>>]
  /\ lock = [i \in Ids |-> None]
  /\ staged = [r \in Requests |-> NoWrites]
  /\ receipts = Seeds
  /\ payments = {i \in Seeds : SeedRow[i].payment # None}
  /\ logged = {}
  /\ crashes = 0

-----------------------------------------------------------------------------
(* Moves of the program counter. *)

Goto(r, label) == /\ pc' = [pc EXCEPT ![r] = label]
                  /\ UNCHANGED reply

(* The response is sent, or decided while its transaction rolls back. *)
AnswerAt(r, label, answer) == /\ pc' = [pc EXCEPT ![r] = label]
                              /\ reply' = [reply EXCEPT ![r] = answer]

Answer(r, answer) == AnswerAt(r, "done", answer)

(* A request is received: it leaves idle with the call c. *)
Receive(r, c) == /\ pc[r] = "idle"
                 /\ call' = [call EXCEPT ![r] = c]

Target(r) == call[r].target

(* Row locks: UPDATE, DELETE and SELECT FOR UPDATE take one and keep it to *)
(* the end of their transaction.                                           *)
LockNothing(r) == UNCHANGED lock              \* bug: no with_for_update()
UnlockNothing(r) == UNCHANGED lock            \* bug: the session is never closed
Lock(r)   == lock' = [lock EXCEPT ![Target(r)] = r]
Unlock(r) == lock' = [i \in Ids |-> IF lock[i] = r THEN None ELSE lock[i]]
Locked(r) == lock[Target(r)] # None

(* The WHERE of the conditional UPDATE and DELETE. *)
MatchesId(r, status) == refunds[Target(r)] # None    \* bug: no filter on the status
Matches(r, status) == refunds[Target(r)] # None /\ refunds[Target(r)].status = status

(* delete_quietly: a deletion that fails is logged and goes unnoticed by   *)
(* the caller.                                                             *)
DeleteReceiptSilently(f) ==                   \* bug: `except: pass`
  /\ \/ receipts' = receipts \ {f}
     \/ "delete" \in Faults /\ UNCHANGED receipts
  /\ UNCHANGED <<payments, logged>>

DeleteReceiptQuietly(f) ==
  /\ \/ receipts' = receipts \ {f} /\ UNCHANGED logged
     \/ /\ "delete" \in Faults
        /\ logged' = logged \cup {<<"receipts", f>>}
        /\ UNCHANGED receipts
  /\ UNCHANGED payments

KeepPayment(f) == UNCHANGED storages          \* bug: no compensation

DeletePaymentQuietly(f) ==
  /\ \/ payments' = payments \ {f} /\ UNCHANGED logged
     \/ /\ "delete" \in Faults
        /\ logged' = logged \cup {<<"payments", f>>}
        /\ UNCHANGED payments
  /\ UNCHANGED receipts

-----------------------------------------------------------------------------
(* POST /refunds *)

CreateIsValid(c) == c.form /\ c.amount # "nonpositive"

(* The file is saved before anything points at it; the amount is converted *)
(* after that and outside any compensation.                                *)
CreateRefund(r, c) ==
  /\ Receive(r, c)
  /\ c.op = "create"
  /\ \/ /\ ~CreateIsValid(c)
        /\ Answer(r, "invalid")
        /\ UNCHANGED receipts
     \/ /\ CreateIsValid(c)
        /\ receipts' = receipts \cup {r}
        /\ IF c.amount = "nonfinite" THEN Answer(r, "badAmount") ELSE Goto(r, "insertRefund")
     \/ /\ CreateIsValid(c)
        /\ "save" \in Faults
        /\ receipts' \in {receipts, receipts \cup {r}}
        /\ Answer(r, "saveError")
  /\ UNCHANGED <<seen, database, payments, logged, crashes>>

NewRowNoDefault(r) == [owner |-> call[r].user, status |-> None, cents |-> Cents(call[r].amount),
                       receipt |-> r, payment |-> None]    \* bug: no server_default

NewRow(r) == [owner |-> call[r].user, status |-> "pending", cents |-> Cents(call[r].amount),
              receipt |-> r, payment |-> None]

(* insert_refund executes, commits and closes its session; whatever it     *)
(* raises leads to the compensation, a lost answer to its commit included. *)
InsertRefund(r) ==
  /\ pc[r] = "insertRefund"
  /\ \/ /\ Cents(call[r].amount) # "overflow"
        /\ refunds' = [refunds EXCEPT ![r] = NewRow(r)]
        /\ \/ Goto(r, "createReread")
           \/ Faults \cap {"ack", "close"} # {} /\ Goto(r, "undoReceipt")
     \/ /\ Cents(call[r].amount) = "overflow" \/ "db" \in Faults
        /\ Goto(r, "undoReceipt")
        /\ UNCHANGED refunds
  /\ UNCHANGED <<call, seen, reviews, lock, staged, storages, crashes>>

UndoReceipt(r) ==
  /\ pc[r] = "undoReceipt"
  /\ DeleteReceiptQuietly(r)
  /\ Answer(r, "error")
  /\ UNCHANGED <<call, seen, database, crashes>>

(* The response is built from a second read, in a transaction of its own.  *)
CreateReread(r) ==
  /\ pc[r] = "createReread"
  /\ \/ Answer(r, IF refunds[r] # None THEN "created" ELSE "error")
     \/ "db" \in Faults /\ Answer(r, "error")
  /\ UNCHANGED <<call, seen, database, storages, crashes>>

-----------------------------------------------------------------------------
(* DELETE /refunds/{id} *)

(* Whoever may not see a refund is told that it does not exist. *)
VisibleTo(c, row) == row # None /\ (c.role = "admin" \/ row.owner = c.user)

DeleteVerdict(c, row) == CASE ~VisibleTo(c, row)       -> "notFound"
                           [] VisibleTo(c, row) /\ row.status # "pending" -> "onlyPending"
                           [] VisibleTo(c, row) /\ row.status = "pending" -> "goOn"

DeleteRead(r, c) ==
  /\ Receive(r, c)
  /\ c.op = "delete"
  /\ LET verdict == DeleteVerdict(c, refunds[c.target])
     IN  \/ /\ verdict = "goOn"
            /\ seen' = [seen EXCEPT ![r] = refunds[c.target]]
            /\ Goto(r, "deleteRefund")
         \/ /\ verdict # "goOn"
            /\ Answer(r, verdict)
            /\ UNCHANGED seen
         \/ "db" \in Faults /\ Answer(r, "error") /\ UNCHANGED seen
  /\ UNCHANGED <<database, storages, crashes>>

(* DELETE ... WHERE status = 'pending': it waits for the row lock only     *)
(* when the row matches, and looks at the row again when it gets the lock. *)
DeleteRow(r) ==
  /\ pc[r] = "deleteRefund"
  /\ \/ /\ Matches(r, "pending") /\ ~Locked(r)
        /\ Lock(r)
        /\ Goto(r, "deleteCommit")
     \/ /\ ~Matches(r, "pending")
        /\ Answer(r, "onlyPending")
        /\ UNCHANGED lock
     \/ "db" \in Faults /\ Answer(r, "error") /\ UNCHANGED lock
  /\ UNCHANGED <<call, seen, refunds, reviews, staged, storages, crashes>>

DeleteCommit(r) ==
  /\ pc[r] = "deleteCommit"
  /\ Unlock(r)
  /\ \/ /\ refunds' = [refunds EXCEPT ![Target(r)] = None]
        /\ \/ Goto(r, "deleteReceipt")
           \/ Faults \cap {"ack", "close"} # {} /\ Answer(r, "error")
     \/ /\ "db" \in Faults
        /\ Answer(r, "error")
        /\ UNCHANGED refunds
  /\ UNCHANGED <<call, seen, reviews, staged, storages, crashes>>

DeleteReceipt(r) ==
  /\ pc[r] = "deleteReceipt"
  /\ DeleteReceiptQuietly(seen[r].receipt)
  /\ Answer(r, "deleted")
  /\ UNCHANGED <<call, seen, database, crashes>>

-----------------------------------------------------------------------------
(* The UnitOfWork: one transaction of several statements. *)

RaiseNothing(r, answer) == UNCHANGED <<pc, reply>>    \* bug: the statement is retried

(* An exception inside the block rolls back; the answer is then settled. *)
Raise(r, answer) == AnswerAt(r, "rollback", answer)

(* __aexit__ after an exception.  A rollback that fails closes the session *)
(* all the same, and the server discards the transaction either way.       *)
Rollback(r) ==
  /\ pc[r] = "rollback"
  /\ Unlock(r)
  /\ staged' = [staged EXCEPT ![r] = NoWrites]
  /\ Goto(r, IF call[r].op = "pay" THEN "undoPayment" ELSE "done")
  /\ UNCHANGED <<call, seen, refunds, reviews, storages, crashes>>

NewReviewFromPending(r) ==                    \* bug: from_status taken for granted
  [reviewer |-> call[r].user, from |-> "pending",
   to |-> IF call[r].op = "pay" THEN "paid" ELSE call[r].want, reason |-> TRUE]

(* The line of refund_reviews that records the decision or the payment. *)
NewReview(r) ==
  IF call[r].op = "pay"
  THEN [reviewer |-> call[r].user, from |-> "approved", to |-> "paid", reason |-> FALSE]
  ELSE [reviewer |-> call[r].user, from |-> seen[r].status, to |-> call[r].want,
        reason |-> call[r].reason]

InsertReview(r) ==
  /\ pc[r] = "insertReview"
  /\ \/ /\ staged' = [staged EXCEPT ![r].review = NewReview(r)]
        /\ Goto(r, "commit")
     \/ "db" \in Faults /\ Raise(r, "error") /\ UNCHANGED staged
  /\ UNCHANGED <<call, seen, refunds, reviews, lock, storages, crashes>>

(* The staged writes become visible together and the lock is released. *)
Publish(r) ==
  /\ refunds' = [refunds EXCEPT ![Target(r)] = staged[r].row]
  /\ reviews' = [reviews EXCEPT ![Target(r)] =
                   IF staged[r].review = None THEN @ ELSE Append(@, staged[r].review)]
  /\ staged' = [staged EXCEPT ![r] = NoWrites]
  /\ Unlock(r)

(* Closing the session fails after commit() returned: the payer's          *)
(* `committed` flag keeps the file.                                        *)
CloseFailedUndo(r) ==                         \* bug: compensation without the flag
  AnswerAt(r, IF call[r].op = "pay" THEN "undoPayment" ELSE "done", "error")
CloseFailed(r) == Answer(r, "error")

(* commit() raises, although the server committed: the flag is still off.  *)
CommitRaised(r) ==
  AnswerAt(r, IF call[r].op = "pay" THEN "undoPayment" ELSE "done", "error")

(* A review answers from the row it locked; a payment still reads again.   *)
Commit(r) ==
  /\ pc[r] = "commit"
  /\ \/ /\ Publish(r)
        /\ \/ call[r].op = "review" /\ Answer(r, "reviewed")
           \/ call[r].op = "pay" /\ Goto(r, "payReread")
           \/ "close" \in Faults /\ CloseFailed(r)
           \/ "ack" \in Faults /\ CommitRaised(r)
     \/ /\ "db" \in Faults
        /\ Raise(r, "error")
        /\ UNCHANGED database
  /\ UNCHANGED <<call, seen, storages, crashes>>

-----------------------------------------------------------------------------
(* PATCH /refunds/{id}/status *)

ReviewIsValid(c) == c.want \in ReviewTargets /\ (c.want = "rejected" => c.reason)

(* Validator and role check, before any access to the database. *)
ReviewRefund(r, c) ==
  /\ Receive(r, c)
  /\ c.op = "review"
  /\ CASE ~ReviewIsValid(c)                       -> Answer(r, "invalid")
       [] ReviewIsValid(c) /\ c.role # "admin"    -> Answer(r, "notAdmin")
       [] ReviewIsValid(c) /\ c.role = "admin"    -> Goto(r, "selectForUpdate")
  /\ UNCHANGED <<seen, database, storages, crashes>>

ReviewVerdictPaidToo(c, row) ==               \* bug: no guard for the terminal status
       IF row = None          THEN "notFound"
  ELSE IF row.owner = c.user  THEN "ownRefund"
  ELSE IF row.status = c.want THEN "alreadySo" ELSE "goOn"

(* The checks on the locked row, in the order of the code. *)
ReviewVerdict(c, row) == IF row = None             THEN "notFound"
                    ELSE IF row.owner = c.user     THEN "ownRefund"
                    ELSE IF row.status = "paid"    THEN "alreadyPaid"
                    ELSE IF row.status = c.want    THEN "alreadySo"
                                                   ELSE "goOn"

(* SELECT ... FOR UPDATE: a row that exists is locked, even by a review    *)
(* that then refuses; its rollback lets it go.                             *)
SelectForUpdate(r) ==
  /\ pc[r] = "selectForUpdate"
  /\ LET row == refunds[Target(r)]
         verdict == ReviewVerdict(call[r], row)
     IN  \/ /\ ~Locked(r)
            /\ IF row = None THEN UNCHANGED lock ELSE Lock(r)
            /\ seen' = [seen EXCEPT ![r] = row]
            /\ IF verdict = "goOn" THEN Goto(r, "updateStatus") ELSE Raise(r, verdict)
         \/ "db" \in Faults /\ Raise(r, "error") /\ UNCHANGED <<seen, lock>>
  /\ UNCHANGED <<call, refunds, reviews, staged, storages, crashes>>

(* UPDATE ... WHERE id: it would write nothing if the row were gone.       *)
UpdateStatus(r) ==
  /\ pc[r] = "updateStatus"
  /\ \/ /\ staged' = [staged EXCEPT ![r].row =
                        IF refunds[Target(r)] = None THEN None
                        ELSE [refunds[Target(r)] EXCEPT !.status = call[r].want]]
        /\ Goto(r, "insertReview")
     \/ "db" \in Faults /\ Raise(r, "error") /\ UNCHANGED staged
  /\ UNCHANGED <<call, seen, refunds, reviews, lock, storages, crashes>>

-----------------------------------------------------------------------------
(* POST /refunds/{id}/payment *)

PayVerdictOwnToo(c, row) ==                   \* bug: no segregation of duties
       IF row = None                THEN "notFound"
  ELSE IF row.status # "approved"   THEN "notApproved" ELSE "goOn"

PayVerdict(c, row) == IF row = None                  THEN "notFound"
                 ELSE IF row.owner = c.user          THEN "ownRefund"
                 ELSE IF row.status # "approved"     THEN "notApproved"
                                                     ELSE "goOn"

(* Validator and role, then a read without a lock, then the file. *)
PayRefund(r, c) ==
  /\ Receive(r, c)
  /\ c.op = "pay"
  /\ LET row == refunds[c.target]
         mayPay == c.form /\ c.role = "admin"
         verdict == PayVerdict(c, row)
     IN  \/ /\ ~mayPay
            /\ Answer(r, IF c.form THEN "notAdmin" ELSE "invalid")
            /\ UNCHANGED <<seen, payments>>
         \/ /\ mayPay /\ verdict # "goOn"
            /\ Answer(r, verdict)
            /\ UNCHANGED <<seen, payments>>
         \/ /\ mayPay /\ verdict = "goOn"
            /\ seen' = [seen EXCEPT ![r] = row]
            /\ payments' = payments \cup {r}
            /\ Goto(r, "markAsPaid")
         \/ /\ mayPay /\ verdict = "goOn"
            /\ "save" \in Faults
            /\ payments' \in {payments, payments \cup {r}}
            /\ Answer(r, "saveError")
            /\ UNCHANGED seen
         \/ /\ mayPay
            /\ "db" \in Faults
            /\ Answer(r, "error")
            /\ UNCHANGED <<seen, payments>>
  /\ UNCHANGED <<database, receipts, logged, crashes>>

(* UPDATE ... WHERE status = 'approved': the second look at the status. *)
MarkAsPaid(r) ==
  /\ pc[r] = "markAsPaid"
  /\ \/ /\ Matches(r, "approved") /\ ~Locked(r)
        /\ Lock(r)
        /\ staged' = [staged EXCEPT ![r].row =
                        [refunds[Target(r)] EXCEPT !.status = "paid", !.payment = r]]
        /\ Goto(r, "insertReview")
     \/ /\ ~Matches(r, "approved")
        /\ Raise(r, "paidByAnother")
        /\ UNCHANGED <<lock, staged>>
     \/ /\ "db" \in Faults
        /\ Raise(r, "error")
        /\ UNCHANGED <<lock, staged>>
  /\ UNCHANGED <<call, seen, refunds, reviews, storages, crashes>>

(* The compensation of a payment whose commit did not return. *)
UndoPayment(r) ==
  /\ pc[r] = "undoPayment"
  /\ DeletePaymentQuietly(r)
  /\ Goto(r, "done")
  /\ UNCHANGED <<call, seen, database, crashes>>

PayReread(r) ==
  /\ pc[r] = "payReread"
  /\ \/ Answer(r, IF refunds[Target(r)] # None THEN "paid" ELSE "error")
     \/ "db" \in Faults /\ Answer(r, "error")
  /\ UNCHANGED <<call, seen, database, storages, crashes>>

-----------------------------------------------------------------------------
(* A statement that waits three seconds for a row lock fails. *)
LockTimeout(r) ==
  /\ \/ pc[r] = "deleteRefund" /\ Matches(r, "pending") /\ Locked(r) /\ Answer(r, "error")
     \/ pc[r] = "selectForUpdate" /\ Locked(r) /\ Raise(r, "error")
     \/ pc[r] = "markAsPaid" /\ Matches(r, "approved") /\ Locked(r) /\ Raise(r, "error")
  /\ UNCHANGED <<call, seen, database, storages, crashes>>

(* The process dies with every request in it; PostgreSQL discards their    *)
(* open transactions, and the files they saved stay.                       *)
Crash ==
  /\ "crash" \in Faults
  /\ crashes < MaxCrashes
  /\ crashes' = crashes + 1
  /\ pc' = [r \in Requests |-> IF pc[r] \in {"idle"} \cup Finished THEN pc[r] ELSE "dead"]
  /\ lock' = [i \in Ids |-> None]
  /\ staged' = [r \in Requests |-> NoWrites]
  /\ UNCHANGED <<call, seen, reply, refunds, reviews, storages>>

Arrive(r) == \E c \in Calls : \/ CreateRefund(r, c) \/ DeleteRead(r, c)
                              \/ ReviewRefund(r, c) \/ PayRefund(r, c)

Step(r) == \/ InsertRefund(r) \/ UndoReceipt(r) \/ CreateReread(r)
           \/ DeleteRow(r) \/ DeleteCommit(r) \/ DeleteReceipt(r)
           \/ SelectForUpdate(r) \/ UpdateStatus(r) \/ InsertReview(r)
           \/ Commit(r) \/ Rollback(r)
           \/ MarkAsPaid(r) \/ UndoPayment(r) \/ PayReread(r)
           \/ LockTimeout(r)

(* Every request has been served or died with the process. *)
Quiet == (\A r \in Requests : pc[r] \in Finished) /\ UNCHANGED vars

Next == \/ \E r \in Requests : Arrive(r) \/ Step(r)
        \/ Crash
        \/ Quiet

Spec == Init /\ [][Next]_vars

(* The event loop runs every coroutine that can run, and every wait on the *)
(* database ends by its answer or by lock_timeout.                         *)
FairSpec == Spec /\ \A r \in Requests : WF_vars(Step(r))

============================================================================
