------------------------ MODULE RefundApiProperties ------------------------
(***************************************************************************)
(* What RefundApi must guarantee, and what comments of the code say of it. *)
(***************************************************************************)
EXTENDS RefundApi

(* The committed rows as the claims of the abstract specification. *)
Claims == [i \in Ids |->
             IF refunds[i] = None THEN None
             ELSE [owner |-> refunds[i].owner, status |-> refunds[i].status,
                   payment |-> refunds[i].payment]]

Lifecycle == INSTANCE RefundLifecycle WITH claims <- Claims, history <- reviews

(* The concurrent requests together do no more than the abstract life of   *)
(* a refund allows: RefundReviewer, RefundPayer, RefundDeleter and their   *)
(* SQL, step for step, create, delete, decide and pay.                     *)
ImplementsLifecycle == Lifecycle!Spec

(* The log of refund_reviews explains the row of refunds: it is a walk     *)
(* through the transitions of BR-017 that ends in the row's status, written *)
(* by others than the owner (BR-016), about a row that still exists once it *)
(* was decided (BR-015), and a payment file is there exactly when the row  *)
(* is paid (BR-022), the pairing "nothing in the database enforces".       *)
HistoryExplainsStatus == \A i \in Ids : Lifecycle!Coherent(Claims[i], reviews[i])

(* A paid refund is final: no request, whatever it read before the payment *)
(* committed, changes its row or its history any more (BR-017 as amended). *)
PaidIsFinal ==
  [][\A i \in Ids : refunds[i] # None /\ refunds[i].status = "paid"
                      => refunds'[i] = refunds[i] /\ reviews'[i] = reviews[i]]_vars

(* Every file a committed row names is in its storage, but for a request   *)
(* that was answered 500 because the answer to its own commit was lost: a  *)
(* payer loses its file only if commit() itself raises, not if the session *)
(* fails to close.                                                         *)
FilesBehindRows ==
  /\ \A i \in Ids : refunds[i] # None /\ refunds[i].receipt \notin receipts =>
       /\ Faults \cap {"ack", "close"} # {}
       /\ i \in Requests
       /\ reply[i] = "error"
  /\ \A i \in Ids : refunds[i] # None /\ refunds[i].payment \notin payments \cup {None} =>
       /\ "ack" \in Faults
       /\ refunds[i].payment \in Requests
       /\ reply[refunds[i].payment] = "error"

Served(r) == pc[r] = "done"

(* What a client was told is so, whatever else ran at the same time: a     *)
(* created refund has its receipt unless somebody asked to delete it, a    *)
(* deleted one is gone, a decision is in the history, the refund a payer   *)
(* was told is paid carries that payer's file; and a refusal left no row,  *)
(* no payment and, failed deletions apart, no file.                        *)
AnswersAreTrue ==
  \A r \in Requests : Served(r) =>
    /\ reply[r] = "created" =>
         IF refunds[r] # None THEN r \in receipts
         ELSE \E d \in Requests : call[d] # None /\ call[d].op = "delete" /\ call[d].target = r
    /\ reply[r] = "deleted" => refunds[Target(r)] = None
    /\ reply[r] = "reviewed" =>
         \E k \in DOMAIN reviews[Target(r)] :
            /\ reviews[Target(r)][k].reviewer = call[r].user
            /\ reviews[Target(r)][k].to = call[r].want
    /\ reply[r] = "paid" =>
         /\ Matches(r, "paid")
         /\ refunds[Target(r)].payment = r
         /\ r \in payments
    /\ reply[r] \in Refusals =>
         /\ refunds[r] = None
         /\ \A i \in Ids : refunds[i] = None \/ refunds[i].payment # r
         /\ r \notin receipts
         /\ r \in payments => <<"payments", r>> \in logged

OrphanReceipts == {f \in receipts : \A i \in Ids : refunds[i] = None \/ refunds[i].receipt # f}
OrphanPayments == {f \in payments : \A i \in Ids : refunds[i] = None \/ refunds[i].payment # f}

(* A file no row names belongs to a request that is still at work on it,   *)
(* or it has one of the causes for which the code leaves it behind: a      *)
(* deletion that failed and was logged, a process that died, a save that   *)
(* failed half way, an amount that round() refuses after the save, and a   *)
(* delete whose commit was durable but raised.                             *)
EveryOrphanHasACause ==
  /\ \A f \in OrphanReceipts :
       \/ <<"receipts", f>> \in logged
       \/ /\ f \in Requests
          /\ \/ pc[f] \in {"insertRefund", "undoReceipt", "dead"}
             \/ reply[f] \in {"badAmount", "saveError"}
       \/ \E d \in Requests :
            /\ call[d] # None /\ call[d].op = "delete" /\ call[d].target = f
            /\ \/ pc[d] \in {"deleteReceipt", "dead"}
               \/ reply[d] = "error" /\ Faults \cap {"ack", "close"} # {}
  /\ \A f \in OrphanPayments :
       \/ <<"payments", f>> \in logged
       \/ pc[f] \in {"markAsPaid", "insertReview", "commit", "rollback", "undoPayment", "dead"}
       \/ reply[f] = "saveError"

(* The row lock a transaction takes does not outlive it: whoever holds one *)
(* is inside the transaction that took it and will commit or roll back.    *)
LocksAreHeldByTransactions ==
  \A i \in Ids : lock[i] # None =>
    /\ pc[lock[i]] \in {"deleteCommit", "updateStatus", "insertReview", "commit", "rollback"}
    /\ call[lock[i]].target = i

(* Every request that arrived is answered or dies with the process: no     *)
(* wait for a row lock, no rollback and no compensation goes on for ever.  *)
EveryRequestIsServed ==
  \A r \in Requests : pc[r] # "idle" ~> pc[r] \in Finished

-----------------------------------------------------------------------------
(* The inductive invariant: what every request knows at each of its steps. *)

ASSUME ClaimsAreNotNone == None \notin Lifecycle!Claim

ASSUME SeedsAreCoherent ==
  \A i \in Seeds :
    Lifecycle!Coherent([owner |-> SeedRow[i].owner, status |-> SeedRow[i].status,
                        payment |-> SeedRow[i].payment], SeedLog[i])

(* Steps that run with the row lock of the target held. *)
Locking == {"deleteCommit", "updateStatus", "insertReview", "commit"}

(* Which operation a request is at each label, and what its validator and  *)
(* its role check have let through.                                        *)
CallOK(r) ==
  /\ pc[r] # "idle" => call[r] # None
  /\ pc[r] \in {"insertRefund", "undoReceipt", "createReread"} =>
       call[r].op = "create" /\ call[r].amount \notin {"nonpositive", "nonfinite"}
  /\ pc[r] \in {"deleteRefund", "deleteCommit", "deleteReceipt"} => call[r].op = "delete"
  /\ pc[r] \in {"selectForUpdate", "updateStatus"} => call[r].op = "review"
  /\ pc[r] \in {"markAsPaid", "undoPayment", "payReread"} => call[r].op = "pay"
  /\ pc[r] \in {"insertReview", "commit", "rollback"} => call[r].op \in {"review", "pay"}
  /\ pc[r] \notin {"idle"} \cup Finished /\ call[r].op = "review" => ReviewIsValid(call[r])

(* Who holds which lock. *)
LockInv == /\ \A r \in Requests : pc[r] \in Locking => lock[Target(r)] = r
           /\ LocksAreHeldByTransactions

(* Whoever owns refund i, from the moment it exists. *)
Owner(i) == IF i \in Seeds THEN SeedRow[i].owner ELSE call[i].user
Exists(i) == i \in Requests => pc[i] \notin {"idle", "insertRefund"}

(* What is so of a row as long as it exists. *)
RowOK(i) == refunds[i] # None =>
  /\ Exists(i)
  /\ refunds[i].owner = Owner(i)
  /\ refunds[i].receipt = i
  /\ \/ refunds[i].payment = None
     \/ i \in Seeds /\ refunds[i].payment = i
     \/ /\ refunds[i].payment \in Requests
        /\ pc[refunds[i].payment] \notin {"idle", "markAsPaid", "insertReview", "commit"}
        /\ call[refunds[i].payment].op = "pay"
        /\ Target(refunds[i].payment) = i

(* What a decision or a payment has read is still so: the reviewer because *)
(* it holds the lock, the payer because an owner does not change.          *)
SeenOK(r) ==
  /\ pc[r] \in {"deleteRefund", "deleteCommit", "deleteReceipt"} =>
       seen[r] # None /\ seen[r].receipt = Target(r)
  /\ pc[r] = "deleteCommit" => Matches(r, "pending")
  /\ pc[r] \in {"updateStatus", "insertReview", "commit"} /\ call[r].op = "review" =>
       /\ seen[r] # None
       /\ seen[r] = refunds[Target(r)]
       /\ seen[r].owner # call[r].user
       /\ seen[r].status \notin {"paid", call[r].want}
  /\ pc[r] = "markAsPaid" => Exists(Target(r)) /\ Owner(Target(r)) # call[r].user
  /\ pc[r] \in {"insertReview", "commit"} /\ call[r].op = "pay" =>
       Matches(r, "approved") /\ refunds[Target(r)].owner # call[r].user

(* The uncommitted writes are those of the operation. *)
StagedOK(r) ==
  /\ pc[r] \in {"insertReview", "commit"} =>
       staged[r].row =
         IF call[r].op = "pay"
         THEN [refunds[Target(r)] EXCEPT !.status = "paid", !.payment = r]
         ELSE [refunds[Target(r)] EXCEPT !.status = call[r].want]
  /\ pc[r] = "commit" => staged[r].review = NewReview(r)

CallInv   == \A r \in Requests : CallOK(r)
RowInv    == \A i \in Ids : RowOK(i)
SeenInv   == \A r \in Requests : SeenOK(r)
StagedInv == \A r \in Requests : StagedOK(r)

IInv == /\ TypeOK /\ CallInv /\ LockInv /\ RowInv /\ SeenInv /\ StagedInv
        /\ HistoryExplainsStatus

(* What a request has answered, and what its file and its row come to.     *)
(* It answers once: nothing before the end, or while it rolls back.        *)
ReplyOK(r) ==
  /\ pc[r] \notin Finished \cup {"rollback", "undoPayment"} => reply[r] = "none"
  /\ pc[r] = "idle" => call[r] = None

AskedToDelete(f) ==
  \E d \in Requests : call[d] # None /\ call[d].op = "delete" /\ call[d].target = f

(* The file and the row of a request that creates a refund. *)
CreatorOK(r) ==
  /\ refunds[r] # None \/ r \in receipts =>
       pc[r] # "idle" /\ call[r].op = "create" /\ reply[r] \notin Refusals
  /\ pc[r] = "insertRefund" => r \in receipts
  /\ pc[r] = "undoReceipt" /\ refunds[r] # None => Faults \cap {"ack", "close"} # {}
  /\ pc[r] = "createReread" \/ reply[r] = "created" => refunds[r] # None \/ AskedToDelete(r)

(* A deletion that was committed is not undone. *)
DeleterOK(r) ==
  pc[r] = "deleteReceipt" \/ reply[r] = "deleted" =>
    /\ call[r].op = "delete" /\ Target(r) \in Ids
    /\ Exists(Target(r)) /\ refunds[Target(r)] = None

(* A decision that was committed stays in the history. *)
ReviewerOK(r) ==
  reply[r] = "reviewed" =>
    /\ call[r].op = "review" /\ Target(r) \in Ids
    /\ \E k \in DOMAIN reviews[Target(r)] :
         /\ reviews[Target(r)][k].reviewer = call[r].user
         /\ reviews[Target(r)][k].to = call[r].want

PayingSteps == {"insertReview", "commit", "rollback", "undoPayment"}

(* The file of a request that pays: saved before the row is read again,    *)
(* and kept for good once a row refers to it.                              *)
PayerOK(r) ==
  /\ r \in payments => pc[r] # "idle" /\ call[r].op = "pay"
  /\ pc[r] = "markAsPaid" \/ (pc[r] \in PayingSteps /\ call[r].op = "pay") => r \in payments
  /\ pc[r] = "payReread" \/ reply[r] = "paid" =>
       /\ call[r].op = "pay" /\ Target(r) \in Ids
       /\ r \in payments /\ Matches(r, "paid") /\ refunds[Target(r)].payment = r
  /\ \A i \in Ids : refunds[i] # None /\ refunds[i].payment = r =>
       /\ reply[r] \notin Refusals /\ pc[r] # "rollback"
       /\ pc[r] = "undoPayment" => reply[r] = "error" /\ "ack" \in Faults
  /\ reply[r] \in Refusals /\ r \in payments =>
       <<"payments", r>> \in logged \/ pc[r] \in {"rollback", "undoPayment", "dead"}

(* The files behind row i. *)
ReceiptOK(i) == refunds[i] # None =>
  \/ i \in receipts
  \/ /\ Faults \cap {"ack", "close"} # {}
     /\ i \in Requests /\ pc[i] = "done" /\ reply[i] = "error"
PaymentOK(i) == refunds[i] # None /\ refunds[i].payment # None =>
  \/ refunds[i].payment \in payments
  \/ /\ "ack" \in Faults
     /\ refunds[i].payment \in Requests
     /\ pc[refunds[i].payment] = "done" /\ reply[refunds[i].payment] = "error"

(* Why file f is there although no row names it. *)
ReceiptCause(f) == f \in receipts /\ refunds[f] = None =>
  \/ <<"receipts", f>> \in logged
  \/ /\ f \in Requests
     /\ \/ pc[f] \in {"insertRefund", "undoReceipt", "dead"}
        \/ reply[f] \in {"badAmount", "saveError"}
  \/ \E d \in Requests :
       /\ call[d] # None /\ call[d].op = "delete" /\ call[d].target = f
       /\ \/ pc[d] \in {"deleteReceipt", "dead"}
          \/ reply[d] = "error" /\ Faults \cap {"ack", "close"} # {}
PaymentCause(f) == f \in payments =>
  IF f \in Seeds
  THEN refunds[f] # None /\ refunds[f].payment = f
  ELSE \/ \E i \in Ids : refunds[i] # None /\ refunds[i].payment = f
       \/ <<"payments", f>> \in logged
       \/ pc[f] \in {"markAsPaid", "insertReview", "commit", "rollback", "undoPayment", "dead"}
       \/ reply[f] = "saveError"

ReplyInv    == \A r \in Requests : ReplyOK(r)
CreatorInv  == \A r \in Requests : CreatorOK(r)
DeleterInv  == \A r \in Requests : DeleterOK(r)
ReviewerInv == \A r \in Requests : ReviewerOK(r)
PayerInv    == \A r \in Requests : PayerOK(r)
RowFileInv  == \A i \in Ids : ReceiptOK(i) /\ PaymentOK(i)
CauseInv    == \A f \in Files : ReceiptCause(f) /\ PaymentCause(f)

FilesInv == /\ ReplyInv /\ CreatorInv /\ DeleterInv /\ ReviewerInv /\ PayerInv
            /\ RowFileInv /\ CauseInv

-----------------------------------------------------------------------------
(* A comment of the code, as written. *)

(* refund_creator_controller.py 44-48: past the insert the row exists and  *)
(* points at the file, and the compensation draws the payer's boundary, so *)
(* that no failure after a durable commit takes the receipt of a refund.   *)
ReceiptSurvivesItsCommit ==
  \A i \in Ids : refunds[i] # None => refunds[i].receipt \in receipts

============================================================================
