-------------------------- MODULE RefundLifecycle --------------------------
(***************************************************************************)
(* What the service promises about one refund, whatever the number of      *)
(* requests working on it: a claim is created pending, is decided (and     *)
(* re-decided) by somebody other than its owner, is paid at most once and  *)
(* only from approved, and can disappear only while nobody has decided     *)
(* it.  Every change of status and the line that records it in the history *)
(* are one step.  RefundApi implements this specification.                 *)
(***************************************************************************)
EXTENDS Naturals, Sequences

CONSTANTS Ids,      \* refund identifiers, never reused
          Users,
          Files,    \* names of payment receipts
          None      \* the value of "no row" and of "no payment receipt"

Statuses == {"pending", "approved", "rejected", "paid"}

(* A review decides a refund one way or the other; nothing goes back to    *)
(* pending, and paid is reached by a payment only.                         *)
ReviewTargets == {"approved", "rejected"}

Claim == [owner: Users, status: Statuses, payment: Files \cup {None}]

Decision == [reviewer: Users, from: Statuses, to: Statuses, reason: BOOLEAN]

VARIABLES claims,    \* the refunds that exist
          history    \* the decisions recorded about each of them

vars == <<claims, history>>

TypeOK == /\ claims \in [Ids -> Claim \cup {None}]
          /\ history \in [Ids -> Seq(Decision)]

(* The status a history leads to. *)
StatusAfter(log) == IF log = <<>> THEN "pending" ELSE log[Len(log)].to

(* A history is a walk through the allowed transitions: it starts at       *)
(* pending, every line starts where the previous one ended, and the lines  *)
(* are the ones a decision or a payment writes.                            *)
IsWalk(log) ==
  \A k \in DOMAIN log :
    /\ log[k].from = IF k = 1 THEN "pending" ELSE log[k - 1].to
    /\ log[k].from # log[k].to
    /\ \/ log[k].from # "paid" /\ log[k].to \in ReviewTargets
       \/ log[k].from = "approved" /\ log[k].to = "paid"

(* One claim and its history tell the same story.                          *)
Coherent(c, log) ==
  /\ IsWalk(log)
  /\ c = None => log = <<>>
  /\ c # None => /\ c.status = StatusAfter(log)
                 /\ c.status = "paid" <=> c.payment # None
                 /\ \A k \in DOMAIN log : log[k].reviewer # c.owner

Init == /\ TypeOK
        /\ \A i \in Ids : Coherent(claims[i], history[i])

Create(i) ==
  /\ claims[i] = None
  /\ \E u \in Users :
       claims' = [claims EXCEPT ![i] = [owner |-> u, status |-> "pending", payment |-> None]]
  /\ UNCHANGED history

Delete(i) ==
  /\ claims[i] # None
  /\ claims[i].status = "pending"
  /\ claims' = [claims EXCEPT ![i] = None]
  /\ UNCHANGED history

(* The status changes and the line that records it is appended, together. *)
Record(i, d) == history' = [history EXCEPT ![i] = Append(@, d)]

Decide(i) ==
  /\ claims[i] # None
  /\ claims[i].status # "paid"
  /\ \E u \in Users \ {claims[i].owner}, to \in ReviewTargets \ {claims[i].status},
        reason \in BOOLEAN :
       /\ to = "rejected" => reason
       /\ claims' = [claims EXCEPT ![i].status = to]
       /\ Record(i, [reviewer |-> u, from |-> claims[i].status, to |-> to, reason |-> reason])

Pay(i) ==
  /\ claims[i] # None
  /\ claims[i].status = "approved"
  /\ \E u \in Users \ {claims[i].owner}, f \in Files :
       /\ \A j \in Ids : claims[j] = None \/ claims[j].payment # f
       /\ claims' = [claims EXCEPT ![i].status = "paid", ![i].payment = f]
       /\ Record(i, [reviewer |-> u, from |-> "approved", to |-> "paid", reason |-> FALSE])

Next == \E i \in Ids : Create(i) \/ Delete(i) \/ Decide(i) \/ Pay(i)

Spec == Init /\ [][Next]_vars
============================================================================
