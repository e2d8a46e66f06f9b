---------------------------- MODULE MCRefundApi ----------------------------
(***************************************************************************)
(* Instances of RefundApi for TLC: an employee, alice, and two             *)
(* administrators, bob and carol; one pending refund of alice and one that *)
(* bob has approved.                                                       *)
(***************************************************************************)
EXTENDS RefundApiProperties, TLC

CONSTANTS alice, bob, carol, s1, s2

MCUsers == {alice, bob, carol}
MCSeeds == {s1, s2}

Approval == [reviewer |-> bob, from |-> "pending", to |-> "approved", reason |-> FALSE]

MCSeedRow ==
  [i \in MCSeeds |->
     [owner |-> alice, status |-> IF i = s1 THEN "pending" ELSE "approved",
      cents |-> "positive", receipt |-> i, payment |-> None]]

MCSeedLog == [i \in MCSeeds |-> IF i = s1 THEN <<>> ELSE <<Approval>>]

CreateBy(u, amount) ==
  [op |-> "create", user |-> u, role |-> "standard", form |-> TRUE, amount |-> amount]
DeleteBy(u, role, t) == [op |-> "delete", user |-> u, role |-> role, target |-> t]
ReviewBy(u, role, t, want, reason) ==
  [op |-> "review", user |-> u, role |-> role, target |-> t, want |-> want, reason |-> reason]
PayBy(u, role, t, form) ==
  [op |-> "pay", user |-> u, role |-> role, target |-> t, form |-> form]

(* Everything that goes through, on the seeds and on what is created: the  *)
(* races.  Alice is an administrator by now when she works on her own.     *)
RaceCalls ==
  {CreateBy(alice, "ordinary")}
  \cup {DeleteBy(alice, "standard", t) : t \in MCSeeds \cup Requests}
  \cup {ReviewBy(u, "admin", t, want, TRUE) :
          u \in {alice, bob}, t \in MCSeeds \cup Requests, want \in ReviewTargets}
  \cup {PayBy(u, "admin", t, TRUE) : u \in {alice, bob}, t \in MCSeeds \cup Requests}

(* Everything a client may ask for, refused forms and amounts included. *)
FaultCalls ==
  {CreateBy(alice, amount) : amount \in Amounts}
  \cup {[CreateBy(alice, "ordinary") EXCEPT !.form = FALSE]}
  \cup {DeleteBy(alice, "standard", s1), DeleteBy(bob, "standard", s1)}
  \cup {DeleteBy(carol, "admin", t) : t \in MCSeeds \cup Requests}
  \cup {ReviewBy(bob, role, s1, want, reason) :
          role \in Roles, want \in Statuses, reason \in BOOLEAN}
  \cup {ReviewBy(bob, "admin", t, want, TRUE) : t \in {s2} \cup Requests, want \in ReviewTargets}
  \cup {ReviewBy(alice, "admin", s1, "approved", TRUE)}
  \cup {PayBy(bob, role, s2, form) : role \in Roles, form \in BOOLEAN}
  \cup {PayBy(u, "admin", t, TRUE) : u \in {alice, carol}, t \in MCSeeds \cup Requests}

Symmetry == Permutations(Requests)
============================================================================
