---------------------------- MODULE MCAvatarApi ----------------------------
(***************************************************************************)
(* Instances of AvatarApi for TLC: alice has a picture, bob has none.      *)
(***************************************************************************)
EXTENDS AvatarApi, TLC

CONSTANTS alice, bob

MCUsers == {alice, bob}
MCPictured == {alice}

Upload(u) == [op |-> "upload", user |-> u, form |-> TRUE]
Remove(u) == [op |-> "remove", user |-> u]

(* Requests that go through, all of the user who has a picture. *)
RaceCalls == {Upload(alice), Remove(alice)}

(* Everything a client may ask for. *)
FaultCalls == {Upload(u) : u \in MCUsers \cup {None}}
              \cup {Remove(u) : u \in MCUsers \cup {None}}
              \cup {[Upload(alice) EXCEPT !.form = FALSE]}

Symmetry == Permutations(Requests)
============================================================================
