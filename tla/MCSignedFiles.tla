--------------------------- MODULE MCSignedFiles ---------------------------
(***************************************************************************)
(* Instances of SignedFiles for TLC: a refund and a picture of one person, *)
(* and somebody else, who may become an admin.                             *)
(***************************************************************************)
EXTENDS SignedFiles, TLC

CONSTANTS ann, bob, f1, a1, a2

MCOwner == f1 :> ann
MCUploader == [n \in Pictures |-> ann]
MCSymmetry == Permutations(Requests) \cup Permutations(Finders)
============================================================================
