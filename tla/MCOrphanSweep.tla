--------------------------- MODULE MCOrphanSweep ---------------------------
(***************************************************************************)
(* Instances of OrphanSweep for TLC: a leftover among the receipts, and a  *)
(* payment and an avatar that the API may save.                            *)
(***************************************************************************)
EXTENDS OrphanSweep, TLC

CONSTANTS leftover, payment, avatar

MCFiles == {leftover, payment, avatar}
MCHome == leftover :> "receipts" @@ payment :> "payments" @@ avatar :> "avatars"

FewFiles == {leftover, avatar}
FewHome == [f \in FewFiles |-> MCHome[f]]

Symmetry == Permutations(Sweepers)
============================================================================
