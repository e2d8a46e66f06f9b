------------------------- MODULE MCRequestPipeline -------------------------
(***************************************************************************)
(* Instance of RequestPipeline for TLC: a query with a token and one with  *)
(* a token whose name is in upper case.                                    *)
(***************************************************************************)
EXTENDS RequestPipeline, TLC

MCQueries ==
  {{[name |-> "token", upperCase |-> upper, value |-> "secret"],
    [name |-> "page", upperCase |-> FALSE, value |-> "secret"]} : upper \in BOOLEAN}

MCSymmetry == Permutations(Requests)
============================================================================
