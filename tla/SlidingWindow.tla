--------------------------- MODULE SlidingWindow ---------------------------
(***************************************************************************)
(* What a limit of "Limit attempts per rolling window" means: an attempt   *)
(* is accepted exactly when the Limit-th last accepted attempt under the   *)
(* same key is at least a window old, or there is none.  Nothing is ever   *)
(* forgotten but by a restart.  RateLimiter implements this specification. *)
(***************************************************************************)
EXTENDS Integers, Sequences

CONSTANTS Keys,     \* what is counted separately: a scope and a client
          Limit,    \* attempts allowed per window, by key
          Window    \* length of the window

VARIABLES clock,    \* time.monotonic()
          accepted, \* times of the accepted attempts, by key
          verdict   \* the last attempt and whether it was accepted

vars == <<clock, accepted, verdict>>

NoAttempt == [key |-> <<>>, at |-> 0, allowed |-> FALSE]

Init == /\ clock \in Nat
        /\ accepted = [k \in Keys |-> <<>>]
        /\ verdict = NoAttempt

MayPass(k) == LET n == Len(accepted[k]) IN
  n < Limit[k] \/ accepted[k][n - Limit[k] + 1] <= clock - Window

Attempt(k) ==
  /\ accepted' = IF MayPass(k) THEN [accepted EXCEPT ![k] = Append(@, clock)] ELSE accepted
  /\ verdict' = [key |-> k, at |-> clock, allowed |-> MayPass(k)]
  /\ UNCHANGED clock

Tick == /\ clock' \in Nat
        /\ clock' > clock
        /\ UNCHANGED <<accepted, verdict>>

Restart == /\ accepted' = [k \in Keys |-> <<>>]
           /\ verdict' = NoAttempt
           /\ UNCHANGED clock

Next == (\E k \in Keys : Attempt(k)) \/ Tick \/ Restart

Spec == Init /\ [][Next]_vars
============================================================================
