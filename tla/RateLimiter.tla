---------------------------- MODULE RateLimiter ----------------------------
(***************************************************************************)
(* The rate limiter in front of /auth/register and /auth/login: a deque of *)
(* accepted attempts for every pair of a scope and a client, from which an *)
(* attempt first drops what has left the window.  allow() contains no      *)
(* await, so that attempts do not interleave; time passes between them.    *)
(***************************************************************************)
EXTENDS Integers, Sequences

CONSTANTS Clients,       \* peer addresses
          Scopes,        \* the routes that are limited
          ScopeLimit,    \* settings: attempts per window, by scope
          Window,        \* settings: rate_limit_window_seconds
          MaxClock,      \* bound on the clock
          MaxRestarts    \* bound on restarts of the process

ASSUME SettingsAssumption ==
  /\ ScopeLimit \in [Scopes -> Nat \ {0}]
  /\ Window \in Nat \ {0}
  /\ MaxClock \in Nat /\ MaxRestarts \in Nat

Keys == Scopes \X Clients
Limit == [k \in Keys |-> ScopeLimit[k[1]]]

VARIABLES
  clock,     \* time.monotonic()
  hits,      \* the deques; one that is missing from the dict is an empty one
  accepted,  \* history: every attempt accepted since the process started
  verdict,   \* the last attempt and what allow() returned for it
  restarts   \* restarts so far

vars == <<clock, hits, accepted, verdict, restarts>>

NoAttempt == [key |-> <<>>, at |-> 0, allowed |-> FALSE]

TypeOK ==
  /\ clock \in 0..MaxClock
  /\ hits \in [Keys -> Seq(Nat)]
  /\ accepted \in [Keys -> Seq(Nat)]
  /\ verdict \in {NoAttempt} \cup [key: Keys, at: Nat, allowed: BOOLEAN]
  /\ restarts \in 0..MaxRestarts

Init ==
  /\ clock = 0
  /\ hits = [k \in Keys |-> <<>>]
  /\ accepted = [k \in Keys |-> <<>>]
  /\ verdict = NoAttempt
  /\ restarts = 0

ExpiredStrictly(time, cutoff) == time < cutoff     \* bug: the boundary is kept

(* An attempt exactly one window old does not count any more. *)
Expired(time, cutoff) == time <= cutoff

(* The loop of popleft: as long as the first attempt has expired.          *)
DropExpired(attempts, cutoff) ==
  LET dropped == CHOOSE n \in 0..Len(attempts) :
                   /\ \A i \in 1..n : Expired(attempts[i], cutoff)
                   /\ n < Len(attempts) => ~Expired(attempts[n + 1], cutoff)
  IN  SubSeq(attempts, dropped + 1, Len(attempts))

IsFullLate(attempts, k) == Len(attempts) > Limit[k]    \* bug: off by one

IsFull(attempts, k) == Len(attempts) >= Limit[k]

(* allow(): a refused attempt is not recorded, but it drops the expired.   *)
Allow(k) ==
  LET attempts == DropExpired(hits[k], clock - Window)
  IN  /\ IF IsFull(attempts, k)
         THEN /\ hits' = [hits EXCEPT ![k] = attempts]
              /\ UNCHANGED accepted
         ELSE /\ hits' = [hits EXCEPT ![k] = Append(attempts, clock)]
              /\ accepted' = [accepted EXCEPT ![k] = Append(@, clock)]
      /\ verdict' = [key |-> k, at |-> clock, allowed |-> ~IsFull(attempts, k)]
      /\ UNCHANGED <<clock, restarts>>

Tick == /\ clock' \in (clock + 1)..MaxClock
        /\ UNCHANGED <<hits, accepted, verdict, restarts>>

(* The counters live in the memory of the process. *)
Restart == /\ restarts < MaxRestarts
           /\ restarts' = restarts + 1
           /\ hits' = [k \in Keys |-> <<>>]
           /\ accepted' = [k \in Keys |-> <<>>]
           /\ verdict' = NoAttempt
           /\ UNCHANGED clock

Next == (\E k \in Keys : Allow(k)) \/ Tick \/ Restart

Spec == Init /\ [][Next]_vars

-----------------------------------------------------------------------------
(* What allow() answers from its short deque is what the whole history of  *)
(* accepted attempts under that key - and under no other - calls for: the  *)
(* deque never forgets an attempt that still counts, and never counts one  *)
(* that does not.                                                          *)
Rolling == INSTANCE SlidingWindow

ImplementsSlidingWindow == Rolling!Spec

(* No window of time, wherever it starts, holds more than the limit: the   *)
(* doubling at the boundary of a fixed bucket (rate_limit.py 38-40) cannot *)
(* happen.                                                                 *)
NoWindowExceedsLimit ==
  \A k \in Keys : \A i, j \in DOMAIN accepted[k] :
    j = i + Limit[k] => accepted[k][j] - accepted[k][i] >= Window

(* Clauses of the inductive invariant: an attempt is not later than now    *)
(* and not earlier than the one before it; the deque is the end of the     *)
(* history, and all that is missing from it has left the window.           *)
InOrder(k) == /\ \A i \in DOMAIN accepted[k] : accepted[k][i] <= clock
              /\ \A i, j \in DOMAIN accepted[k] : i <= j => accepted[k][i] <= accepted[k][j]

DequeIsTail(k) ==
  /\ Len(hits[k]) <= Len(accepted[k])
  /\ Len(hits[k]) <= Limit[k]
  /\ LET forgotten == Len(accepted[k]) - Len(hits[k]) IN
       /\ \A i \in DOMAIN hits[k] : hits[k][i] = accepted[k][forgotten + i]
       /\ \A i \in 1..forgotten : accepted[k][i] <= clock - Window

IInv == TypeOK /\ NoWindowExceedsLimit /\ \A k \in Keys : InOrder(k) /\ DequeIsTail(k)

============================================================================
