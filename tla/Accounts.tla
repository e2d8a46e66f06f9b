----------------------------- MODULE Accounts ------------------------------
(***************************************************************************)
(* Accounts and the tokens that speak for them: registration, login, the   *)
(* promotion script and what get_current_user accepts.                     *)
(*                                                                         *)
(* An attempt that the rate limiter (RateLimiter) or the password refuses  *)
(* changes nothing and is not a step.  Time is kept as ages, which stop    *)
(* growing once nothing depends on them any more.                          *)
(***************************************************************************)
EXTENDS Integers, FiniteSets

CONSTANTS Emails,      \* one per person; the address is UNIQUE
          Requests,    \* requests to /auth at the same time
          TokenLife,   \* settings: jwt_expiration_hours
          RequestTime, \* longest time a request takes after it has read its row
          MaxTokens    \* bound on the tokens that clients keep

ASSUME AccountsAssumption ==
  /\ TokenLife \in Nat \ {0} /\ RequestTime \in Nat
  /\ MaxTokens \in Nat \ {0}

Roles == {"standard", "admin"}
LongAgo == TokenLife + RequestTime

VARIABLES
  users,       \* the role column of each account
  sinceAdmin,  \* time since a promotion, LongAgo at most
  tokens,      \* login tokens that clients have
  doing        \* the requests to /auth

accounts == <<users, sinceAdmin, tokens, doing>>

NoTask == [step |-> "none"]
Tasks == [step: {"inserted", "loggingIn"}, user: Emails, role: Roles, age: 0..RequestTime]

AccountsTypeOK ==
  /\ users \in [Emails -> Roles \cup {"nobody"}]
  /\ sinceAdmin \in [Emails -> 0..LongAgo]
  /\ tokens \subseteq [user: Emails, role: Roles, age: 0..TokenLife]
  /\ doing \in [Requests -> {NoTask} \cup Tasks]

AccountsInit ==
  /\ users = [e \in Emails |-> "nobody"]
  /\ sinceAdmin = [e \in Emails |-> LongAgo]
  /\ tokens = {}
  /\ doing = [p \in Requests |-> NoTask]

ExistsAlways(e) == TRUE    \* bug: "if not user" is missing

Exists(e) == users[e] # "nobody"

Begin(p, step, e, role) ==
  /\ doing[p] = NoTask
  /\ doing' = [doing EXCEPT ![p] = [step |-> step, user |-> e, role |-> role, age |-> 0]]

IsFreeUnindexed(e) == TRUE     \* bug: the column is not UNIQUE

(* The unique index: an INSERT waits for another one of the same address   *)
(* and fails when there is an account.                                     *)
IsFree(e) == /\ users[e] = "nobody"
             /\ \A p \in Requests : doing[p] # NoTask /\ doing[p].user = e
                                      => doing[p].step # "inserted"

InsertUser(p, e) == /\ IsFree(e)
                    /\ Begin(p, "inserted", e, "standard")
                    /\ UNCHANGED <<users, sinceAdmin, tokens>>

(* The commit, whether or not its answer comes back, or a failure instead. *)
CommitUser(p) ==
  /\ doing[p] # NoTask /\ doing[p].step = "inserted"
  /\ \/ users' = [users EXCEPT ![doing[p].user] = doing[p].role]
     \/ UNCHANGED users
  /\ doing' = [doing EXCEPT ![p] = NoTask]
  /\ UNCHANGED <<sinceAdmin, tokens>>

(* The account is read in a session of its own, which is closed before the *)
(* token is made of what was read.                                         *)
Login(p, e) == /\ Exists(e)
               /\ Begin(p, "loggingIn", e, users[e])
               /\ UNCHANGED <<users, sinceAdmin, tokens>>

CreateToken(p) ==
  /\ doing[p] # NoTask /\ doing[p].step = "loggingIn"
  /\ \E kept \in SUBSET tokens :
       /\ Cardinality(kept) < MaxTokens
       /\ tokens' = kept \cup {[user |-> doing[p].user, role |-> doing[p].role, age |-> 0]}
  /\ doing' = [doing EXCEPT ![p] = NoTask]
  /\ UNCHANGED <<users, sinceAdmin>>

(* init/promote_admin.py; to promote an admin again changes nothing.       *)
Promote(e) == /\ users[e] = "standard"
              /\ users' = [users EXCEPT ![e] = "admin"]
              /\ sinceAdmin' = [sinceAdmin EXCEPT ![e] = 0]
              /\ UNCHANGED <<tokens, doing>>

AccountsNext == \/ \E p \in Requests, e \in Emails : InsertUser(p, e) \/ Login(p, e)
                \/ \E p \in Requests : CommitUser(p) \/ CreateToken(p)
                \/ \E e \in Emails : Promote(e)

IsValidForever(t) == TRUE     \* bug: exp is not set

(* exp lies ahead. *)
IsValid(t) == t.age < TokenLife

Upto(bound, age) == IF age < bound THEN age + 1 ELSE bound

(* Time passes, except when a request in flight has no time left.          *)
AccountsAge ==
  /\ \A p \in Requests : doing[p] # NoTask => doing[p].age < RequestTime
  /\ doing' = [p \in Requests |->
                 IF doing[p] = NoTask THEN NoTask ELSE [doing[p] EXCEPT !.age = @ + 1]]
  /\ tokens' = {[t EXCEPT !.age = Upto(TokenLife, @)] : t \in tokens}
  /\ sinceAdmin' = [e \in Emails |-> Upto(LongAgo, sinceAdmin[e])]
  /\ UNCHANGED users

-----------------------------------------------------------------------------
(* The role travels in the token, which nobody looks up again: a token     *)
(* that is still accepted has its user's role, or that of a user promoted  *)
(* less than a token's life and a request ago.  It never has too much.     *)
StaleRolesExpire ==
  \A t \in tokens :
    IsValid(t) => \/ t.role = users[t.user]
                  \/ /\ t.role = "standard" /\ users[t.user] = "admin"
                     /\ sinceAdmin[t.user] < LongAgo

(* An account stays, and an admin stays one, however many registrations of *)
(* the same address race with the promotion.                               *)
RolesOnlyGrow ==
  [][\A e \in Emails : /\ users[e] # "nobody" => users'[e] # "nobody"
                       /\ users[e] = "admin" => users'[e] = "admin"]_accounts

(* Clauses of the inductive invariant: what a token or a login in flight   *)
(* says of a role was true a while ago, and a registration in flight is    *)
(* the only one of an address without an account.                          *)
WasTrue(user, role, ago) ==
  \/ role = users[user]
  \/ role = "standard" /\ users[user] = "admin" /\ sinceAdmin[user] <= ago

RolesAreRemembered ==
  /\ \A t \in tokens : WasTrue(t.user, t.role, t.age + RequestTime)
  /\ \A p \in Requests : doing[p] # NoTask =>
       IF doing[p].step = "loggingIn"
       THEN WasTrue(doing[p].user, doing[p].role, doing[p].age)
       ELSE /\ users[doing[p].user] = "nobody" /\ doing[p].role = "standard"
            /\ \A q \in Requests : doing[q] # NoTask /\ doing[q].user = doing[p].user
                                     /\ doing[q].step = "inserted" => q = p

=============================================================================
