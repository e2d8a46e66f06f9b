--------------------------- MODULE MCRateLimiter ---------------------------
(***************************************************************************)
(* An instance of RateLimiter for TLC: two clients, two scopes, a login    *)
(* limit of two and a register limit of one.                               *)
(***************************************************************************)
EXTENDS RateLimiter

CONSTANTS login, register

MCScopes == {login, register}
MCScopeLimit == [s \in MCScopes |-> IF s = login THEN 2 ELSE 1]

============================================================================
