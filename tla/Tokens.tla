------------------------------- MODULE Tokens -------------------------------
(***************************************************************************)
(* internal/auth/token.go.  Time is counted in instants, Second of them to *)
(* a second: the claims of a token keep whole seconds, the clock does not. *)
(* The signature is left out: a token is what Issue has signed.            *)
(***************************************************************************)
EXTENDS Integers

CONSTANTS
    Second,     \* instants of the clock in a second
    Ttl         \* JWT_TTL, in instants: any positive duration (config.go:53)

ASSUME TimeAssumption == Second \in Nat \ {0} /\ Ttl \in Nat \ {0}

\* jwt.NewNumericDate truncates to the second.
NumericDate(t) == t - (t % Second)

\* Wrong: the times are rounded up.
IssueLate(user, now) ==
    [user |-> user, issuedAt |-> NumericDate(now + Second - 1),
     expiresAt |-> NumericDate(now + Ttl + Second - 1)]

Issue(user, now) ==
    [user |-> user, issuedAt |-> NumericDate(now), expiresAt |-> NumericDate(now + Ttl)]

\* Parse: exp is the only claim about time that jwt checks, and is exclusive.
Valid(token, now) == now < token.expiresAt
=============================================================================
