--------------------------- MODULE MCUserService ---------------------------
(***************************************************************************)
(* A small instance of UserService for TLC: plain and accented differ for  *)
(* the service and are one for the collation.                              *)
(***************************************************************************)
EXTENDS UserService, TLC

CONSTANTS plain, accented, other, r1, r2, p1, p2, long, empty

MCAddresses == {"plain", "PLAIN", "accented", "other", "bad"}
MCNormal ==
    [a \in MCAddresses |-> CASE a \in {"plain", "PLAIN"} -> plain
                             [] a = "accented" -> accented
                             [] a = "other" -> other
                             [] a = "bad" -> Invalid]
MCCollated == [a \in {plain, accented, other} |-> IF a = accented THEN plain ELSE a]

\* 36, 37 and no Cyrillic letters: 72, 74 and 0 bytes.
Cyrillic(n) == [blanks |-> 0, runes |-> [w \in 1..4 |-> IF w = 2 THEN n ELSE 0]]
MCTextOf ==
    [p \in {p1, p2, long, empty} |->
        Cyrillic(CASE p = long -> 37 [] p = empty -> 0 [] OTHER -> 36)]

MCSymmetry == Permutations({p1, p2}) \cup Permutations({r1, r2})

\* userReply is not read by any step, and of an address only what it is as an email.
MCCall(c) == IF c = Null THEN Null ELSE <<c.op, Email(c), c.password>>
MCView ==
    <<userTable, now, userPc, [r \in UserRequests |-> MCCall(userCall[r])], found,
      tokenVars, welcomed, before>>
=============================================================================
