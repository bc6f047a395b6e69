------------------------------- MODULE Limits -------------------------------
(***************************************************************************)
(* The texts that clients send, as far as their lengths go: what the       *)
(* services accept (len counts bytes) and what the columns (which count    *)
(* characters) and bcrypt hold.                                            *)
(*                                                                         *)
(* A text is how many characters of each width in UTF-8 it has between the *)
(* blanks around it.                                                       *)
(***************************************************************************)
EXTENDS Integers

Text == [blanks : Nat, runes : [1..4 -> Nat]]

\* limits.go of user, team, task, comment and auth.
Limit == [email |-> 254, name |-> 100, teamName |-> 100, title |-> 255,
          description |-> 5000, content |-> 5000, password |-> 72]
Fields == DOMAIN Limit

\* VARCHAR counts characters; TEXT and bcrypt count bytes.
Characters == [email |-> 254, name |-> 100, teamName |-> 100, title |-> 255]
Octets == [description |-> 65535, content |-> 65535, password |-> 72]

-----------------------------------------------------------------------------

RuneCount(t) == t.runes[1] + t.runes[2] + t.runes[3] + t.runes[4]
ByteCount(t) == t.runes[1] + 2 * t.runes[2] + 3 * t.runes[3] + 4 * t.runes[4]

\* strings.TrimSpace for the fields that are trimmed.
Trimmed(field, t) ==
    IF field \in {"description", "password"}
    THEN [t EXCEPT !.blanks = 0, !.runes = [t.runes EXCEPT ![1] = @ + t.blanks]]
    ELSE [t EXCEPT !.blanks = 0]

LongEnough(field, t) ==
    CASE field = "description" -> TRUE
      [] field = "password" -> RuneCount(t) >= 8
      [] OTHER -> RuneCount(t) > 0

ShortEnough(field, t) == ByteCount(t) <= Limit[field]

Accepts(field, t) == LongEnough(field, t) /\ ShortEnough(field, t)

\* MySQL stores it, bcrypt hashes all of it.
Holds(field, t) ==
    /\ field \in DOMAIN Characters => RuneCount(t) <= Characters[field]
    /\ field \in DOMAIN Octets => ByteCount(t) <= Octets[field]

\* What a service accepts is stored whole, and a password that is accepted is
\* hashed whole: MySQL does not refuse or cut it, and bcrypt does not either
\* (user/service.go:95-117, auth/password.go:45, 000001_init.up.sql:3-85).
AcceptedIsHeld(texts) ==
    \A field \in Fields, t \in texts :
        Accepts(field, Trimmed(field, t)) => Holds(field, Trimmed(field, t))
=============================================================================
