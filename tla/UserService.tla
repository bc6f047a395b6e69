----------------------------- MODULE UserService -----------------------------
(***************************************************************************)
(* internal/user/service.go and the checks of internal/auth: concurrent    *)
(* Register and Login requests over the table users, and the requests of   *)
(* the rest of the API that bring a token (httpapi/authorization.go).      *)
(*                                                                         *)
(* normalizeEmail trims and lowers an address; the column compares more    *)
(* loosely: utf8mb4_0900_ai_ci ignores accents too.  A password is told    *)
(* from another by its hash (no two share the 72 bytes that bcrypt sees).  *)
(* Names are left out: one the service refuses is answered like a password *)
(* that Hash refuses.                                                      *)
(***************************************************************************)
EXTENDS Tokens, Limits

CONSTANTS
    Addresses,      \* what clients type for an email
    Emails,         \* well-formed addresses, trimmed and lowered
    Normal,         \* Normal[a]: what normalizeEmail makes of a, or Invalid
    Collated,       \* Collated[e]: what the collation compares of e
    Passwords,      \* what clients send for a password
    TextOf,         \* TextOf[p]: the text of password p
    UserRequests,   \* slots for Register and Login requests in flight
    Callers,        \* clients that use a token
    MaxUsers,       \* BOUND: how many users there may be
    MaxTime,        \* BOUND: how far the clock goes
    Null, Invalid

ASSUME AccountAssumption ==
    /\ Normal \in [Addresses -> Emails \cup {Invalid}]
    /\ DOMAIN Collated = Emails
    /\ Invalid \notin Emails
    /\ TextOf \in [Passwords -> [blanks : {0}, runes : [1..4 -> Nat]]]
    /\ MaxUsers \in Nat /\ MaxTime \in Nat

VARIABLES
    users,      \* users[id]: the row, Null without one
    lastUser,   \* the last id handed out
    now,        \* the clock of the process
    userPc,     \* userPc[r]: the call that request r makes next
    userCall,   \* userCall[r]: what its client sent
    found,      \* found[r]: the id of the row that FindByEmail returned
    userReply,  \* userReply[r]: the last outcome of slot r
    wallet,     \* wallet[c]: the token that caller c holds
    access,     \* access[c]: the user its last request was served as, or Null
    \* History variables: they are read by the properties only.
    welcomed,   \* registrations that were answered 201
    before,     \* before[r]: welcomed when r began
    issued,     \* issued[c]: when the token of c was issued
    used        \* used[c]: when it was last used, or Null

userTable == <<users, lastUser>>
userVars == <<userPc, userCall, found, userReply>>
tokenVars == <<wallet, access, issued, used>>
accountVars == <<userTable, now, userVars, tokenVars, welcomed, before>>

UserIds == 1..MaxUsers
Account == [email : Emails, password : Passwords]
UserCalls == [op : {"register", "login"}, address : Addresses, password : Passwords]
UserOutcomes == {"ok", "invalid_input", "email_exists", "invalid_credentials", "error"}

ASSUME NoUserAssumption == Null \notin Account \cup UserCalls \cup UserOutcomes \cup Nat

AccountInit ==
    /\ users = [id \in UserIds |-> Null]
    /\ lastUser = 0
    /\ now = 0
    /\ userPc = [r \in UserRequests |-> "idle"]
    /\ userCall = [r \in UserRequests |-> Null]
    /\ found = [r \in UserRequests |-> Null]
    /\ userReply = [r \in UserRequests |-> Null]
    /\ wallet = [c \in Callers |-> Null]
    /\ access = [c \in Callers |-> Null]
    /\ issued = [c \in Callers |-> 0]
    /\ used = [c \in Callers |-> Null]
    /\ welcomed = {}
    /\ before = [r \in UserRequests |-> {}]

Email(c) == Normal[c.address]

-----------------------------------------------------------------------------
(* The table *)

\* WHERE email = ?, and the unique key: by the collation of the column.
SameEmail(id, email) == users[id] # Null /\ Collated[users[id].email] = Collated[email]

FindByEmail(email) ==
    IF \E id \in UserIds : SameEmail(id, email)
    THEN CHOOSE id \in UserIds : SameEmail(id, email)
    ELSE Null

-----------------------------------------------------------------------------
(* The steps of a request *)

UserFinish(r, outcome) ==
    /\ userPc' = [userPc EXCEPT ![r] = "idle"]
    /\ userCall' = [userCall EXCEPT ![r] = Null]
    /\ found' = [found EXCEPT ![r] = Null]
    /\ userReply' = [userReply EXCEPT ![r] = outcome]
    /\ before' = [before EXCEPT ![r] = {}]

\* validateLogin wants a password, validatePassword one of the right length.
UserMalformed(c) ==
    \/ Email(c) = Invalid
    \/ c.op = "login" /\ RuneCount(TextOf[c.password]) = 0
    \/ c.op = "register" /\ ~Accepts("password", TextOf[c.password])

UserReject(r, c) ==
    /\ userPc[r] = "idle" /\ UserMalformed(c)
    /\ UserFinish(r, "invalid_input")
    /\ UNCHANGED <<userTable, now, tokenVars, welcomed>>

\* The input is valid, and the password of a registration is hashed.
UserBegin(r, c) ==
    /\ userPc[r] = "idle" /\ ~UserMalformed(c)
    /\ userPc' = [userPc EXCEPT ![r] = IF c.op = "register" THEN "insert" ELSE "find"]
    /\ userCall' = [userCall EXCEPT ![r] = c]
    /\ userReply' = [userReply EXCEPT ![r] = Null]
    /\ before' = [before EXCEPT ![r] = welcomed]
    /\ UNCHANGED <<userTable, now, found, tokenVars, welcomed>>

\* Wrong: whoever registers later takes the account over.
StoreOver(r) ==
    LET c == userCall[r]
    IN  /\ userPc[r] = "insert" /\ lastUser < MaxUsers
        /\ IF FindByEmail(Email(c)) = Null
           THEN /\ lastUser' = lastUser + 1
                /\ users' = [users EXCEPT ![lastUser + 1] =
                                [email |-> Email(c), password |-> c.password]]
           ELSE /\ users' = [users EXCEPT ![FindByEmail(Email(c))].password = c.password]
                /\ UNCHANGED lastUser

\* INSERT INTO users, when it succeeds.
StoreUser(r) ==
    LET c == userCall[r]
    IN  /\ userPc[r] = "insert" /\ lastUser < MaxUsers
        /\ FindByEmail(Email(c)) = Null
        /\ lastUser' = lastUser + 1
        /\ users' = [users EXCEPT ![lastUser + 1] =
                        [email |-> Email(c), password |-> c.password]]

Registered(r) ==
    /\ StoreUser(r)
    /\ UserFinish(r, "ok")
    /\ welcomed' = welcomed \cup {[email |-> Email(userCall[r]),
                                   password |-> userCall[r].password]}
    /\ UNCHANGED <<now, tokenVars>>

\* The row is there, and the answer of MySQL is lost.
RegisterUnknown(r) ==
    /\ StoreUser(r)
    /\ UserFinish(r, "error")
    /\ UNCHANGED <<now, tokenVars, welcomed>>

\* Error 1062 of the unique key.
EmailTaken(r) ==
    /\ userPc[r] = "insert"
    /\ FindByEmail(Email(userCall[r])) # Null
    /\ UserFinish(r, "email_exists")
    /\ UNCHANGED <<userTable, now, tokenVars, welcomed>>

\* Wrong: the query of a login has lost its condition.
FindNewestUser(r) ==
    /\ userPc[r] = "find" /\ lastUser > 0
    /\ userPc' = [userPc EXCEPT ![r] = "compare"]
    /\ found' = [found EXCEPT ![r] = lastUser]
    /\ UNCHANGED <<userTable, now, userCall, userReply, tokenVars, welcomed, before>>

\* Login: FindByEmail; the error for no such user is the one for a password.
FindUser(r) ==
    /\ userPc[r] = "find"
    /\ LET id == FindByEmail(Email(userCall[r]))
       IN  IF id = Null
           THEN UserFinish(r, "invalid_credentials")
           ELSE /\ userPc' = [userPc EXCEPT ![r] = "compare"]
                /\ found' = [found EXCEPT ![r] = id]
                /\ UNCHANGED <<userCall, userReply, before>>
    /\ UNCHANGED <<userTable, now, tokenVars, welcomed>>

WrongPassword(r) ==
    /\ userPc[r] = "compare"
    /\ users[found[r]].password # userCall[r].password
    /\ UserFinish(r, "invalid_credentials")
    /\ UNCHANGED <<userTable, now, tokenVars, welcomed>>

\* Compare finds the password right, and caller c gets a token.
IssueToken(r, c) ==
    /\ userPc[r] = "compare"
    /\ users[found[r]].password = userCall[r].password
    /\ UserFinish(r, "ok")
    /\ wallet' = [wallet EXCEPT ![c] = Issue(found[r], now)]
    /\ access' = [access EXCEPT ![c] = Null]
    /\ issued' = [issued EXCEPT ![c] = now]
    /\ used' = [used EXCEPT ![c] = Null]
    /\ UNCHANGED <<userTable, now, welcomed>>

UserCallFails(r) ==
    /\ userPc[r] \in {"insert", "find"}
    /\ UserFinish(r, "error")
    /\ UNCHANGED <<userTable, now, tokenVars, welcomed>>

\* requireAuthentication: a valid token passes its user on, another is
\* answered 401.
Authenticate(c) ==
    /\ wallet[c] # Null
    /\ access' = [access EXCEPT ![c] = IF Valid(wallet[c], now) THEN wallet[c].user ELSE Null]
    /\ used' = [used EXCEPT ![c] = now]
    /\ UNCHANGED <<userTable, now, userVars, wallet, issued, welcomed, before>>

\* Instants pass.
Pass ==
    /\ now < MaxTime
    /\ now' = now + 1
    /\ UNCHANGED <<userTable, userVars, tokenVars, welcomed, before>>

\* The process dies and is started again with the same JWT_SECRET: clients
\* keep their tokens.
UserCrash ==
    /\ userPc' = [r \in UserRequests |-> "idle"]
    /\ userCall' = [r \in UserRequests |-> Null]
    /\ found' = [r \in UserRequests |-> Null]
    /\ userReply' = [r \in UserRequests |-> Null]
    /\ before' = [r \in UserRequests |-> {}]
    /\ UNCHANGED <<userTable, now, tokenVars, welcomed>>

AccountNext ==
    \/ \E r \in UserRequests :
          \/ \E c \in UserCalls : UserReject(r, c) \/ UserBegin(r, c)
          \/ Registered(r) \/ RegisterUnknown(r) \/ EmailTaken(r)
          \/ FindUser(r) \/ WrongPassword(r) \/ UserCallFails(r)
          \/ \E c \in Callers : IssueToken(r, c)
    \/ \E c \in Callers : Authenticate(c)
    \/ Pass
    \/ UserCrash

AccountSpec == AccountInit /\ [][AccountNext]_accountVars

-----------------------------------------------------------------------------
(* Properties *)

\* Types of the variables (user/types.go, 000001_init.up.sql:1).
AccountTypeOK ==
    /\ users \in [UserIds -> Account \cup {Null}]
    /\ lastUser \in 0..MaxUsers
    /\ now \in 0..MaxTime
    /\ userPc \in [UserRequests -> {"idle", "insert", "find", "compare"}]
    /\ userCall \in [UserRequests -> UserCalls \cup {Null}]
    /\ found \in [UserRequests -> UserIds \cup {Null}]
    /\ userReply \in [UserRequests -> UserOutcomes \cup {Null}]
    /\ \A c \in Callers : wallet[c] # Null => users[wallet[c].user] # Null
    /\ access \in [Callers -> UserIds \cup {Null}]
    /\ used \in [Callers -> (0..MaxTime) \cup {Null}]

\* Whoever was told that he is registered stays so: however registrations race
\* for one address, and whatever the losers are told, his row has his email and
\* his password, and it is the only one of its email (user/service.go:49,
\* repository/user.go:31).
WelcomeIsKept ==
    /\ \A w \in welcomed : \E id \in UserIds : users[id] = w
    /\ \A v, w \in welcomed : Collated[v.email] = Collated[w.email] => v = w

\* A login fails for its credentials only if nobody was welcomed with them
\* before it began, however he typed his address (user/service.go:63-78).
RegisteredCanLogIn ==
    [][\A r \in UserRequests :
         userPc[r] # "idle" /\ userReply'[r] = "invalid_credentials" =>
            [email |-> Email(userCall[r]), password |-> userCall[r].password]
                \notin before[r]]_accountVars

\* A token opens the API for its time to live, less than a second short of it
\* and never past it, although its claims are whole seconds; a crash of the
\* process in between changes nothing (auth/token.go:43-48, 60-79).
TokenLifetime ==
    \A c \in Callers : used[c] # Null =>
        IF access[c] # Null THEN used[c] < issued[c] + Ttl
                            ELSE used[c] > issued[c] + Ttl - Second
=============================================================================
