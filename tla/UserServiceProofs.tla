-------------------------- MODULE UserServiceProofs --------------------------
(***************************************************************************)
(* Theorems of UserService, for every value of its constants: accounts     *)
(* stay, tokens end when they should, logins are honest; and of Limits:    *)
(* what is accepted is held, for every text of any length.                 *)
(***************************************************************************)
EXTENDS UserService, TLAPS

-----------------------------------------------------------------------------
(* Texts *)

\* A text has no more characters than bytes.
LEMMA RunesAreBytes ==
    ASSUME NEW t \in Text
    PROVE  /\ RuneCount(t) \in Nat /\ ByteCount(t) \in Nat
           /\ RuneCount(t) <= ByteCount(t)
<1>1. /\ t.runes[1] \in Nat /\ t.runes[2] \in Nat
      /\ t.runes[3] \in Nat /\ t.runes[4] \in Nat
  BY DEF Text
<1> QED
  BY <1>1 DEF RuneCount, ByteCount

\* Whether its blanks count or are cut off, a text remains one.
LEMMA TrimmedIsText ==
    ASSUME NEW t \in Text, NEW field
    PROVE  Trimmed(field, t) \in Text
<1>1. t.blanks \in Nat /\ t.runes \in [1..4 -> Nat]
  BY DEF Text
<1>2. [t.runes EXCEPT ![1] = @ + t.blanks] \in [1..4 -> Nat]
  BY <1>1
<1> QED
  BY <1>1, <1>2 DEF Trimmed, Text

\* Each limit in bytes is below what its column, or bcrypt, holds.
LEMMA LimitsFit ==
    /\ \A field \in DOMAIN Characters : field \in Fields /\ Limit[field] <= Characters[field]
    /\ \A field \in DOMAIN Octets : field \in Fields /\ Limit[field] <= Octets[field]
    /\ \A field \in Fields : Limit[field] \in Nat
  BY DEF Fields, Limit, Characters, Octets

\* What a service accepts is stored and hashed whole, for all texts and all
\* limited fields (user/service.go:95-117, auth/password.go:45).
THEOREM AcceptedTextsAreHeld == AcceptedIsHeld(Text)
<1> SUFFICES ASSUME NEW field \in Fields, NEW text \in Text,
                    Accepts(field, Trimmed(field, text))
             PROVE  Holds(field, Trimmed(field, text))
  BY DEF AcceptedIsHeld
<1> DEFINE t == Trimmed(field, text)
<1>1. /\ RuneCount(t) \in Nat /\ ByteCount(t) \in Nat
      /\ RuneCount(t) <= ByteCount(t)
  BY TrimmedIsText, RunesAreBytes
<1>2. ByteCount(t) <= Limit[field]
  BY DEF Accepts, ShortEnough
<1> HIDE DEF t
<1>3. ASSUME field \in DOMAIN Characters PROVE RuneCount(t) <= Characters[field]
  <2>1. Limit[field] <= Characters[field] /\ Characters[field] \in Nat /\ Limit[field] \in Nat
    BY <1>3, LimitsFit DEF Characters
  <2> QED
    BY <1>1, <1>2, <2>1
<1>4. ASSUME field \in DOMAIN Octets PROVE ByteCount(t) <= Octets[field]
  <2>1. Limit[field] <= Octets[field] /\ Octets[field] \in Nat /\ Limit[field] \in Nat
    BY <1>4, LimitsFit DEF Octets
  <2> QED
    BY <1>1, <1>2, <2>1
<1> QED
  BY <1>3, <1>4 DEF Holds, t

-----------------------------------------------------------------------------
(* Tokens *)

\* A claim is the second its instant is in (auth/token.go:43-48).
LEMMA SecondOfInstant ==
    ASSUME NEW t \in Nat
    PROVE  NumericDate(t) \in Int /\ NumericDate(t) <= t /\ NumericDate(t) > t - Second
<1>1. t % Second \in 0..(Second - 1)
  BY TimeAssumption
<1> QED
  BY <1>1, TimeAssumption DEF NumericDate

-----------------------------------------------------------------------------
(* The inductive invariant *)

TokenType == [user : UserIds, issuedAt : Int, expiresAt : Int]

AccountTypes ==
    /\ users \in [UserIds -> Account \cup {Null}]
    /\ lastUser \in 0..MaxUsers
    /\ now \in 0..MaxTime
    /\ userPc \in [UserRequests -> {"idle", "insert", "find", "compare"}]
    /\ userCall \in [UserRequests -> UserCalls \cup {Null}]
    /\ found \in [UserRequests -> UserIds \cup {Null}]
    /\ userReply \in [UserRequests -> UserOutcomes \cup {Null}]
    /\ wallet \in [Callers -> TokenType \cup {Null}]
    /\ access \in [Callers -> UserIds \cup {Null}]
    /\ issued \in [Callers -> 0..MaxTime]
    /\ used \in [Callers -> (0..MaxTime) \cup {Null}]
    /\ welcomed \subseteq Account
    /\ before \in [UserRequests -> SUBSET Account]

(* Ids above the last are free, and the unique key of the column holds.        *)
TableOK ==
    /\ \A id \in UserIds : id > lastUser => users[id] = Null
    /\ \A i, j \in UserIds :
          users[i] # Null /\ users[j] # Null
          /\ Collated[users[i].email] = Collated[users[j].email] => i = j

WelcomedOK == \A w \in welcomed : \E id \in UserIds : users[id] = w

UserRequestOK(r) ==
    /\ before[r] \subseteq welcomed
    /\ userPc[r] # "idle" => /\ userCall[r] \in UserCalls /\ ~UserMalformed(userCall[r])
                             /\ userReply[r] = Null
    /\ userPc[r] = "insert" => userCall[r].op = "register"
    /\ userPc[r] = "compare" => /\ found[r] \in UserIds
                                /\ SameEmail(found[r], Email(userCall[r]))

TokenOK(c) ==
    /\ wallet[c] # Null => /\ wallet[c] = Issue(wallet[c].user, issued[c])
                           /\ users[wallet[c].user] # Null
    /\ used[c] # Null => /\ wallet[c] # Null
                         /\ access[c] = IF Valid(wallet[c], used[c]) THEN wallet[c].user
                                                                     ELSE Null

UInv ==
    /\ AccountTypes /\ TableOK /\ WelcomedOK
    /\ \A r \in UserRequests : UserRequestOK(r)
    /\ \A c \in Callers : TokenOK(c)

-----------------------------------------------------------------------------
(* The table and its query *)

\* SELECT by email: a row of that email, if there is one
\* (repository/user.go:47-90).
LEMMA FindByEmailFinds ==
    ASSUME NEW email
    PROVE  /\ FindByEmail(email) # Null => /\ FindByEmail(email) \in UserIds
                                           /\ SameEmail(FindByEmail(email), email)
           /\ FindByEmail(email) = Null => \A id \in UserIds : ~SameEmail(id, email)
<1>1. Null \notin UserIds
  BY NoUserAssumption, AccountAssumption DEF UserIds
<1>2. CASE \E id \in UserIds : SameEmail(id, email)
  BY <1>1, <1>2 DEF FindByEmail
<1>3. CASE ~\E id \in UserIds : SameEmail(id, email)
  BY <1>3 DEF FindByEmail
<1> QED
  BY <1>2, <1>3

\* What a request that was not refused has asked for (user/service.go:32-49).
LEMMA CallIsWellFormed ==
    ASSUME NEW c \in UserCalls, ~UserMalformed(c)
    PROVE  Email(c) \in Emails /\ [email |-> Email(c), password |-> c.password] \in Account
  BY AccountAssumption DEF UserCalls, UserMalformed, Email, Account

-----------------------------------------------------------------------------
(* The steps *)

\* A request that ends and leaves the table and the tokens alone.
LEMMA FinishOK ==
    ASSUME UInv, NEW r \in UserRequests, NEW outcome \in UserOutcomes,
           UserFinish(r, outcome), UNCHANGED <<userTable, now, tokenVars, welcomed>>
    PROVE  UInv'
<1>1. UNCHANGED <<users, lastUser, now, wallet, access, issued, used, welcomed>>
  BY DEF userTable, tokenVars
<1>2. AccountTypes'
  BY <1>1 DEF UInv, AccountTypes, UserFinish
<1>3. TableOK' /\ WelcomedOK'
  BY <1>1 DEF UInv, TableOK, WelcomedOK
<1>4. ASSUME NEW s \in UserRequests PROVE UserRequestOK(s)'
  BY <1>1 DEF UInv, AccountTypes, UserRequestOK, UserFinish, SameEmail
<1>5. \A c \in Callers : TokenOK(c)'
  BY <1>1 DEF UInv, TokenOK
<1> QED
  BY <1>2, <1>3, <1>4, <1>5 DEF UInv

LEMMA UserBeginOK ==
    ASSUME UInv, NEW r \in UserRequests, NEW c \in UserCalls, UserBegin(r, c)
    PROVE  UInv'
<1>1. UNCHANGED <<users, lastUser, now, wallet, access, issued, used, welcomed, found>>
  BY DEF UserBegin, userTable, tokenVars
<1>2. AccountTypes'
  BY <1>1 DEF UInv, AccountTypes, UserBegin
<1>3. TableOK' /\ WelcomedOK'
  BY <1>1 DEF UInv, TableOK, WelcomedOK
<1>4. ASSUME NEW s \in UserRequests PROVE UserRequestOK(s)'
  <2>1. AccountTypes /\ UserRequestOK(s) /\ c.op \in {"register", "login"}
    BY DEF UInv, UserCalls
  <2>2. CASE s = r
    BY <1>1, <2>1, <2>2 DEF AccountTypes, UserRequestOK, UserBegin
  <2>3. CASE s # r
    BY <1>1, <2>1, <2>3 DEF AccountTypes, UserRequestOK, UserBegin, SameEmail
  <2> QED
    BY <2>2, <2>3
<1>5. \A d \in Callers : TokenOK(d)'
  BY <1>1 DEF UInv, TokenOK
<1> QED
  BY <1>2, <1>3, <1>4, <1>5 DEF UInv

\* The new row is the only one of its email (repository/user.go:31).
LEMMA StoreUserOK ==
    ASSUME UInv, NEW r \in UserRequests, StoreUser(r)
    PROVE  LET row == [email |-> Email(userCall[r]), password |-> userCall[r].password]
           IN  /\ row \in Account
               /\ users' \in [UserIds -> Account \cup {Null}] /\ lastUser' \in 0..MaxUsers
               /\ TableOK'
               /\ \A id \in UserIds : users[id] # Null => users'[id] = users[id]
               /\ \E id \in UserIds : users'[id] = row
<1> DEFINE c == userCall[r]
           row == [email |-> Email(c), password |-> c.password]
           new == lastUser + 1
<1>1. /\ AccountTypes /\ TableOK
      /\ c \in UserCalls /\ ~UserMalformed(c) /\ c.op = "register"
  BY DEF UInv, UserRequestOK, StoreUser
<1>2. /\ FindByEmail(Email(c)) = Null /\ lastUser' = new
      /\ users' = [users EXCEPT ![new] = row] /\ lastUser < MaxUsers
  BY DEF StoreUser
<1>3. row \in Account /\ row # Null
  BY <1>1, CallIsWellFormed, NoUserAssumption
<1>4. new \in UserIds /\ lastUser \in Nat /\ users[new] = Null /\ MaxUsers \in Nat
  BY <1>1, <1>2, AccountAssumption DEF AccountTypes, TableOK, UserIds
<1>5. \A id \in UserIds : users[id] # Null => Collated[users[id].email] # Collated[row.email]
  BY <1>2, FindByEmailFinds DEF SameEmail
<1> HIDE DEF row, new
<1>6. /\ users'[new] = row
      /\ \A id \in UserIds : id # new => users'[id] = users[id]
  BY <1>1, <1>2, <1>4 DEF AccountTypes
<1>7. users' \in [UserIds -> Account \cup {Null}] /\ lastUser' \in 0..MaxUsers
  BY <1>1, <1>2, <1>3, <1>4 DEF AccountTypes, new
<1>8. TableOK'
  <2>1. \A id \in UserIds : id > lastUser' => users'[id] = Null
    BY <1>1, <1>2, <1>4, <1>6 DEF TableOK, UserIds, new
  <2>2. ASSUME NEW i \in UserIds, NEW j \in UserIds, users'[i] # Null, users'[j] # Null,
               Collated[users'[i].email] = Collated[users'[j].email]
        PROVE  i = j
    BY <1>1, <1>5, <1>6, <2>2 DEF TableOK
  <2> QED
    BY <2>1, <2>2 DEF TableOK
<1> QED
  BY <1>3, <1>4, <1>6, <1>7, <1>8 DEF row

LEMMA RegisterOK ==
    ASSUME UInv, NEW r \in UserRequests, Registered(r) \/ RegisterUnknown(r)
    PROVE  UInv'
<1> DEFINE row == [email |-> Email(userCall[r]), password |-> userCall[r].password]
<1>1. StoreUser(r)
  BY DEF Registered, RegisterUnknown
<1>2. /\ row \in Account
      /\ users' \in [UserIds -> Account \cup {Null}] /\ lastUser' \in 0..MaxUsers
      /\ TableOK'
      /\ \A id \in UserIds : users[id] # Null => users'[id] = users[id]
      /\ \E id \in UserIds : users'[id] = row
  BY <1>1, StoreUserOK
<1>3. /\ welcomed' \in {welcomed, welcomed \cup {row}}
      /\ UNCHANGED <<now, wallet, access, issued, used>>
      /\ UserFinish(r, "ok") \/ UserFinish(r, "error")
  BY DEF Registered, RegisterUnknown, tokenVars
<1> HIDE DEF row
<1>4. AccountTypes'
  BY <1>2, <1>3 DEF UInv, AccountTypes, UserFinish, UserOutcomes
<1>5. WelcomedOK'
  <2>1. ASSUME NEW w \in welcomed PROVE \E id \in UserIds : users'[id] = w
    <3>1. PICK id \in UserIds : users[id] = w
      BY DEF UInv, WelcomedOK
    <3>2. w # Null
      BY NoUserAssumption DEF UInv, AccountTypes
    <3> QED
      BY <1>2, <3>1, <3>2
  <2> QED
    BY <1>2, <1>3, <2>1 DEF WelcomedOK
<1>6. ASSUME NEW s \in UserRequests PROVE UserRequestOK(s)'
  <2>1. AccountTypes /\ UserRequestOK(s)
    BY DEF UInv
  <2>2. welcomed \subseteq welcomed'
    BY <1>3
  <2>3. CASE s = r
    BY <1>3, <2>1, <2>3 DEF AccountTypes, UserRequestOK, UserFinish
  <2>4. CASE s # r
    BY <1>2, <1>3, <2>1, <2>2, <2>4 DEF AccountTypes, UserRequestOK, UserFinish, SameEmail
  <2> QED
    BY <2>3, <2>4
<1>7. \A c \in Callers : TokenOK(c)'
  BY <1>2, <1>3 DEF UInv, AccountTypes, TokenOK, TokenType
<1> QED
  BY <1>2, <1>4, <1>5, <1>6, <1>7 DEF UInv

LEMMA FindUserOK ==
    ASSUME UInv, NEW r \in UserRequests, FindUser(r)
    PROVE  UInv'
<1> DEFINE id == FindByEmail(Email(userCall[r]))
<1>1. UNCHANGED <<userTable, now, tokenVars, welcomed>>
  BY DEF FindUser
<1>2. CASE id = Null
  <2>1. UserFinish(r, "invalid_credentials")
    BY <1>2 DEF FindUser
  <2> QED
    BY <1>1, <2>1, FinishOK DEF UserOutcomes
<1>3. CASE id # Null
  <2>1. /\ userPc' = [userPc EXCEPT ![r] = "compare"] /\ found' = [found EXCEPT ![r] = id]
        /\ UNCHANGED <<userCall, userReply, before>> /\ userPc[r] = "find"
    BY <1>3 DEF FindUser
  <2>2. id \in UserIds /\ SameEmail(id, Email(userCall[r]))
    BY <1>3, FindByEmailFinds
  <2> HIDE DEF id
  <2>3. UNCHANGED <<users, lastUser, now, wallet, access, issued, used, welcomed>>
    BY <1>1 DEF userTable, tokenVars
  <2>4. AccountTypes'
    BY <2>1, <2>2, <2>3 DEF UInv, AccountTypes
  <2>5. TableOK' /\ WelcomedOK'
    BY <2>3 DEF UInv, TableOK, WelcomedOK
  <2>6. ASSUME NEW s \in UserRequests PROVE UserRequestOK(s)'
    <3>1. AccountTypes /\ UserRequestOK(s)
      BY DEF UInv
    <3>2. CASE s = r
      BY <2>1, <2>2, <2>3, <3>1, <3>2 DEF AccountTypes, UserRequestOK, SameEmail
    <3>3. CASE s # r
      BY <2>1, <2>3, <3>1, <3>3 DEF AccountTypes, UserRequestOK, SameEmail
    <3> QED
      BY <3>2, <3>3
  <2>7. \A c \in Callers : TokenOK(c)'
    BY <2>3 DEF UInv, TokenOK
  <2> QED
    BY <2>4, <2>5, <2>6, <2>7 DEF UInv
<1> QED
  BY <1>2, <1>3

LEMMA IssueTokenOK ==
    ASSUME UInv, NEW r \in UserRequests, NEW c \in Callers, IssueToken(r, c)
    PROVE  UInv'
<1>1. /\ UNCHANGED <<users, lastUser, now, welcomed>> /\ UserFinish(r, "ok")
      /\ wallet' = [wallet EXCEPT ![c] = Issue(found[r], now)]
      /\ access' = [access EXCEPT ![c] = Null]
      /\ issued' = [issued EXCEPT ![c] = now]
      /\ used' = [used EXCEPT ![c] = Null]
  BY DEF IssueToken, userTable
<1>2. /\ AccountTypes /\ found[r] \in UserIds /\ users[found[r]] # Null
  BY DEF UInv, UserRequestOK, IssueToken, SameEmail
<1>3. /\ Issue(found[r], now) \in TokenType
      /\ Issue(found[r], now).user = found[r]
  <2>1. now \in Nat /\ now + Ttl \in Nat
    BY <1>2, TimeAssumption, AccountAssumption DEF AccountTypes
  <2> QED
    BY <1>2, <2>1, SecondOfInstant DEF Issue, TokenType
<1>4. AccountTypes'
  BY <1>1, <1>2, <1>3 DEF AccountTypes, UserFinish, UserOutcomes
<1>5. TableOK' /\ WelcomedOK'
  BY <1>1 DEF UInv, TableOK, WelcomedOK
<1>6. ASSUME NEW s \in UserRequests PROVE UserRequestOK(s)'
  BY <1>1 DEF UInv, AccountTypes, UserRequestOK, UserFinish, SameEmail
<1>7. ASSUME NEW d \in Callers PROVE TokenOK(d)'
  <2>1. CASE d = c
    BY <1>1, <1>2, <1>3, <2>1 DEF AccountTypes, TokenOK
  <2>2. CASE d # c
    BY <1>1, <1>2, <2>2 DEF UInv, AccountTypes, TokenOK
  <2> QED
    BY <2>1, <2>2
<1> QED
  BY <1>4, <1>5, <1>6, <1>7 DEF UInv

\* A request with a token, the clock, and a crash of the process.
LEMMA OtherStepsOK ==
    ASSUME UInv,
           (\E c \in Callers : Authenticate(c)) \/ Pass \/ UserCrash \/ UNCHANGED accountVars
    PROVE  UInv'
<1>1. UNCHANGED <<users, lastUser, wallet, issued, welcomed>>
  BY DEF Authenticate, Pass, UserCrash, accountVars, userTable, tokenVars
<1>2. TableOK' /\ WelcomedOK'
  BY <1>1 DEF UInv, TableOK, WelcomedOK
<1>3. ASSUME NEW s \in UserRequests PROVE UserRequestOK(s)'
  BY <1>1 DEF UInv, UserRequestOK, SameEmail, Authenticate, Pass, UserCrash, accountVars,
     userVars
<1>4. CASE \E c \in Callers : Authenticate(c)
  <2> PICK c \in Callers : Authenticate(c)
    BY <1>4
  <2>1. AccountTypes'
    BY <1>1 DEF UInv, AccountTypes, Authenticate, userVars, TokenType
  <2>2. ASSUME NEW d \in Callers PROVE TokenOK(d)'
    BY <1>1 DEF UInv, AccountTypes, TokenOK, Authenticate
  <2> QED
    BY <1>2, <1>3, <2>1, <2>2 DEF UInv
<1>5. CASE Pass \/ UserCrash \/ UNCHANGED accountVars
  <2>1. UNCHANGED <<access, used>>
    BY <1>5 DEF Pass, UserCrash, accountVars, tokenVars
  <2>2. AccountTypes'
    BY <1>1, <1>5, <2>1, AccountAssumption
    DEF UInv, AccountTypes, Pass, UserCrash, accountVars, userVars
  <2>3. ASSUME NEW d \in Callers PROVE TokenOK(d)'
    BY <1>1, <2>1 DEF UInv, TokenOK
  <2> QED
    BY <1>2, <1>3, <2>2, <2>3 DEF UInv
<1> QED
  BY <1>4, <1>5

LEMMA AccountInitOK ==
    ASSUME AccountInit
    PROVE  UInv
<1>1. AccountTypes
  BY AccountAssumption DEF AccountInit, AccountTypes
<1>2. \A r \in UserRequests : UserRequestOK(r)
  BY DEF AccountInit, UserRequestOK
<1> QED
  BY <1>1, <1>2
  DEF AccountInit, UInv, TableOK, WelcomedOK, TokenOK

LEMMA AccountNextOK ==
    ASSUME UInv, [AccountNext]_accountVars
    PROVE  UInv'
<1>1. ASSUME NEW r \in UserRequests, NEW c \in UserCalls, UserReject(r, c)
      PROVE  UInv'
  BY <1>1, FinishOK DEF UserReject, UserOutcomes
<1>2. ASSUME NEW r \in UserRequests, EmailTaken(r) \/ WrongPassword(r) \/ UserCallFails(r)
      PROVE  UInv'
  BY <1>2, FinishOK DEF EmailTaken, WrongPassword, UserCallFails, UserOutcomes
<1> QED
  BY <1>1, <1>2, UserBeginOK, RegisterOK, FindUserOK, IssueTokenOK, OtherStepsOK
  DEF AccountNext

-----------------------------------------------------------------------------
(* Theorems *)

\* The inductive invariant: the unique key holds under the collation, a request
\* compares with a row of its own email, a token is of its instant.
THEOREM AccountInvariance == AccountSpec => []UInv
<1>1. AccountInit => UInv
  BY AccountInitOK
<1>2. UInv /\ [AccountNext]_accountVars => UInv'
  BY AccountNextOK
<1> QED
  BY <1>1, <1>2, PTL DEF AccountSpec

\* The variables keep their types, and a token is of a user there is
\* (user/types.go, 000001_init.up.sql:1).
THEOREM AccountTypesCorrect == AccountSpec => []AccountTypeOK
<1>1. UInv => AccountTypeOK
  BY DEF UInv, AccountTypes, TokenOK, AccountTypeOK
<1> QED
  BY <1>1, AccountInvariance, PTL

\* However registrations race for one address, whoever was welcomed keeps his
\* row, his password and his email (user/service.go:49, repository/user.go:31).
THEOREM WelcomesAreKept == AccountSpec => []WelcomeIsKept
<1>1. UInv => WelcomeIsKept
  <2> SUFFICES ASSUME UInv PROVE WelcomeIsKept
    OBVIOUS
  <2>1. \A w \in welcomed : w # Null /\ \E id \in UserIds : users[id] = w
    BY NoUserAssumption DEF UInv, AccountTypes, WelcomedOK
  <2>2. ASSUME NEW v \in welcomed, NEW w \in welcomed, Collated[v.email] = Collated[w.email]
        PROVE  v = w
    BY <2>1, <2>2 DEF UInv, TableOK
  <2> QED
    BY <2>1, <2>2 DEF WelcomeIsKept
<1> QED
  BY <1>1, AccountInvariance, PTL

\* Whatever the time to live and the fraction of a second it is issued in, a
\* token is good for less than a second short of it, and never past it
\* (auth/token.go:43-48, 60-79).
THEOREM TokensLive == AccountSpec => []TokenLifetime
<1>1. UInv => TokenLifetime
  <2> SUFFICES ASSUME UInv, NEW c \in Callers, used[c] # Null
               PROVE  IF access[c] # Null THEN used[c] < issued[c] + Ttl
                                          ELSE used[c] > issued[c] + Ttl - Second
    BY DEF TokenLifetime
  <2> DEFINE end == NumericDate(issued[c] + Ttl)
  <2>1. /\ issued[c] \in Nat /\ used[c] \in Nat /\ Ttl \in Nat /\ Second \in Nat
    BY AccountAssumption, TimeAssumption DEF UInv, AccountTypes
  <2>2. /\ wallet[c].expiresAt = end /\ wallet[c].user \in UserIds
        /\ access[c] = IF Valid(wallet[c], used[c]) THEN wallet[c].user ELSE Null
    BY DEF UInv, AccountTypes, TokenOK, Issue, TokenType
  <2>3. end \in Int /\ end <= issued[c] + Ttl /\ end > issued[c] + Ttl - Second
    BY <2>1, SecondOfInstant
  <2>4. access[c] # Null <=> used[c] < end
    BY <2>2, NoUserAssumption, AccountAssumption DEF Valid, UserIds
  <2> HIDE DEF end
  <2> QED
    BY <2>1, <2>3, <2>4
<1> QED
  BY <1>1, AccountInvariance, PTL

\* A login that is refused for its credentials: nobody has that row.
LEMMA RefusedLogin ==
    ASSUME UInv, NEW r \in UserRequests, FindUser(r) \/ WrongPassword(r),
           userReply'[r] = "invalid_credentials"
    PROVE  [email |-> Email(userCall[r]), password |-> userCall[r].password] \notin before[r]
<1> DEFINE c == userCall[r]
           w == [email |-> Email(c), password |-> c.password]
<1> SUFFICES ASSUME w \in before[r] PROVE FALSE
  OBVIOUS
<1>1. AccountTypes /\ TableOK /\ UserRequestOK(r)
  BY DEF UInv
<1>2. PICK id \in UserIds : users[id] = w
  BY DEF UInv, WelcomedOK, UserRequestOK
<1>3. w.email = Email(c) /\ w.password = c.password
  OBVIOUS
<1>4. w # Null
  BY <1>1, NoUserAssumption DEF AccountTypes
<1> HIDE DEF w
<1>5. SameEmail(id, Email(c))
  BY <1>2, <1>3, <1>4 DEF SameEmail
<1>6. CASE FindUser(r)
  <2>1. FindByEmail(Email(c)) = Null
    BY <1>1, <1>6, NoUserAssumption
    DEF FindUser, UserRequestOK, AccountTypes, UserOutcomes
  <2> QED
    BY <1>5, <2>1, FindByEmailFinds
<1>7. CASE WrongPassword(r)
  <2>1. /\ found[r] \in UserIds /\ SameEmail(found[r], Email(c))
        /\ users[found[r]].password # c.password
    BY <1>1, <1>7 DEF WrongPassword, UserRequestOK
  <2>2. found[r] = id
    BY <1>1, <1>5, <2>1 DEF TableOK, SameEmail
  <2> QED
    BY <1>2, <1>3, <2>1, <2>2
<1> QED
  BY <1>6, <1>7

\* A login fails for its credentials only if nobody was welcomed with them
\* before it began (user/service.go:63-78).
THEOREM LoginsAreHonest == AccountSpec => RegisteredCanLogIn
<1> DEFINE Honest(r) ==
       userPc[r] # "idle" /\ userReply'[r] = "invalid_credentials" =>
          [email |-> Email(userCall[r]), password |-> userCall[r].password] \notin before[r]
<1>1. UInv /\ [AccountNext]_accountVars => \A r \in UserRequests : Honest(r)
  <2> SUFFICES ASSUME UInv, [AccountNext]_accountVars, NEW r \in UserRequests,
                      userPc[r] # "idle", userReply'[r] = "invalid_credentials"
               PROVE  [email |-> Email(userCall[r]), password |-> userCall[r].password]
                         \notin before[r]
    OBVIOUS
  <2>1. userReply[r] = Null /\ Null # "invalid_credentials" /\ AccountTypes
    BY NoUserAssumption DEF UInv, UserRequestOK, UserOutcomes
  <2>2. FindUser(r) \/ WrongPassword(r)
    <3>1. userReply'[r] # userReply[r]
      BY <2>1
    <3>2. ASSUME NEW s \in UserRequests, NEW outcome, UserFinish(s, outcome)
          PROVE  s = r /\ outcome = "invalid_credentials"
      BY <3>1, <3>2, <2>1 DEF UserFinish, AccountTypes
    <3>3. ASSUME NEW s \in UserRequests, NEW c \in UserCalls, UserReject(s, c) \/ UserBegin(s, c)
          PROVE  FALSE
      BY <2>1, <3>2, <3>3 DEF UserReject, UserBegin, AccountTypes
    <3>4. ASSUME NEW s \in UserRequests,
                 Registered(s) \/ RegisterUnknown(s) \/ EmailTaken(s) \/ UserCallFails(s)
          PROVE  FALSE
      BY <3>2, <3>4 DEF Registered, RegisterUnknown, EmailTaken, UserCallFails
    <3>5. ASSUME NEW s \in UserRequests, NEW c \in Callers, IssueToken(s, c)
          PROVE  FALSE
      BY <3>2, <3>5 DEF IssueToken
    <3>6. ASSUME NEW s \in UserRequests, FindUser(s) \/ WrongPassword(s)
          PROVE  s = r
      BY <3>1, <3>2, <3>6 DEF FindUser, WrongPassword
    <3>7. ASSUME (\E c \in Callers : Authenticate(c)) \/ Pass \/ UserCrash
                 \/ UNCHANGED accountVars
          PROVE  FALSE
      BY <2>1, <3>1, <3>7 DEF Authenticate, Pass, UserCrash, accountVars, userVars
    <3> QED
      BY <3>3, <3>4, <3>5, <3>6, <3>7 DEF AccountNext
  <2> QED
    BY <2>2, RefusedLogin
<1>2. UInv /\ [AccountNext]_accountVars =>
         [\A r \in UserRequests : Honest(r)]_accountVars
  BY <1>1
<1> QED
  BY <1>2, AccountInvariance, PTL DEF AccountSpec, RegisteredCanLogIn
=============================================================================
