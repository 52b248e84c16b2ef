----------------------------- MODULE AuthProofs -----------------------------
(***************************************************************************)
(* Theorems about Auth, for every set of requests, accounts and names, and *)
(* every value of the bounds.                                              *)
(***************************************************************************)
EXTENDS Auth, ErrorsProofs

----------------------------------------------------------------------------
(* Answers.                                                                *)

(***************************************************************************)
(* What the catch of refreshToken lets out is an UnauthorizedError.        *)
(***************************************************************************)
LEMMA RefreshErrorAnswered ==
  /\ ErrorMiddleware(RefreshCatch(UnauthorizedError("INVALID_CREDENTIALS"))) \in AnswerSet
  /\ \A e : e.app = FALSE => ErrorMiddleware(RefreshCatch(e)) \in AnswerSet
<1>1. RefreshCatch(UnauthorizedError("INVALID_CREDENTIALS")) = UnauthorizedError("INVALID_CREDENTIALS")
  BY DEF RefreshCatch, UnauthorizedError, AppError, AppErrorWith
<1>2. \A e : e.app = FALSE => RefreshCatch(e) = UnauthorizedError("INVALID_TOKEN")
  BY DEF RefreshCatch
<1>3. "INVALID_CREDENTIALS" \in Codes /\ "INVALID_TOKEN" \in Codes
  BY DEF Codes
<1> QED
  BY <1>1, <1>2, <1>3, AppErrorAnswered

----------------------------------------------------------------------------
(* Tokens.                                                                 *)

LEMMA GenerateTokensType ==
  ASSUME NEW u \in UserId, NEW roles \in SUBSET RoleName, NEW t \in Nat
  PROVE  GenerateTokens(u, roles, t) \in Pair
  BY LifeAssumption DEF GenerateTokens, Sign, Pair, Token, Secrets

LEMMA PresentableType ==
  ASSUME TypeOK
  PROVE  Presentable \subseteq Token
<1>1. \A r \in Delivered : pair[r] \in Pair
  BY DEF Delivered, TypeOK
<1>2. \A u \in Seeded : Sign(u, RoleName, ForeignSecret, 0, AccessLife) \in Token
  BY LifeAssumption DEF Sign, Token, Secrets, Seeded
<1> QED
  BY <1>1, <1>2 DEF Presentable, Pair

----------------------------------------------------------------------------
(* The database.                                                           *)

(***************************************************************************)
(* The tables keep their types, and no two accounts come to share a name,  *)
(* whatever an operator does to them.                                      *)
(***************************************************************************)
LEMMA AdministerSafe ==
  ASSUME DbTypeOK, Administer
  PROVE  DbTypeOK' /\ (UniqueAccounts => UniqueAccounts')
<1> USE DEF DbTypeOK, UniqueAccounts, Stored, UserRow, RoleRow
<1>1. ASSUME NEW u \in Stored(users), SetActive(u)
      PROVE  DbTypeOK' /\ (UniqueAccounts => UniqueAccounts')
  <2> DEFINE row == [users[u] EXCEPT !.isActive = ~@]
  <2>1. row \in UserRow /\ row.username = users[u].username /\ row.email = users[u].email
    OBVIOUS
  <2> HIDE DEF row
  <2>2. users' = [users EXCEPT ![u] = row] /\ userRole' = userRole
    BY <1>1 DEF SetActive, row
  <2> QED
    BY <2>1, <2>2, NoUserAssumption
<1>2. ASSUME NEW u \in Stored(users), DeleteUser(u)
      PROVE  DbTypeOK' /\ (UniqueAccounts => UniqueAccounts')
  BY <1>2, NoUserAssumption DEF DeleteUser
<1>3. ASSUME NEW u \in Stored(users), NEW role \in RoleName, GrantRole(u, role)
      PROVE  DbTypeOK' /\ (UniqueAccounts => UniqueAccounts')
  BY <1>3, NoUserAssumption DEF GrantRole
<1>4. ASSUME NEW u \in Stored(users), NEW role \in RoleName, RevokeRole(u, role)
      PROVE  DbTypeOK' /\ (UniqueAccounts => UniqueAccounts')
  BY <1>4, NoUserAssumption DEF RevokeRole
<1>5. ASSUME DropUserRole
      PROVE  DbTypeOK' /\ (UniqueAccounts => UniqueAccounts')
  BY <1>5, NoUserAssumption DEF DropUserRole
<1>6. ASSUME SeedUserRole
      PROVE  DbTypeOK' /\ (UniqueAccounts => UniqueAccounts')
  BY <1>6 DEF SeedUserRole
<1> QED
  BY <1>1, <1>2, <1>3, <1>4, <1>5, <1>6 DEF Administer

----------------------------------------------------------------------------
(* Type correctness.  TypeOK alone is not inductive: a handler uses the    *)
(* fields its request has, and the row it holds, so the calls a request    *)
(* can be waiting for must agree with what it is and with what was read.   *)

Holding == {"register.generateTokens", "register.sendWelcomeEmail", "login.verifyPassword",
            "login.findByIdWithRoles", "refresh.generateTokens"}

RequestOK(r) ==
  /\ pc[r] \in RegisterCalls => req[r] \in RegisterRequest
  /\ pc[r] \in LoginCalls => req[r] \in LoginRequest
  /\ pc[r] \in RefreshCalls => req[r] \in RefreshRequest
  /\ pc[r] \in MeCalls => req[r] \in MeRequest /\ req[r].token \in Token
  /\ pc[r] \in Holding => read[r] \in Snapshot
  /\ found[r] # None => pc[r] \in LookUps \cup {"lost"}
  /\ r \in adrift => req[r] \in RegisterRequest /\ pc[r] \in {"done", "lost"}

Typed == TypeOK /\ \A r \in Req : RequestOK(r)

(***************************************************************************)
(* What the look-up of r has found so far is taken, or there was none.     *)
(***************************************************************************)
Emptied(r) ==
  /\ found' \in [Req -> Partial \cup {None}] /\ found'[r] = None
  /\ \A q \in Req : q # r => found'[q] = found[q]

LEMMA Empties ==
  ASSUME Typed, NEW r \in Req,
         Take(r) \/ (UNCHANGED found /\ pc[r] \notin LookUps \cup {"lost"})
  PROVE  Emptied(r)
  BY DEF Typed, TypeOK, RequestOK, Take, Emptied

LEMMA FinishType ==
  ASSUME TypeOK, NEW r \in Req, NEW a \in AnswerSet, Finish(r, a)
  PROVE  /\ pc' \in [Req -> Calls \cup {"new", "done", "lost"}]
         /\ answer' \in [Req -> AnswerSet \cup {None}]
         /\ pc'[r] = "done"
         /\ \A q \in Req : q # r => pc'[q] = pc[q]
  BY DEF TypeOK, Finish

LEMMA AwaitType ==
  ASSUME TypeOK, NEW r \in Req, NEW call \in Calls, Await(r, call)
  PROVE  /\ pc' \in [Req -> Calls \cup {"new", "done", "lost"}]
         /\ answer' \in [Req -> AnswerSet \cup {None}]
         /\ pc'[r] = call
         /\ \A q \in Req : q # r => pc'[q] = pc[q]
  BY DEF TypeOK, Await

LEMMA RowsType ==
  ASSUME NEW table \in [UserId -> UserRow \cup {NoUser}]
  PROVE  Rows(table) \subseteq Snapshot
  BY DEF Rows, Stored, Snapshot

LEMMA WitnessType ==
  ASSUME TypeOK, DbTypeOK', Witness
  PROVE  seen' \in [Req -> SUBSET Snapshot]
<1>1. Rows(users') \subseteq Snapshot
  BY RowsType DEF DbTypeOK
<1> QED
  BY <1>1 DEF TypeOK, Witness

(***************************************************************************)
(* A step of one request's handler that only reads the database: what is   *)
(* left to show of it is what it does to the variables of the request.     *)
(***************************************************************************)
LEMMA ReadsTyped ==
  ASSUME Typed, NEW r \in Req, Reads,
         pc' \in [Req -> Calls \cup {"new", "done", "lost"}],
         \A q \in Req : q # r => pc'[q] = pc[q],
         answer' \in [Req -> AnswerSet \cup {None}],
         found' \in [Req -> Partial \cup {None}],
         \A q \in Req : q # r => found'[q] = found[q],
         read' \in [Req -> Snapshot \cup {None}],
         \A q \in Req : q # r => read'[q] = read[q],
         roleId' \in [Req -> Nat],
         pair' \in [Req -> Pair \cup {None}],
         RequestOK(r)'
  PROVE  Typed'
<1>1. TypeOK'
  BY DEF Typed, TypeOK, DbTypeOK, Reads, db, bounds
<1>2. \A q \in Req : q # r => RequestOK(q)'
  BY DEF Typed, RequestOK, Reads
<1> QED
  BY <1>1, <1>2 DEF Typed

LEMMA ArriveTyped ==
  ASSUME Typed, NEW r \in Req, NEW request \in Request, Arrive(r, request),
         pc' \in [Req -> Calls \cup {"new", "done", "lost"}],
         \A q \in Req : q # r => pc'[q] = pc[q],
         answer' \in [Req -> AnswerSet \cup {None}],
         RequestOK(r)'
  PROVE  Typed'
<1>1. Rows(users) \subseteq Snapshot
  BY RowsType DEF Typed, TypeOK, DbTypeOK
<1>2. TypeOK'
  BY <1>1 DEF Typed, TypeOK, DbTypeOK, Arrive, db, locals, bounds
<1>3. \A q \in Req : q # r => RequestOK(q)'
  BY DEF Typed, TypeOK, RequestOK, Arrive, locals
<1> QED
  BY <1>2, <1>3 DEF Typed

LEMMA ArrivalTyped ==
  ASSUME Typed, NEW r \in Req, Arrival(r)
  PROVE  Typed'
<1> USE DEF Calls, RegisterCalls, LoginCalls, RefreshCalls, MeCalls, Holding
<1>0. TypeOK
  BY DEF Typed
<1>5. found'[r] = None /\ r \notin adrift'
  BY DEF Arrival, ArriveRegister, ArriveLogin, ArriveRefresh, ArriveMe, Arrive, Typed, RequestOK,
         LookUps, DbCalls
<1>1. CASE ArriveRegister(r)
  <2> PICK username \in Username, email \in Email, password \in Password :
        /\ Arrive(r, [op |-> "register", username |-> username, email |-> email,
                      password |-> password])
        /\ Await(r, "register.findByUsername")
    BY <1>1 DEF ArriveRegister
  <2> DEFINE request == [op |-> "register", username |-> username, email |-> email,
                         password |-> password]
  <2>1. request \in RegisterRequest
    BY DEF RegisterRequest
  <2>2. req'[r] = request /\ pc'[r] = "register.findByUsername"
    BY <1>0, AwaitType DEF Arrive, TypeOK
  <2>3. RequestOK(r)'
    BY <1>5, <2>1, <2>2 DEF RequestOK
  <2> HIDE DEF request
  <2> QED
    BY <1>0, <2>1, <2>3, AwaitType, ArriveTyped DEF Request, request
<1>2. CASE ArriveLogin(r)
  <2> PICK username \in Username, password \in Password :
        /\ Arrive(r, [op |-> "login", username |-> username, password |-> password])
        /\ Await(r, "login.findByUsername")
    BY <1>2 DEF ArriveLogin
  <2> DEFINE request == [op |-> "login", username |-> username, password |-> password]
  <2>1. request \in LoginRequest
    BY DEF LoginRequest
  <2>2. req'[r] = request /\ pc'[r] = "login.findByUsername"
    BY <1>0, AwaitType DEF Arrive, TypeOK
  <2>3. RequestOK(r)'
    BY <1>5, <2>1, <2>2 DEF RequestOK
  <2> HIDE DEF request
  <2> QED
    BY <1>0, <2>1, <2>3, AwaitType, ArriveTyped DEF Request, request
<1>3. CASE ArriveRefresh(r)
  <2> PICK token \in Presentable :
        /\ Arrive(r, [op |-> "refresh", token |-> token])
        /\ IF VerifiesRefresh(token, now)
           THEN Await(r, "refresh.findByIdWithRoles")
           ELSE Throw(r, RefreshCatch(VerifyError(token, RefreshSecret)))
    BY <1>3 DEF ArriveRefresh
  <2> DEFINE request == [op |-> "refresh", token |-> token]
  <2>1. request \in RefreshRequest
    BY <1>0, PresentableType DEF RefreshRequest
  <2>2. req'[r] = request
    BY <1>0 DEF Arrive, TypeOK
  <2>3. ErrorMiddleware(RefreshCatch(VerifyError(token, RefreshSecret))) \in AnswerSet
    BY RefreshErrorAnswered DEF VerifyError, JsonWebTokenError, TokenExpiredError, LibraryError
  <2> HIDE DEF request
  <2>4. CASE Await(r, "refresh.findByIdWithRoles")
    <3>1. pc'[r] = "refresh.findByIdWithRoles"
      BY <1>0, <2>4, AwaitType
    <3>2. RequestOK(r)'
      BY <1>5, <2>1, <2>2, <3>1 DEF RequestOK
    <3> QED
      BY <1>0, <2>1, <2>4, <3>2, AwaitType, ArriveTyped DEF Request, request
  <2>5. CASE Throw(r, RefreshCatch(VerifyError(token, RefreshSecret)))
    <3>1. Finish(r, ErrorMiddleware(RefreshCatch(VerifyError(token, RefreshSecret))))
      BY <2>5 DEF Throw
    <3>2. pc'[r] = "done"
      BY <1>0, <2>3, <3>1, FinishType
    <3>3. RequestOK(r)'
      BY <1>5, <3>2 DEF RequestOK
    <3> QED
      BY <1>0, <2>1, <2>3, <3>1, <3>3, FinishType, ArriveTyped DEF Request, request
  <2> QED
    BY <2>4, <2>5
<1>4. CASE ArriveMe(r)
  <2> PICK token \in Presentable \cup {None} :
        /\ Arrive(r, [op |-> "me", token |-> token])
        /\ IF token = None THEN Throw(r, UnauthorizedError("UNAUTHORIZED"))
           ELSE IF VerifiesAccess(token, now) THEN Await(r, "me.findByIdWithRoles")
           ELSE Throw(r, VerifyError(token, AccessSecret))
    BY <1>4 DEF ArriveMe
  <2> DEFINE request == [op |-> "me", token |-> token]
  <2>1. request \in MeRequest
    BY <1>0, PresentableType DEF MeRequest
  <2>2. req'[r] = request
    BY <1>0 DEF Arrive, TypeOK
  <2>3. request.token = token
    OBVIOUS
  <2> HIDE DEF request
  <2>4. CASE token # None /\ Await(r, "me.findByIdWithRoles")
    <3>1. pc'[r] = "me.findByIdWithRoles"
      BY <1>0, <2>4, AwaitType
    <3>2. token \in Token
      BY <1>0, <2>4, PresentableType
    <3>3. RequestOK(r)'
      BY <1>5, <2>1, <2>2, <2>3, <3>1, <3>2 DEF RequestOK
    <3> QED
      BY <1>0, <2>1, <2>4, <3>3, AwaitType, ArriveTyped DEF Request, request
  <2>5. ASSUME NEW e, Throw(r, e), ErrorMiddleware(e) \in AnswerSet
        PROVE  Typed'
    <3>1. Finish(r, ErrorMiddleware(e))
      BY <2>5 DEF Throw
    <3>2. pc'[r] = "done"
      BY <1>0, <2>5, <3>1, FinishType
    <3>3. RequestOK(r)'
      BY <1>5, <3>2 DEF RequestOK
    <3> QED
      BY <1>0, <2>1, <2>5, <3>1, <3>3, FinishType, ArriveTyped DEF Request, request
  <2>6. /\ ErrorMiddleware(UnauthorizedError("UNAUTHORIZED")) \in AnswerSet
        /\ ErrorMiddleware(VerifyError(token, AccessSecret)) \in AnswerSet
    BY AppErrorAnswered, LibraryErrorAnswered
       DEF Codes, VerifyError, JsonWebTokenError, TokenExpiredError, LibraryError
  <2> QED
    BY <2>4, <2>5, <2>6
<1> QED
  BY <1>1, <1>2, <1>3, <1>4 DEF Arrival

(***************************************************************************)
(* A handler's step that ends the request, or moves it to the next call,   *)
(* and changes nothing but what the handler holds.                         *)
(***************************************************************************)
LEMMA FinishTyped ==
  ASSUME Typed, NEW r \in Req, Reads, NEW a \in AnswerSet, Finish(r, a), pc[r] \in Calls,
         Emptied(r),
         read' \in [Req -> Snapshot \cup {None}],
         \A q \in Req : q # r => read'[q] = read[q],
         roleId' \in [Req -> Nat],
         pair' \in [Req -> Pair \cup {None}]
  PROVE  Typed'
<1>1. RequestOK(r)'
  BY FinishType DEF Typed, RequestOK, Calls, RegisterCalls, LoginCalls, RefreshCalls, MeCalls, Holding,
                    Emptied, Reads
<1> QED
  BY <1>1, FinishType, ReadsTyped DEF Typed, Emptied

LEMMA ThrowTyped ==
  ASSUME Typed, NEW r \in Req, Reads, NEW e, ErrorMiddleware(e) \in AnswerSet, Throw(r, e),
         pc[r] \in Calls, Emptied(r), UNCHANGED <<read, roleId, pair>>
  PROVE  Typed'
  BY FinishTyped DEF Throw, Typed, TypeOK

LEMMA AwaitTyped ==
  ASSUME Typed, NEW r \in Req, Reads, NEW call \in Calls, Await(r, call), pc[r] \in Calls,
         Emptied(r),
         read' \in [Req -> Snapshot \cup {None}],
         \A q \in Req : q # r => read'[q] = read[q],
         roleId' \in [Req -> Nat],
         pair' \in [Req -> Pair \cup {None}],
         call \in RegisterCalls => req[r] \in RegisterRequest,
         call \in LoginCalls => req[r] \in LoginRequest,
         call \in RefreshCalls => req[r] \in RefreshRequest,
         call \notin MeCalls,
         call \in Holding => read'[r] \in Snapshot
  PROVE  Typed'
<1>1. req' = req /\ adrift' = adrift
  BY DEF Reads
<1>2. r \notin adrift
  BY DEF Typed, RequestOK, Calls, RegisterCalls, LoginCalls, RefreshCalls, MeCalls
<1>3. RequestOK(r)'
  BY <1>1, <1>2, AwaitType DEF Typed, RequestOK, Emptied
<1> QED
  BY <1>3, AwaitType, ReadsTyped DEF Typed, Emptied

----------------------------------------------------------------------------
(* Look-ups.                                                               *)

LEMMA RolelessFacts ==
  ASSUME NEW row \in UserRow
  PROVE  /\ Roleless(row) \in UserRow /\ Roleless(row).roles = {}
         /\ Roleless(row).username = row.username /\ Roleless(row).email = row.email
         /\ Roleless(row).password = row.password /\ Roleless(row).isActive = row.isActive
         /\ Roleless(Roleless(row)) = Roleless(row)
         /\ \A roles : Roleless([row EXCEPT !.roles = roles]) = Roleless(row)
  BY DEF UserRow, Roleless

LEMMA MatchingStored ==
  ASSUME NEW r \in Req
  PROVE  Matching(r) \subseteq {u \in UserId : users[u] # NoUser}
<1>1. pc[r] \in {"register.findByUsername", "login.findByUsername"} =>
        Matching(r) = FindByUsername(req[r].username)
  BY DEF Matching
<1>2. pc[r] = "register.findByEmail" => Matching(r) = FindByEmail(req[r].email)
  BY DEF Matching
<1>3. pc[r] = "login.findByIdWithRoles" => Matching(r) = FindById(read[r].id)
  BY DEF Matching
<1>4. pc[r] \notin {"register.findByUsername", "login.findByUsername", "register.findByEmail",
                    "login.findByIdWithRoles"} => Matching(r) = FindById(req[r].token.userId)
  BY DEF Matching
<1> QED
  BY <1>1, <1>2, <1>3, <1>4 DEF FindByUsername, FindByEmail, FindById, Stored

(***************************************************************************)
(* The SELECT from users, and the one that adds the roles.                 *)
(***************************************************************************)
LEMMA FindUserStep ==
  ASSUME TypeOK, NEW r \in Req, FindUser(r)
  PROVE  \E u \in UserId :
           /\ u \in Matching(r) /\ users[u] \in UserRow /\ users[u] # NoUser
           /\ SelectUser(u) \in Partial /\ found' = [found EXCEPT ![r] = SelectUser(u)]
           /\ found' \in [Req -> Partial \cup {None}] /\ found'[r] = SelectUser(u)
           /\ \A q \in Req : q # r => found'[q] = found[q]
<1>1. PICK u \in Matching(r) : found' = [found EXCEPT ![r] = SelectUser(u)]
  BY DEF FindUser
<1>2. u \in UserId /\ users[u] \in UserRow /\ users[u] # NoUser
  BY MatchingStored DEF TypeOK, DbTypeOK
<1>3. SelectUser(u) \in Partial
  BY <1>2, RolelessFacts DEF SelectUser, Partial
<1> QED
  BY <1>1, <1>2, <1>3 DEF TypeOK

LEMMA FindUserRolesStep ==
  ASSUME TypeOK, NEW r \in Req, FindUserRoles(r)
  PROVE  /\ found[r] \in Partial /\ found'[r] \in Partial
         /\ found' \in [Req -> Partial \cup {None}]
         /\ found'[r].id = found[r].id /\ found'[r].mapped = TRUE /\ found'[r].roleId = userRole.id
         /\ found'[r].row = [found[r].row EXCEPT !.roles = RolesOf(found[r].id)]
         /\ found'[r].row \in UserRow
         /\ Roleless(found'[r].row) = Roleless(found[r].row)
         /\ found'[r].row.roles = RolesOf(found[r].id)
         /\ \A q \in Req : q # r => found'[q] = found[q]
<1>1. found[r] \in Partial
  BY DEF TypeOK, FindUserRoles
<1>2. RolesOf(found[r].id) \in SUBSET RoleName /\ userRole.id \in Nat
  BY <1>1 DEF RolesOf, TypeOK, DbTypeOK, UserRow, RoleRow, Partial
<1>3. SelectUserRoles(found[r]) \in Partial
  BY <1>1, <1>2 DEF SelectUserRoles, Partial, UserRow
<1>4. found' = [found EXCEPT ![r] = SelectUserRoles(found[r])]
  BY DEF FindUserRoles
<1>5. found'[r] = SelectUserRoles(found[r]) /\ found' \in [Req -> Partial \cup {None}]
  BY <1>3, <1>4 DEF TypeOK
<1>6. /\ found'[r].id = found[r].id /\ found'[r].mapped = TRUE /\ found'[r].roleId = userRole.id
      /\ found'[r].row = [found[r].row EXCEPT !.roles = RolesOf(found[r].id)]
  BY <1>1, <1>5 DEF SelectUserRoles, Partial
<1>7. found[r].row \in UserRow
  BY <1>1 DEF Partial
<1>8. found'[r].row \in UserRow
  BY <1>3, <1>5 DEF Partial
<1>9. Roleless(found'[r].row) = Roleless(found[r].row)
  BY <1>6, <1>7, RolelessFacts
<1>10. found'[r].row.roles = RolesOf(found[r].id)
  BY <1>6, <1>7 DEF UserRow
<1> QED
  BY <1>1, <1>3, <1>4, <1>5, <1>6, <1>8, <1>9, <1>10 DEF TypeOK

LEMMA RejectType ==
  ASSUME NEW r \in Req, Reject(r)
  PROVE  \E a \in AnswerSet : Finish(r, a)
<1>1. PICK e \in DbErrors : Throw(r, IF req[r].op = "refresh" THEN RefreshCatch(e) ELSE e)
  BY DEF Reject
<1>2. e.app = FALSE
  BY DEF DbErrors, CodedError
<1> QED
  BY <1>1, <1>2, LibraryErrorAnswered, RefreshErrorAnswered DEF Throw

LEMMA LookUpTyped ==
  ASSUME Typed, NEW r \in Req, LookUp(r)
  PROVE  Typed'
<1>0. TypeOK /\ RequestOK(r)
  BY DEF Typed
<1>1. ASSUME FindUser(r) \/ FindUserRoles(r)
      PROVE  Typed'
  <2>1. /\ found' \in [Req -> Partial \cup {None}]
        /\ \A q \in Req : q # r => found'[q] = found[q]
    BY <1>0, <1>1, FindUserStep, FindUserRolesStep
  <2>2. Reads /\ UNCHANGED <<pc, answer, read, roleId, pair>> /\ pc[r] \in LookUps
    BY <1>1 DEF FindUser, FindUserRoles
  <2>3. RequestOK(r)'
    BY <1>0, <2>2 DEF RequestOK, Reads
  <2> QED
    BY <1>0, <2>1, <2>2, <2>3, ReadsTyped DEF TypeOK
<1>2. CASE RoleIsLost(r)
  <2>1. /\ Reads /\ Take(r) /\ UNCHANGED <<read, roleId, pair>> /\ pc[r] \in Calls
        /\ \E a \in AnswerSet : Finish(r, a)
    BY <1>2, RejectType DEF RoleIsLost, LookUps, DbCalls
  <2> QED
    BY <1>0, <2>1, Empties, FinishTyped DEF TypeOK
<1> QED
  BY <1>1, <1>2 DEF LookUp

(***************************************************************************)
(* What a look-up returns.                                                 *)
(***************************************************************************)
LEMMA AccountType ==
  ASSUME TypeOK, NEW r \in Req, found[r] # None, read' = [read EXCEPT ![r] = Account(found[r])]
  PROVE  /\ read' \in [Req -> Snapshot \cup {None}]
         /\ read'[r] = Account(found[r]) /\ read'[r] \in Snapshot
         /\ \A q \in Req : q # r => read'[q] = read[q]
<1>1. Account(found[r]) \in Snapshot
  BY DEF TypeOK, Account, Partial, Snapshot
<1> QED
  BY <1>1 DEF TypeOK

LEMMA RegisteredRowType ==
  ASSUME NEW r \in Req, req[r] \in RegisterRequest
  PROVE  RegisteredRow(r) \in UserRow
  BY DEF RegisterRequest, RegisteredRow, NewRow, UserRow, Hash, RoleName

(***************************************************************************)
(* The step that stores the account of r, if its reply comes or not.       *)
(***************************************************************************)
LEMMA InsertType ==
  ASSUME DbTypeOK, NEW r \in Req, req[r] \in RegisterRequest, InsertUser(r, RegisteredRow(r))
  PROVE  DbTypeOK'
  BY RegisteredRowType, AuthAssumption DEF DbTypeOK, InsertUser

LEMMA SignedType ==
  ASSUME TypeOK, NEW r \in Req, read[r] \in Snapshot,
         pair' = [pair EXCEPT ![r] = GenerateTokens(read[r].id, read[r].row.roles, now)]
  PROVE  pair' \in [Req -> Pair \cup {None}]
<1>1. GenerateTokens(read[r].id, read[r].row.roles, now) \in Pair
  BY GenerateTokensType DEF Snapshot, UserRow, TypeOK
<1> QED
  BY <1>1 DEF TypeOK

LEMMA RegisterTyped ==
  ASSUME Typed, NEW r \in Req, Register(r)
  PROVE  Typed'
<1> USE DEF Calls, RegisterCalls, LoginCalls, RefreshCalls, MeCalls, Holding
<1>0. TypeOK /\ RequestOK(r)
  BY DEF Typed
<1>1. CASE RegisterFindByUsername(r)
  <2>1. /\ req[r] \in RegisterRequest /\ Reads /\ UNCHANGED <<read, roleId, pair>>
        /\ pc[r] \in Calls /\ Emptied(r)
    BY <1>0, <1>1, Empties DEF RegisterFindByUsername, RequestOK
  <2>2. CASE Throw(r, ConflictError("RECORD_CONFLICT"))
    BY <2>1, <2>2, ThrowTyped, AppErrorAnswered DEF Codes
  <2>3. CASE Await(r, "register.findByEmail")
    BY <1>0, <2>1, <2>3, AwaitTyped DEF TypeOK
  <2> QED
    BY <1>1, <2>2, <2>3 DEF RegisterFindByUsername
<1>2. CASE RegisterFindByEmail(r)
  <2>1. /\ req[r] \in RegisterRequest /\ Reads /\ UNCHANGED <<read, roleId, pair>>
        /\ pc[r] \in Calls /\ Emptied(r)
    BY <1>0, <1>2, Empties DEF RegisterFindByEmail, RequestOK
  <2>2. CASE Throw(r, ConflictError("RECORD_CONFLICT"))
    BY <2>1, <2>2, ThrowTyped, AppErrorAnswered DEF Codes
  <2>3. CASE Await(r, "register.findRoleByName")
    BY <1>0, <2>1, <2>3, AwaitTyped DEF TypeOK
  <2> QED
    BY <1>2, <2>2, <2>3 DEF RegisterFindByEmail
<1>3. CASE RegisterFindRoleByName(r)
  <2>1. /\ req[r] \in RegisterRequest /\ Reads /\ UNCHANGED <<read, pair>>
        /\ pc[r] \in Calls /\ Emptied(r)
    BY <1>0, <1>3, Empties DEF RegisterFindRoleByName, RequestOK, LookUps
  <2>2. CASE Throw(r, InternalServerError("INTERNAL_ERROR")) /\ UNCHANGED roleId
    BY <2>1, <2>2, ThrowTyped, AppErrorAnswered DEF Codes
  <2>3. CASE Await(r, "register.createUser") /\ roleId' = [roleId EXCEPT ![r] = userRole.id]
    <3>1. roleId' \in [Req -> Nat]
      BY <1>0, <2>3 DEF TypeOK, DbTypeOK, RoleRow
    <3> QED
      BY <1>0, <2>1, <2>3, <3>1, AwaitTyped DEF TypeOK
  <2> QED
    BY <1>3, <2>2, <2>3 DEF RegisterFindRoleByName
<1>4. CASE RegisterCreateUser(r)
  <2>1. /\ req[r] \in RegisterRequest /\ Witness
        /\ UNCHANGED <<req, found, roleId, pair, mailed, adrift, bounds>>
        /\ found[r] = None /\ r \notin adrift
    BY <1>0, <1>4 DEF RegisterCreateUser, RequestOK, LookUps, DbCalls
  <2>2. RegisteredRow(r) \in UserRow
    BY <2>1, RegisteredRowType
  <2>3. ASSUME InsertUser(r, RegisteredRow(r)), Await(r, "register.generateTokens"),
               read' = [read EXCEPT ![r] = [id |-> r, row |-> RegisteredRow(r)]]
        PROVE  Typed'
    <3>1. DbTypeOK'
      BY <1>0, <2>1, <2>3, InsertType DEF TypeOK
    <3>2. [id |-> r, row |-> RegisteredRow(r)] \in Snapshot
      BY <2>2, AuthAssumption DEF Snapshot
    <3>3. read' \in [Req -> Snapshot \cup {None}] /\ read'[r] \in Snapshot
      BY <1>0, <2>3, <3>2 DEF TypeOK
    <3>4. TypeOK'
      BY <1>0, <2>1, <2>3, <3>1, <3>3, AwaitType, WitnessType DEF TypeOK, bounds
    <3>5. RequestOK(r)'
      BY <1>0, <2>1, <2>3, <3>3, AwaitType DEF RequestOK
    <3>6. \A q \in Req : q # r => RequestOK(q)'
      BY <1>0, <2>1, <2>3, AwaitType DEF Typed, TypeOK, RequestOK
    <3> QED
      BY <3>4, <3>5, <3>6 DEF Typed
  <2>4. ASSUME Throw(r, Rejection(r)), UNCHANGED <<db, read>>
        PROVE  Typed'
    <3>1. ErrorMiddleware(Rejection(r)) \in AnswerSet
      BY LibraryErrorAnswered
         DEF Rejection, UniqueConstraintFailed, ForeignKeyFailed, CodedError
    <3>2. Finish(r, ErrorMiddleware(Rejection(r)))
      BY <2>4 DEF Throw
    <3>3. DbTypeOK'
      BY <1>0, <2>4 DEF TypeOK, DbTypeOK, db
    <3>4. TypeOK'
      BY <1>0, <2>1, <2>4, <3>1, <3>2, <3>3, FinishType, WitnessType DEF TypeOK, bounds
    <3>5. \A q \in Req : RequestOK(q)'
      BY <1>0, <2>1, <2>4, <3>1, <3>2, FinishType DEF Typed, RequestOK
    <3> QED
      BY <3>4, <3>5 DEF Typed
  <2> QED
    BY <1>4, <2>3, <2>4 DEF RegisterCreateUser
<1>5. CASE RegisterGenerateTokens(r)
  <2>1. /\ read[r] \in Snapshot /\ req[r] \in RegisterRequest /\ Reads /\ UNCHANGED <<read, roleId>>
        /\ pc[r] \in Calls /\ Emptied(r)
    BY <1>0, <1>5, Empties DEF RegisterGenerateTokens, RequestOK, LookUps, DbCalls
  <2>2. pair' \in [Req -> Pair \cup {None}] /\ Await(r, "register.sendWelcomeEmail")
    BY <1>0, <1>5, <2>1, SignedType DEF RegisterGenerateTokens
  <2> QED
    BY <1>0, <2>1, <2>2, AwaitTyped DEF TypeOK
<1>6. CASE RegisterSendWelcomeEmail(r)
  <2>1. mailed' \subseteq Req /\ faults' \in Nat
    BY <1>0, <1>6 DEF RegisterSendWelcomeEmail, TypeOK
  <2>2. PICK a \in AnswerSet : Finish(r, a)
    <3>1. ErrorMiddleware(MailError) \in AnswerSet
      BY LibraryErrorAnswered DEF MailError, CodedError
    <3> QED
      BY <1>6, <3>1, OkAnswerType DEF RegisterSendWelcomeEmail, Return, Throw
  <2>3. /\ UNCHANGED <<db, req, found, read, roleId, pair, adrift, seen, now, edits>>
        /\ found[r] = None
    BY <1>0, <1>6 DEF RegisterSendWelcomeEmail, RequestOK, LookUps, DbCalls
  <2>4. TypeOK'
    BY <1>0, <2>1, <2>2, <2>3, FinishType DEF TypeOK, DbTypeOK, db
  <2>5. \A q \in Req : RequestOK(q)'
    BY <1>0, <2>2, <2>3, FinishType DEF Typed, RequestOK
  <2> QED
    BY <2>4, <2>5 DEF Typed
<1> QED
  BY <1>1, <1>2, <1>3, <1>4, <1>5, <1>6 DEF Register

LEMMA LoginTyped ==
  ASSUME Typed, NEW r \in Req, Login(r)
  PROVE  Typed'
<1> USE DEF Calls, RegisterCalls, LoginCalls, RefreshCalls, MeCalls, Holding
<1>0. TypeOK /\ RequestOK(r) /\ ErrorMiddleware(UnauthorizedError("INVALID_CREDENTIALS")) \in AnswerSet
  BY AppErrorAnswered DEF Typed, Codes
<1>1. CASE LoginFindByUsername(r)
  <2>1. /\ req[r] \in LoginRequest /\ Reads /\ UNCHANGED <<roleId, pair>>
        /\ pc[r] \in Calls /\ Emptied(r)
    BY <1>0, <1>1, Empties DEF LoginFindByUsername, RequestOK
  <2>2. ASSUME found[r] # None, read' = [read EXCEPT ![r] = Account(found[r])],
               Await(r, "login.verifyPassword")
        PROVE  Typed'
    BY <1>0, <2>1, <2>2, AccountType, AwaitTyped DEF TypeOK
  <2>3. ASSUME Throw(r, UnauthorizedError("INVALID_CREDENTIALS")), UNCHANGED read
        PROVE  Typed'
    BY <1>0, <2>1, <2>3, ThrowTyped
  <2> QED
    BY <1>1, <2>2, <2>3 DEF LoginFindByUsername
<1>2. CASE LoginVerifyPassword(r)
  <2>1. /\ req[r] \in LoginRequest /\ read[r] \in Snapshot /\ Reads /\ UNCHANGED <<read, roleId>>
        /\ pc[r] \in Calls /\ Emptied(r)
    BY <1>0, <1>2, Empties DEF LoginVerifyPassword, RequestOK, LookUps, DbCalls
  <2>2. ASSUME pair' = [pair EXCEPT ![r] = GenerateTokens(read[r].id, read[r].row.roles, now)],
               Await(r, "login.findByIdWithRoles")
        PROVE  Typed'
    BY <1>0, <2>1, <2>2, SignedType, AwaitTyped DEF TypeOK
  <2>3. ASSUME Throw(r, UnauthorizedError("INVALID_CREDENTIALS")), UNCHANGED pair
        PROVE  Typed'
    BY <1>0, <2>1, <2>3, ThrowTyped
  <2> QED
    BY <1>2, <2>2, <2>3 DEF LoginVerifyPassword
<1>3. CASE LoginFindByIdWithRoles(r)
  <2>1. Reads /\ UNCHANGED <<read, roleId, pair>> /\ pc[r] \in Calls /\ Emptied(r)
    BY <1>3, Empties DEF LoginFindByIdWithRoles
  <2>2. CASE Throw(r, UnauthorizedError("INVALID_CREDENTIALS"))
    BY <1>0, <2>1, <2>2, ThrowTyped
  <2>3. CASE Return(r)
    BY <1>0, <2>1, <2>3, FinishTyped, OkAnswerType DEF Return, TypeOK
  <2> QED
    BY <1>3, <2>2, <2>3 DEF LoginFindByIdWithRoles
<1> QED
  BY <1>1, <1>2, <1>3 DEF Login

LEMMA RefreshTyped ==
  ASSUME Typed, NEW r \in Req, Refresh(r)
  PROVE  Typed'
<1> USE DEF Calls, RegisterCalls, LoginCalls, RefreshCalls, MeCalls, Holding
<1>0. TypeOK /\ RequestOK(r)
  BY DEF Typed
<1>1. CASE RefreshFindByIdWithRoles(r)
  <2>1. /\ req[r] \in RefreshRequest /\ Reads /\ UNCHANGED <<roleId, pair>>
        /\ pc[r] \in Calls /\ Emptied(r)
    BY <1>0, <1>1, Empties DEF RefreshFindByIdWithRoles, RequestOK
  <2>2. ASSUME Refreshable(found[r]), Await(r, "refresh.generateTokens"),
               read' = [read EXCEPT ![r] = Account(found[r])]
        PROVE  Typed'
    BY <1>0, <2>1, <2>2, AccountType, AwaitTyped DEF TypeOK, Refreshable
  <2>3. ASSUME Throw(r, RefreshCatch(UnauthorizedError("INVALID_CREDENTIALS"))), UNCHANGED read
        PROVE  Typed'
    BY <2>1, <2>3, ThrowTyped, RefreshErrorAnswered
  <2> QED
    BY <1>1, <2>2, <2>3 DEF RefreshFindByIdWithRoles
<1>2. CASE RefreshGenerateTokens(r)
  <2>1. /\ read[r] \in Snapshot /\ Reads /\ UNCHANGED <<read, roleId>>
        /\ pc[r] \in Calls /\ Emptied(r)
    BY <1>0, <1>2, Empties DEF RefreshGenerateTokens, RequestOK, LookUps, DbCalls
  <2>2. pair' \in [Req -> Pair \cup {None}]
    BY <1>0, <1>2, <2>1, SignedType DEF RefreshGenerateTokens
  <2>3. Finish(r, OkAnswer)
    BY <1>2 DEF RefreshGenerateTokens, Return
  <2> QED
    BY <1>0, <2>1, <2>2, <2>3, FinishTyped, OkAnswerType DEF TypeOK
<1> QED
  BY <1>1, <1>2 DEF Refresh

LEMMA MeTyped ==
  ASSUME Typed, NEW r \in Req, MeFindByIdWithRoles(r)
  PROVE  Typed'
<1> USE DEF Calls, RegisterCalls, LoginCalls, RefreshCalls, MeCalls, Holding
<1>0. TypeOK /\ RequestOK(r)
  BY DEF Typed
<1>1. Reads /\ UNCHANGED <<roleId, pair>> /\ pc[r] \in Calls /\ Emptied(r)
  BY Empties DEF MeFindByIdWithRoles
<1>2. ASSUME Throw(r, UnauthorizedError("USER_NOT_FOUND")), UNCHANGED read
      PROVE  Typed'
  BY <1>1, <1>2, ThrowTyped, AppErrorAnswered DEF Codes
<1>3. ASSUME found[r] # None, Return(r), read' = [read EXCEPT ![r] = Account(found[r])]
      PROVE  Typed'
  BY <1>0, <1>1, <1>3, AccountType, FinishTyped, OkAnswerType DEF TypeOK, Return
<1> QED
  BY <1>2, <1>3 DEF MeFindByIdWithRoles

(***************************************************************************)
(* A failed call ends the request; a createUser that failed may have stored*)
(* its row, or leave it to the database to do so.                          *)
(***************************************************************************)
LEMMA DbFailsTyped ==
  ASSUME Typed, NEW r \in Req, DbFails(r)
  PROVE  Typed'
<1> USE DEF Calls, RegisterCalls, LoginCalls, RefreshCalls, MeCalls, Holding
<1>0. TypeOK /\ RequestOK(r) /\ Emptied(r)
  BY Empties DEF Typed, DbFails
<1>1. UNCHANGED <<req, locals, now, edits>> /\ Witness /\ faults' \in Nat /\ Reject(r)
  BY <1>0 DEF DbFails, TypeOK
<1>2. PICK a \in AnswerSet : Finish(r, a)
  BY <1>1, RejectType
<1>3. DbTypeOK'
  <2>1. CASE UNCHANGED db
    BY <1>0, <2>1 DEF TypeOK, DbTypeOK, db
  <2>2. CASE pc[r] = "register.createUser" /\ InsertUser(r, RegisteredRow(r))
    BY <1>0, <2>2, InsertType DEF TypeOK, RequestOK
  <2> QED
    BY <2>1, <2>2 DEF DbFails
<1>4. adrift' = adrift \/ (pc[r] = "register.createUser" /\ adrift' = adrift \cup {r})
  BY SMT DEF DbFails
<1>5. TypeOK'
  BY <1>0, <1>1, <1>2, <1>3, <1>4, FinishType, WitnessType DEF TypeOK, locals, Emptied
<1>6. \A q \in Req : RequestOK(q)'
  BY <1>0, <1>1, <1>2, <1>4, FinishType DEF Typed, RequestOK, locals, Emptied
<1> QED
  BY <1>5, <1>6 DEF Typed

LEMMA LandTyped ==
  ASSUME Typed, NEW r \in Req, Land(r)
  PROVE  Typed'
<1>0. TypeOK /\ RequestOK(r)
  BY DEF Typed
<1>1. UNCHANGED <<req, pc, found, locals, answer, bounds>> /\ Witness /\ adrift' = adrift \ {r}
  BY DEF Land
<1>2. DbTypeOK'
  <2>1. CASE UNCHANGED db
    BY <1>0, <2>1 DEF TypeOK, DbTypeOK, db
  <2>2. CASE InsertUser(r, RegisteredRow(r))
    BY <1>0, <2>2, InsertType DEF TypeOK, RequestOK, Land
  <2> QED
    BY <2>1, <2>2 DEF Land
<1>3. TypeOK'
  BY <1>0, <1>1, <1>2, WitnessType DEF TypeOK, locals, bounds
<1>4. \A q \in Req : RequestOK(q)'
  BY <1>1 DEF Typed, RequestOK, locals
<1> QED
  BY <1>3, <1>4 DEF Typed

LEMMA EnvironmentTyped ==
  ASSUME Typed, Crash \/ Edit \/ Tick
  PROVE  Typed'
<1> USE DEF Calls, RegisterCalls, LoginCalls, RefreshCalls, MeCalls, Holding
<1>1. CASE Crash
  <2>1. /\ pc' = [r \in Req |-> IF r \in InFlight THEN "lost" ELSE pc[r]]
        /\ adrift' = adrift \cup {r \in Req : pc[r] = "register.createUser"}
    BY <1>1 DEF Crash
  <2>2. UNCHANGED <<db, req, found, locals, answer, seen, now, edits>> /\ faults' = faults + 1
    BY <1>1 DEF Crash
  <2>3. TypeOK'
    BY <2>1, <2>2 DEF Typed, TypeOK, DbTypeOK, db, locals
  <2>4. \A r \in Req : RequestOK(r)'
    BY <2>1, <2>2 DEF Typed, TypeOK, RequestOK, locals, InFlight, LookUps, DbCalls
  <2> QED
    BY <2>3, <2>4 DEF Typed
<1>2. CASE Edit
  <2>1. DbTypeOK' /\ Witness /\ edits' = edits + 1
    BY <1>2, AdministerSafe DEF Edit, Typed, TypeOK
  <2>2. UNCHANGED <<req, pc, found, locals, answer, adrift, now, faults>>
    BY <1>2 DEF Edit
  <2>3. TypeOK'
    BY <2>1, <2>2, WitnessType DEF Typed, TypeOK, locals
  <2>4. \A r \in Req : RequestOK(r)'
    BY <2>2 DEF Typed, RequestOK, locals
  <2> QED
    BY <2>3, <2>4 DEF Typed
<1>3. CASE Tick
  BY <1>3 DEF Tick, Typed, TypeOK, DbTypeOK, RequestOK, db, locals
<1> QED
  BY <1>1, <1>2, <1>3

LEMMA InitTyped == Init => Typed
  BY AuthAssumption
     DEF Init, Typed, TypeOK, DbTypeOK, RoleRow, RequestOK, Seeded, Calls, RegisterCalls,
         LoginCalls, RefreshCalls, MeCalls, Holding, LookUps, DbCalls

LEMMA NextTyped == Typed /\ [Next]_vars => Typed'
<1> SUFFICES ASSUME Typed, [Next]_vars
             PROVE  Typed'
  OBVIOUS
<1>1. CASE UNCHANGED vars
  BY <1>1 DEF Typed, TypeOK, DbTypeOK, RequestOK, vars
<1>2. CASE Next
  BY <1>2, ArrivalTyped, RegisterTyped, LoginTyped, RefreshTyped, MeTyped, DbFailsTyped,
     LookUpTyped, LandTyped, EnvironmentTyped DEF Next, Handle
<1> QED
  BY <1>1, <1>2

(***************************************************************************)
(* Type correctness: whatever the requests, the failures and the operators *)
(* do, a handler never holds a row that is not there, never signs for one, *)
(* and never answers anything but a well-formed answer.                    *)
(***************************************************************************)
THEOREM TypeCorrect == Spec => []TypeOK
<1>1. Typed => TypeOK
  BY DEF Typed
<1> QED
  BY InitTyped, NextTyped, <1>1, PTL DEF Spec

----------------------------------------------------------------------------
(* One account per name and per address.                                   *)

LEMMA InsertUnique ==
  ASSUME DbTypeOK, UniqueAccounts, NEW r \in Req, req[r] \in RegisterRequest,
         Storable(r), InsertUser(r, RegisteredRow(r))
  PROVE  UniqueAccounts'
<1> DEFINE row == RegisteredRow(r)
<1>1. row.username = req[r].username /\ row.email = req[r].email
  BY DEF RegisteredRow, NewRow
<1>2. \A u \in Stored(users) : users[u].username # row.username /\ users[u].email # row.email
  BY <1>1 DEF Storable, ViolatesUnique, FindByUsername, FindByEmail
<1> HIDE DEF row
<1>3. users' = [users EXCEPT ![r] = row] /\ r \in UserId
  BY AuthAssumption DEF InsertUser, row
<1>4. \A u \in Stored(users)' : u # r => u \in Stored(users) /\ users'[u] = users[u]
  BY <1>3 DEF Stored, DbTypeOK
<1>5. users'[r] = row
  BY <1>3 DEF DbTypeOK
<1> QED
  BY <1>2, <1>4, <1>5 DEF UniqueAccounts

LEMMA NextUnique == Typed /\ UniqueAccounts /\ [Next]_vars => UniqueAccounts'
<1> SUFFICES ASSUME Typed, UniqueAccounts, [Next]_vars
             PROVE  UniqueAccounts'
  OBVIOUS
<1>0. TypeOK /\ DbTypeOK
  BY DEF Typed, TypeOK
<1>1. CASE UNCHANGED users
  BY <1>1 DEF UniqueAccounts, Stored
<1>2. ASSUME NEW r \in Req, pc[r] = "register.createUser" \/ r \in adrift, Storable(r),
             InsertUser(r, RegisteredRow(r))
      PROVE  UniqueAccounts'
  BY <1>0, <1>2, InsertUnique DEF Typed, RequestOK, RegisterCalls
<1>3. CASE Edit
  BY <1>0, <1>3, AdministerSafe DEF Edit
<1>4. ASSUME NEW r \in Req, Arrival(r)
      PROVE  UNCHANGED users
  BY <1>4 DEF Arrival, ArriveRegister, ArriveLogin, ArriveRefresh, ArriveMe, Arrive, db
<1>5. ASSUME NEW r \in Req, Handle(r), ~RegisterCreateUser(r)
      PROVE  UNCHANGED users
  BY <1>5 DEF Handle, Register, Login, Refresh, RegisterFindByUsername, RegisterFindByEmail,
     RegisterFindRoleByName, RegisterGenerateTokens, RegisterSendWelcomeEmail,
     LoginFindByUsername, LoginVerifyPassword, LoginFindByIdWithRoles,
     RefreshFindByIdWithRoles, RefreshGenerateTokens, MeFindByIdWithRoles,
     LookUp, FindUser, FindUserRoles, RoleIsLost, Reads, db
<1>6. ASSUME NEW r \in Req, RegisterCreateUser(r)
      PROVE  UniqueAccounts'
  BY <1>1, <1>2, <1>6 DEF RegisterCreateUser, db
<1>7. ASSUME NEW r \in Req, DbFails(r) \/ Land(r)
      PROVE  UniqueAccounts'
  BY <1>1, <1>2, <1>7 DEF DbFails, Land, db
<1>8. Crash \/ Tick \/ UNCHANGED vars => UNCHANGED users
  BY DEF Crash, Tick, vars, db
<1> QED
  BY <1>1, <1>3, <1>4, <1>5, <1>6, <1>7, <1>8 DEF Next

(***************************************************************************)
(* No two accounts share a username or an e-mail address, however many     *)
(* registrations pass the look-ups of register together: the constraints   *)
(* on the table hold whatever the handlers do, and no handler or operator  *)
(* writes a row past them.                                                 *)
(***************************************************************************)
THEOREM AccountsStayUnique == Spec => []UniqueAccounts
<1>1. Init => UniqueAccounts
  BY AuthAssumption DEF Init, UniqueAccounts, Stored, Seeded
<1> QED
  BY InitTyped, NextTyped, <1>1, NextUnique, PTL DEF Spec

----------------------------------------------------------------------------
(* Sessions.  What makes SessionsWarranted inductive: while a request is   *)
(* in flight its history holds every stored row, so what a SELECT returns  *)
(* is in the history and stays there when the table moves on; and between  *)
(* the look-up and the signature the handler holds nothing else.  The row  *)
(* and the roles of a look-up are each in the history, seldom together.    *)

Glimpsed(r, half) ==
  /\ \E s \in seen[r] : s.id = half.id /\ Roleless(s.row) = Roleless(half.row)
  /\ half.row.roles # {} => \E s \in seen[r] : s.id = half.id /\ s.row.roles = half.row.roles

Named(r, half) ==
  /\ pc[r] \in {"register.findByUsername", "login.findByUsername"} =>
       half.row.username = req[r].username
  /\ pc[r] = "register.findByEmail" => half.row.email = req[r].email

FoundWarranted(r) == found[r] # None => Glimpsed(r, found[r]) /\ Named(r, found[r])

RowWarranted(r) ==
  /\ Glimpsed(r, read[r])
  /\ read[r].row.isActive
  /\ req[r].op = "login" => read[r].row.username = req[r].username

PairWarranted(r) ==
  pair[r] # None =>
    /\ \E s \in seen[r] :
         /\ s.id = pair[r].access.userId /\ s.id = pair[r].refresh.userId
         /\ s.row.isActive
         /\ req[r].op = "login" =>
              s.row.username = req[r].username /\ s.row.password = Hash(req[r].password)
    /\ pair[r].access.roles = pair[r].refresh.roles
    /\ pair[r].access.roles # {} =>
         \E s \in seen[r] :
           s.id = pair[r].access.userId /\ s.row.roles = pair[r].access.roles

RequestWarranted(r) ==
  /\ pc[r] = "new" => pair[r] = None
  /\ pc[r] \in Calls => Rows(users) \subseteq seen[r] /\ FoundWarranted(r)
  /\ pc[r] \in Holding => RowWarranted(r)
  /\ PairWarranted(r)

Warranted == \A r \in Req : RequestWarranted(r)

(***************************************************************************)
(* A request whose handler does not move, or only ends, keeps its warrant, *)
(* as its history only grows.                                              *)
(***************************************************************************)
LEMMA KeepsWarrant ==
  ASSUME NEW q \in Req, RequestWarranted(q),
         pc'[q] = pc[q] \/ pc'[q] \in {"done", "lost"},
         found'[q] = found[q] \/ pc'[q] \in {"done", "lost"},
         read'[q] = read[q] \/ pc'[q] = "done", pair'[q] = pair[q], req'[q] = req[q],
         seen[q] \subseteq seen'[q],
         pc[q] \in Calls => Rows(users') \subseteq seen'[q]
  PROVE  RequestWarranted(q)'
<1> USE DEF Calls, RegisterCalls, LoginCalls, RefreshCalls, MeCalls, Holding
<1>1. PairWarranted(q)'
  BY DEF RequestWarranted, PairWarranted
<1>2. pc'[q] \in Holding => RowWarranted(q)'
  BY DEF RequestWarranted, RowWarranted, Glimpsed
<1>3. pc'[q] \in Calls => Rows(users') \subseteq seen'[q]
  OBVIOUS
<1>4. pc'[q] \in Calls => FoundWarranted(q)'
  BY DEF RequestWarranted, FoundWarranted, Glimpsed, Named
<1> QED
  BY <1>1, <1>2, <1>3, <1>4 DEF RequestWarranted

(***************************************************************************)
(* The tokens signed from the row a handler holds are warranted by it.     *)
(***************************************************************************)
LEMMA SignedWarranted ==
  ASSUME TypeOK, NEW r \in Req, read[r] \in Snapshot, RowWarranted(r), seen' = seen, req' = req,
         req[r].op = "login" => PasswordValid(r),
         pair' = [pair EXCEPT ![r] = GenerateTokens(read[r].id, read[r].row.roles, now)]
  PROVE  PairWarranted(r)'
<1>1. pair'[r] = GenerateTokens(read[r].id, read[r].row.roles, now)
  BY DEF TypeOK
<1>2. /\ read[r].id = pair'[r].access.userId /\ read[r].id = pair'[r].refresh.userId
      /\ read[r].row.roles = pair'[r].access.roles /\ read[r].row.roles = pair'[r].refresh.roles
  BY <1>1 DEF GenerateTokens, Sign
<1>3. PICK s \in seen[r] : s.id = read[r].id /\ Roleless(s.row) = Roleless(read[r].row)
  BY DEF RowWarranted, Glimpsed
<1>4. s.row \in UserRow /\ read[r].row \in UserRow
  BY DEF TypeOK, Snapshot
<1>5. /\ s.row.isActive = read[r].row.isActive /\ s.row.username = read[r].row.username
      /\ s.row.password = read[r].row.password
  BY <1>3, <1>4, RolelessFacts
<1>6. pair'[r].access.roles # {} =>
        \E t \in seen[r] : t.id = pair'[r].access.userId /\ t.row.roles = pair'[r].access.roles
  BY <1>2 DEF RowWarranted, Glimpsed
<1> QED
  BY <1>2, <1>3, <1>5, <1>6 DEF PairWarranted, RowWarranted, PasswordValid

LEMMA WitnessWindow ==
  ASSUME TypeOK, Witness, NEW q \in Req
  PROVE  /\ seen[q] \subseteq seen'[q]
         /\ pc[q] \in Calls => Rows(users') \subseteq seen'[q]
  BY DEF TypeOK, Witness, InFlight

(***************************************************************************)
(* A step that only reads the database.                                    *)
(***************************************************************************)
LEMMA ReadsWarranted ==
  ASSUME Typed, Warranted, NEW r \in Req, Reads, RequestWarranted(r)',
         \A q \in Req : q # r => /\ pc'[q] = pc[q] /\ found'[q] = found[q]
                                /\ read'[q] = read[q] /\ pair'[q] = pair[q]
  PROVE  Warranted'
<1>1. users' = users /\ seen' = seen /\ req' = req
  BY DEF Reads, db
<1>2. \A q \in Req : q # r => RequestWarranted(q)'
  BY <1>1, KeepsWarrant DEF Warranted, RequestWarranted
<1> QED
  BY <1>2 DEF Warranted

LEMMA ThrowWarranted ==
  ASSUME Typed, Warranted, NEW r \in Req, Reads, NEW a, Finish(r, a), UNCHANGED pair,
         \A q \in Req : q # r => found'[q] = found[q] /\ read'[q] = read[q]
  PROVE  Warranted'
<1>1. users' = users /\ seen' = seen /\ req' = req
  BY DEF Reads, db
<1>2. pc'[r] = "done" /\ \A q \in Req : q # r => pc'[q] = pc[q]
  BY DEF Typed, TypeOK, Finish
<1>3. RequestWarranted(r)'
  BY <1>1, <1>2, KeepsWarrant DEF Warranted, RequestWarranted
<1> QED
  BY <1>2, <1>3, ReadsWarranted

(***************************************************************************)
(* A handler that goes on to the next call with the row it holds, if any.  *)
(***************************************************************************)
LEMMA AwaitWarranted ==
  ASSUME Typed, Warranted, NEW r \in Req, Reads, NEW call \in Calls, Await(r, call),
         pc[r] \in Calls, UNCHANGED pair, Emptied(r),
         \A q \in Req : q # r => read'[q] = read[q],
         call \in Holding => RowWarranted(r)'
  PROVE  Warranted'
<1> USE DEF Calls, RegisterCalls, LoginCalls, RefreshCalls, MeCalls
<1>1. users' = users /\ seen' = seen /\ req' = req
  BY DEF Reads, db
<1>2. pc'[r] = call /\ \A q \in Req : q # r => pc'[q] = pc[q]
  BY DEF Typed, TypeOK, Await
<1>3. PairWarranted(r)'
  BY <1>1 DEF Warranted, RequestWarranted, PairWarranted
<1>4. RequestWarranted(r)'
  BY <1>1, <1>2, <1>3 DEF Warranted, RequestWarranted, FoundWarranted, Emptied
<1> QED
  BY <1>2, <1>4, ReadsWarranted DEF Emptied

(***************************************************************************)
(* What a SELECT returns is in the history of the request.                 *)
(***************************************************************************)
LEMMA LookUpWarranted ==
  ASSUME Typed, Warranted, NEW r \in Req, LookUp(r)
  PROVE  Warranted'
<1> USE DEF Calls, RegisterCalls, LoginCalls, RefreshCalls, MeCalls
<1>0. TypeOK /\ RequestWarranted(r)
  BY DEF Typed, Warranted
<1>1. ASSUME FindUser(r) \/ FindUserRoles(r), Glimpsed(r, found'[r]), Named(r, found'[r])
      PROVE  Warranted'
  <2>1. /\ Reads /\ UNCHANGED <<pc, read, pair>> /\ pc[r] \in Calls
        /\ UNCHANGED <<users, seen, req>>
    BY <1>1 DEF FindUser, FindUserRoles, LookUps, DbCalls, Reads, db
  <2>2. \A q \in Req : q # r => found'[q] = found[q]
    BY <1>0, <1>1, FindUserStep, FindUserRolesStep
  <2>3. FoundWarranted(r)' /\ PairWarranted(r)' /\ (RowWarranted(r) => RowWarranted(r)')
    BY <1>0, <1>1, <2>1
       DEF FoundWarranted, Glimpsed, Named, RequestWarranted, PairWarranted, RowWarranted
  <2>4. RequestWarranted(r)'
    BY <1>0, <2>1, <2>3 DEF RequestWarranted
  <2> QED
    BY <2>1, <2>2, <2>4, ReadsWarranted
<1>2. CASE FindUser(r)
  <2>1. PICK u \in UserId :
          u \in Matching(r) /\ users[u] \in UserRow /\ users[u] # NoUser /\ found'[r] = SelectUser(u)
    BY <1>0, <1>2, FindUserStep
  <2>2. [id |-> u, row |-> users[u]] \in seen[r]
    BY <1>0, <1>2, <2>1 DEF FindUser, LookUps, DbCalls, RequestWarranted, Rows, Stored
  <2>3. found'[r].id = u /\ found'[r].row = Roleless(users[u])
    BY <2>1 DEF SelectUser
  <2>4. found'[r].row.roles = {} /\ Roleless(found'[r].row) = Roleless(users[u])
    BY <2>1, <2>3, RolelessFacts
  <2>5. Glimpsed(r, found'[r])
    BY <2>2, <2>3, <2>4 DEF Glimpsed
  <2>6. Named(r, found'[r])
    <3>1. /\ found'[r].row.username = users[u].username
          /\ found'[r].row.email = users[u].email
      BY <2>1, <2>3, RolelessFacts
    <3>2. pc[r] \in {"register.findByUsername", "login.findByUsername"} =>
            users[u].username = req[r].username
      BY <2>1 DEF Matching, FindByUsername
    <3>3. pc[r] = "register.findByEmail" => users[u].email = req[r].email
      BY <2>1 DEF Matching, FindByEmail
    <3> QED
      BY <3>1, <3>2, <3>3 DEF Named
  <2> QED
    BY <1>1, <1>2, <2>5, <2>6
<1>3. CASE FindUserRoles(r)
  <2>0. found[r] # None /\ pc[r] \in Calls
    BY <1>3 DEF FindUserRoles, LookUps, DbCalls
  <2>1. /\ found[r] \in Partial /\ found'[r].id = found[r].id /\ found'[r].row \in UserRow
        /\ Roleless(found'[r].row) = Roleless(found[r].row)
        /\ found'[r].row.roles = RolesOf(found[r].id)
    BY <1>0, <1>3, FindUserRolesStep
  <2>2. found[r].id \in UserId /\ found[r].row \in UserRow
    BY <2>1 DEF Partial
  <2>3. found'[r].row.roles # {} =>
          \E s \in seen[r] : s.id = found'[r].id /\ s.row.roles = found'[r].row.roles
    <3>1. ASSUME users[found[r].id] # NoUser
          PROVE  [id |-> found[r].id, row |-> users[found[r].id]] \in seen[r]
      BY <1>0, <2>0, <2>2, <3>1 DEF RequestWarranted, Rows, Stored
    <3> QED
      BY <2>1, <3>1 DEF RolesOf
  <2>4. Glimpsed(r, found'[r])
    BY <1>0, <2>0, <2>1, <2>3 DEF RequestWarranted, FoundWarranted, Glimpsed
  <2>5. /\ found'[r].row.username = found[r].row.username
        /\ found'[r].row.email = found[r].row.email
    BY <2>1, <2>2, RolelessFacts
  <2> QED
    BY <1>0, <1>1, <1>3, <2>0, <2>4, <2>5 DEF RequestWarranted, FoundWarranted, Named
<1>4. CASE RoleIsLost(r)
  <2>1. /\ Reads /\ UNCHANGED <<read, pair>> /\ \E a \in AnswerSet : Finish(r, a)
        /\ Emptied(r)
    BY <1>4, Empties, RejectType DEF RoleIsLost
  <2> QED
    BY <2>1, ThrowWarranted DEF Emptied
<1> QED
  BY <1>2, <1>3, <1>4 DEF LookUp

(***************************************************************************)
(* A handler that holds what its look-up returned.                         *)
(***************************************************************************)
LEMMA AccountWarranted ==
  ASSUME Typed, Warranted, NEW r \in Req, pc[r] \in Calls, Reads, found[r] # None,
         found[r].row.isActive,
         req[r].op = "login" => pc[r] = "login.findByUsername",
         read' = [read EXCEPT ![r] = Account(found[r])]
  PROVE  RowWarranted(r)' /\ \A q \in Req : q # r => read'[q] = read[q]
<1>1. seen' = seen /\ req' = req
  BY DEF Reads
<1>2. FoundWarranted(r)
  BY DEF Warranted, RequestWarranted
<1>3. read'[r] = Account(found[r]) /\ \A q \in Req : q # r => read'[q] = read[q]
  BY AccountType DEF Typed
<1>4. read'[r].id = found[r].id /\ read'[r].row = found[r].row
  BY <1>3 DEF Account
<1> QED
  BY <1>1, <1>2, <1>3, <1>4 DEF RowWarranted, FoundWarranted, Glimpsed, Named

LEMMA ArrivalWarranted ==
  ASSUME Typed, Warranted, NEW r \in Req, Arrival(r)
  PROVE  Warranted'
<1> USE DEF Calls, RegisterCalls, LoginCalls, RefreshCalls, MeCalls, Holding
<1>1. PICK request : Arrive(r, request)
  BY DEF Arrival, ArriveRegister, ArriveLogin, ArriveRefresh, ArriveMe
<1>2. /\ pc'[r] \in {"register.findByUsername", "login.findByUsername",
                     "refresh.findByIdWithRoles", "me.findByIdWithRoles", "done"}
      /\ \A q \in Req : q # r => pc'[q] = pc[q]
  BY DEF Arrival, ArriveRegister, ArriveLogin, ArriveRefresh, ArriveMe, Await, Throw, Finish,
         Typed, TypeOK
<1>3. /\ pair[r] = None /\ pair' = pair /\ read' = read /\ users' = users /\ found' = found
      /\ seen'[r] = Rows(users)
      /\ \A q \in Req : q # r => seen'[q] = seen[q] /\ req'[q] = req[q]
  BY <1>1 DEF Arrive, Warranted, RequestWarranted, Typed, TypeOK, locals, db
<1>4. found[r] = None
  BY <1>1 DEF Arrive, Typed, RequestOK, LookUps, DbCalls
<1>5. RequestWarranted(r)'
  BY <1>2, <1>3, <1>4 DEF RequestWarranted, PairWarranted, FoundWarranted
<1>6. \A q \in Req : q # r => RequestWarranted(q)'
  BY <1>2, <1>3, KeepsWarrant DEF Warranted, RequestWarranted
<1> QED
  BY <1>5, <1>6 DEF Warranted

LEMMA RegisterWarranted ==
  ASSUME Typed, Warranted, NEW r \in Req, Register(r)
  PROVE  Warranted'
<1> USE DEF Calls, RegisterCalls, LoginCalls, RefreshCalls, MeCalls, Holding
<1>0. TypeOK /\ RequestOK(r) /\ RequestWarranted(r)
  BY DEF Typed, Warranted
<1>1. CASE RegisterFindByUsername(r)
  <2>1. Reads /\ UNCHANGED <<read, pair>> /\ pc[r] \in Calls /\ Emptied(r)
    BY <1>1, Empties DEF RegisterFindByUsername
  <2> QED
    BY <1>1, <2>1, ThrowWarranted, AwaitWarranted DEF RegisterFindByUsername, Throw, Emptied
<1>2. CASE RegisterFindByEmail(r)
  <2>1. Reads /\ UNCHANGED <<read, pair>> /\ pc[r] \in Calls /\ Emptied(r)
    BY <1>2, Empties DEF RegisterFindByEmail
  <2> QED
    BY <1>2, <2>1, ThrowWarranted, AwaitWarranted DEF RegisterFindByEmail, Throw, Emptied
<1>3. CASE RegisterFindRoleByName(r)
  <2>1. Reads /\ UNCHANGED <<read, pair>> /\ pc[r] \in Calls /\ Emptied(r)
    BY <1>3, Empties DEF RegisterFindRoleByName, LookUps
  <2> QED
    BY <1>3, <2>1, ThrowWarranted, AwaitWarranted DEF RegisterFindRoleByName, Throw, Emptied
<1>4. CASE RegisterCreateUser(r)
  <2>1. /\ Witness /\ UNCHANGED <<req, found, pair>> /\ pc[r] \in Calls
        /\ req[r] \in RegisterRequest /\ found[r] = None
    BY <1>0, <1>4 DEF RegisterCreateUser, RequestOK, LookUps, DbCalls
  <2>2. \A q \in Req : q # r => pc'[q] = pc[q] /\ read'[q] = read[q]
    BY <1>0, <1>4 DEF RegisterCreateUser, Await, Throw, Finish, TypeOK
  <2>3. \A q \in Req : q # r => RequestWarranted(q)'
    BY <1>0, <2>1, <2>2, WitnessWindow, KeepsWarrant DEF Warranted
  <2>4. ASSUME InsertUser(r, RegisteredRow(r)), Await(r, "register.generateTokens"),
               read' = [read EXCEPT ![r] = [id |-> r, row |-> RegisteredRow(r)]]
        PROVE  RequestWarranted(r)'
    <3>1. /\ read'[r] = [id |-> r, row |-> RegisteredRow(r)]
          /\ pc'[r] = "register.generateTokens"
      BY <1>0, <2>4 DEF TypeOK, Await
    <3>2. users'[r] = RegisteredRow(r) /\ RegisteredRow(r) # NoUser /\ r \in UserId
      BY <1>0, <2>1, <2>4, RegisteredRowType, NoUserAssumption, AuthAssumption
         DEF TypeOK, DbTypeOK, InsertUser
    <3>3. read'[r] \in Rows(users')
      BY <3>1, <3>2 DEF Rows, Stored
    <3>4. read'[r] \in seen'[r] /\ Rows(users') \subseteq seen'[r] /\ seen[r] \subseteq seen'[r]
      BY <1>0, <2>1, <3>3, WitnessWindow
    <3>5. read'[r].row.isActive
      BY <3>1 DEF RegisteredRow, NewRow
    <3>6. req'[r].op # "login"
      BY <2>1 DEF RegisterRequest
    <3>7. PairWarranted(r)'
      BY <1>0, <2>1, <3>4 DEF RequestWarranted, PairWarranted
    <3>8. Glimpsed(r, read[r])'
      BY <3>4 DEF Glimpsed
    <3>9. FoundWarranted(r)'
      BY <2>1 DEF FoundWarranted
    <3> QED
      BY <3>1, <3>4, <3>5, <3>6, <3>7, <3>8, <3>9 DEF RequestWarranted, RowWarranted
  <2>5. ASSUME Throw(r, Rejection(r)), UNCHANGED read
        PROVE  RequestWarranted(r)'
    <3>1. pc'[r] = "done"
      BY <1>0, <2>5 DEF Throw, Finish, TypeOK
    <3> QED
      BY <1>0, <2>1, <2>5, <3>1, WitnessWindow, KeepsWarrant
  <2> QED
    BY <1>4, <2>3, <2>4, <2>5 DEF RegisterCreateUser, Warranted
<1>5. CASE RegisterGenerateTokens(r)
  <2>1. /\ Reads /\ UNCHANGED <<found, read>> /\ UNCHANGED <<users, req, seen>>
        /\ found[r] = None /\ read[r] \in Snapshot
    BY <1>0, <1>5 DEF RegisterGenerateTokens, RequestOK, LookUps, DbCalls, Reads, db
  <2>2. RowWarranted(r) /\ Rows(users) \subseteq seen[r] /\ req[r].op # "login"
    BY <1>0, <1>5 DEF RegisterGenerateTokens, RequestWarranted, RequestOK, RegisterRequest
  <2>3. PairWarranted(r)'
    BY <1>0, <1>5, <2>1, <2>2, SignedWarranted DEF RegisterGenerateTokens
  <2>4. RowWarranted(r)' /\ Rows(users') \subseteq seen'[r] /\ FoundWarranted(r)'
    BY <2>1, <2>2 DEF RowWarranted, Glimpsed, FoundWarranted
  <2>5. /\ pc'[r] = "register.sendWelcomeEmail"
        /\ \A q \in Req : q # r => pc'[q] = pc[q] /\ pair'[q] = pair[q]
    BY <1>0, <1>5 DEF RegisterGenerateTokens, TypeOK, Await
  <2>6. RequestWarranted(r)'
    BY <2>3, <2>4, <2>5 DEF RequestWarranted
  <2> QED
    BY <2>1, <2>5, <2>6, ReadsWarranted
<1>6. CASE RegisterSendWelcomeEmail(r)
  <2>1. UNCHANGED <<users, req, found, read, pair, seen>>
    BY <1>6 DEF RegisterSendWelcomeEmail, db
  <2>2. \A q \in Req : pc'[q] = pc[q] \/ pc'[q] = "done"
    BY <1>0, <1>6 DEF RegisterSendWelcomeEmail, Return, Throw, Finish, TypeOK
  <2> QED
    BY <2>1, <2>2, KeepsWarrant DEF Warranted, RequestWarranted
<1> QED
  BY <1>1, <1>2, <1>3, <1>4, <1>5, <1>6 DEF Register

LEMMA LoginWarranted ==
  ASSUME Typed, Warranted, NEW r \in Req, Login(r)
  PROVE  Warranted'
<1> USE DEF Calls, RegisterCalls, LoginCalls, RefreshCalls, MeCalls, Holding
<1>0. TypeOK /\ RequestOK(r) /\ RequestWarranted(r)
  BY DEF Typed, Warranted
<1>1. CASE LoginFindByUsername(r)
  <2>1. Reads /\ UNCHANGED pair /\ pc[r] \in Calls /\ Emptied(r) /\ pc[r] = "login.findByUsername"
    BY <1>1, Empties DEF LoginFindByUsername
  <2>2. ASSUME found[r] # None, found[r].row.isActive,
               read' = [read EXCEPT ![r] = Account(found[r])], Await(r, "login.verifyPassword")
        PROVE  Warranted'
    BY <2>1, <2>2, AccountWarranted, AwaitWarranted
  <2>3. ASSUME Throw(r, UnauthorizedError("INVALID_CREDENTIALS")), UNCHANGED read
        PROVE  Warranted'
    BY <2>1, <2>3, ThrowWarranted DEF Throw, Emptied
  <2> QED
    BY <1>1, <2>2, <2>3 DEF LoginFindByUsername
<1>2. CASE LoginVerifyPassword(r)
  <2>1. /\ Reads /\ UNCHANGED <<found, read>> /\ RowWarranted(r) /\ UNCHANGED <<seen, req, users>>
        /\ found[r] = None /\ read[r] \in Snapshot
    BY <1>0, <1>2 DEF LoginVerifyPassword, RequestWarranted, RequestOK, LookUps, DbCalls, Reads, db
  <2>2. ASSUME PasswordValid(r), Await(r, "login.findByIdWithRoles"),
               pair' = [pair EXCEPT ![r] = GenerateTokens(read[r].id, read[r].row.roles, now)]
        PROVE  Warranted'
    <3>1. /\ pc'[r] = "login.findByIdWithRoles"
          /\ \A q \in Req : q # r => pc'[q] = pc[q] /\ pair'[q] = pair[q]
      BY <1>0, <2>2 DEF TypeOK, Await
    <3>2. PairWarranted(r)'
      BY <1>0, <2>1, <2>2, SignedWarranted
    <3>3. Rows(users') \subseteq seen'[r] /\ RowWarranted(r)' /\ FoundWarranted(r)'
      BY <1>0, <1>2, <2>1 DEF LoginVerifyPassword, RequestWarranted, RowWarranted, Glimpsed,
                              FoundWarranted
    <3>4. RequestWarranted(r)'
      BY <3>1, <3>2, <3>3 DEF RequestWarranted
    <3> QED
      BY <2>1, <3>1, <3>4, ReadsWarranted
  <2>3. ASSUME Throw(r, UnauthorizedError("INVALID_CREDENTIALS")), UNCHANGED pair
        PROVE  Warranted'
    BY <2>1, <2>3, ThrowWarranted DEF Throw
  <2> QED
    BY <1>2, <2>2, <2>3 DEF LoginVerifyPassword
<1>3. CASE LoginFindByIdWithRoles(r)
  <2>1. Reads /\ UNCHANGED <<read, pair>> /\ Emptied(r) /\ \E a : Finish(r, a)
    BY <1>3, Empties DEF LoginFindByIdWithRoles, Throw, Return
  <2> QED
    BY <2>1, ThrowWarranted DEF Emptied
<1> QED
  BY <1>1, <1>2, <1>3 DEF Login

LEMMA RefreshWarranted ==
  ASSUME Typed, Warranted, NEW r \in Req, Refresh(r)
  PROVE  Warranted'
<1> USE DEF Calls, RegisterCalls, LoginCalls, RefreshCalls, MeCalls, Holding
<1>0. TypeOK /\ RequestOK(r) /\ RequestWarranted(r)
  BY DEF Typed, Warranted
<1>1. CASE RefreshFindByIdWithRoles(r)
  <2>1. /\ Reads /\ UNCHANGED pair /\ pc[r] \in Calls /\ Emptied(r)
        /\ req[r] \in RefreshRequest /\ req[r].op # "login"
    BY <1>0, <1>1, Empties DEF RefreshFindByIdWithRoles, RequestOK, RefreshRequest
  <2>2. ASSUME Refreshable(found[r]), Await(r, "refresh.generateTokens"),
               read' = [read EXCEPT ![r] = Account(found[r])]
        PROVE  Warranted'
    BY <2>1, <2>2, AccountWarranted, AwaitWarranted DEF Refreshable
  <2>3. ASSUME Throw(r, RefreshCatch(UnauthorizedError("INVALID_CREDENTIALS"))), UNCHANGED read
        PROVE  Warranted'
    BY <2>1, <2>3, ThrowWarranted DEF Throw, Emptied
  <2> QED
    BY <1>1, <2>2, <2>3 DEF RefreshFindByIdWithRoles
<1>2. CASE RefreshGenerateTokens(r)
  <2>1. Reads /\ UNCHANGED <<found, read>> /\ UNCHANGED <<seen, req>> /\ read[r] \in Snapshot
    BY <1>0, <1>2 DEF RefreshGenerateTokens, Reads, RequestOK
  <2>2. RowWarranted(r) /\ req[r].op # "login"
    BY <1>0, <1>2 DEF RefreshGenerateTokens, RequestWarranted, RequestOK, RefreshRequest
  <2>3. pc'[r] = "done" /\ \A q \in Req : q # r => pc'[q] = pc[q] /\ pair'[q] = pair[q]
    BY <1>0, <1>2 DEF RefreshGenerateTokens, Return, Finish, TypeOK
  <2>4. PairWarranted(r)'
    BY <1>0, <1>2, <2>1, <2>2, SignedWarranted DEF RefreshGenerateTokens
  <2>5. RequestWarranted(r)'
    BY <2>3, <2>4 DEF RequestWarranted
  <2> QED
    BY <2>1, <2>3, <2>5, ReadsWarranted
<1> QED
  BY <1>1, <1>2 DEF Refresh

LEMMA MeWarranted ==
  ASSUME Typed, Warranted, NEW r \in Req, MeFindByIdWithRoles(r)
  PROVE  Warranted'
<1>1. /\ Reads /\ UNCHANGED pair /\ Emptied(r)
      /\ \A q \in Req : q # r => read'[q] = read[q]
  BY Empties DEF MeFindByIdWithRoles, Typed, TypeOK
<1>2. \E a : Finish(r, a)
  BY DEF MeFindByIdWithRoles, Throw, Return
<1> QED
  BY <1>1, <1>2, ThrowWarranted DEF Emptied

LEMMA EnvironmentWarranted ==
  ASSUME Typed, Warranted, Crash \/ Edit \/ Tick \/ \E r \in Req : DbFails(r) \/ Land(r)
  PROVE  Warranted'
<1> USE DEF Calls, RegisterCalls, LoginCalls, RefreshCalls, MeCalls, Holding
<1>0. TypeOK
  BY DEF Typed
<1>1. CASE Crash
  <2>1. \A q \in Req : pc'[q] = pc[q] \/ pc'[q] = "lost"
    BY <1>1 DEF Crash
  <2>2. UNCHANGED <<users, found, read, pair, req, seen>>
    BY <1>1 DEF Crash, db, locals
  <2> QED
    BY <2>1, <2>2, KeepsWarrant DEF Warranted, RequestWarranted
<1>2. CASE Edit
  BY <1>0, <1>2, WitnessWindow, KeepsWarrant DEF Edit, Warranted, locals
<1>3. CASE Tick
  BY <1>3, KeepsWarrant DEF Tick, Warranted, RequestWarranted, db, locals
<1>4. ASSUME NEW r \in Req, DbFails(r)
      PROVE  Warranted'
  <2>1. Witness /\ UNCHANGED <<req, read, pair>> /\ Emptied(r)
    BY <1>4, Empties DEF DbFails, locals
  <2>2. pc'[r] = "done" /\ \A q \in Req : q # r => pc'[q] = pc[q]
    BY <1>0, <1>4 DEF DbFails, Reject, Throw, Finish, TypeOK
  <2> QED
    BY <1>0, <2>1, <2>2, WitnessWindow, KeepsWarrant DEF Warranted, Emptied
<1>5. ASSUME NEW r \in Req, Land(r)
      PROVE  Warranted'
  BY <1>0, <1>5, WitnessWindow, KeepsWarrant DEF Land, Warranted, locals
<1> QED
  BY <1>1, <1>2, <1>3, <1>4, <1>5

LEMMA InitWarranted == Init => Warranted
  BY DEF Init, Warranted, RequestWarranted, PairWarranted, Calls, RegisterCalls, LoginCalls,
         RefreshCalls, MeCalls, Holding

LEMMA NextWarranted == Typed /\ Warranted /\ [Next]_vars => Warranted'
<1> SUFFICES ASSUME Typed, Warranted, [Next]_vars
             PROVE  Warranted'
  OBVIOUS
<1>1. CASE UNCHANGED vars
  BY <1>1 DEF Warranted, RequestWarranted, FoundWarranted, PairWarranted, RowWarranted, Glimpsed,
              Named, vars
<1>2. CASE Next
  BY <1>2, ArrivalWarranted, RegisterWarranted, LoginWarranted, RefreshWarranted, MeWarranted,
     LookUpWarranted, EnvironmentWarranted DEF Next, Handle
<1> QED
  BY <1>1, <1>2

(***************************************************************************)
(* Sessions are warranted: tokens are only ever signed for an account that *)
(* was active, and for a login had the name and the password that were     *)
(* given, at one moment since the request arrived, with no roles or the    *)
(* ones it had at one moment since then, whatever happens to the account   *)
(* between the SELECTs of a look-up and between the awaits of the handler. *)
(***************************************************************************)
THEOREM SessionsStayWarranted == Spec => []SessionsWarranted
<1>1. Warranted => SessionsWarranted
  BY DEF Warranted, RequestWarranted, PairWarranted, SessionsWarranted
<1> QED
  BY InitTyped, NextTyped, InitWarranted, NextWarranted, <1>1, PTL DEF Spec
=============================================================================
