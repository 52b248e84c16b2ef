---------------------------- MODULE HistoryProofs ----------------------------
(***************************************************************************)
(* Theorems about the histories that Refusals and Leases add to Auth, for  *)
(* every set of requests, accounts and names: nobody is refused whose      *)
(* account was there all the time, and nobody is let in for longer than a  *)
(* token lives after the account was last active.                          *)
(***************************************************************************)
EXTENDS Refusals, Leases, AnswerProofs

----------------------------------------------------------------------------
(* The answers.                                                            *)

LEMMA StatusOfAnswers ==
  /\ OkAnswer.statusCode = 200
  /\ \A code : /\ ErrorMiddleware(UnauthorizedError(code)).statusCode = 401
                /\ ErrorMiddleware(UnauthorizedError(code)).code = code
  /\ \A e \in DbErrors : ErrorMiddleware(e).statusCode # 401
<1> USE DEF ErrorMiddleware, OkAnswer, AnswerOf, Answer, AppError, AppErrorWith
<1>1. OkAnswer.statusCode = 200
  OBVIOUS
<1>2. ASSUME NEW code
      PROVE  /\ ErrorMiddleware(UnauthorizedError(code)).statusCode = 401
             /\ ErrorMiddleware(UnauthorizedError(code)).code = code
  BY DEF UnauthorizedError
<1> USE DEF IsPrismaError, HandlePrismaError, IsKnownRequestError, KnownRequestCodes,
            HandleKnownPrismaError, CodedError, IsPrismaValidationError, ValidationError
<1>3. ErrorMiddleware(CodedError("PrismaClientKnownRequestError", "P1001", "invalid")).statusCode # 401
  OBVIOUS
<1>4. ErrorMiddleware(CodedError("PrismaClientKnownRequestError", "P2024", "invalid")).statusCode # 401
  BY DEF InternalServerError
<1> HIDE DEF ErrorMiddleware, OkAnswer, AnswerOf, Answer, AppError, AppErrorWith, IsPrismaError,
             HandlePrismaError, IsKnownRequestError, KnownRequestCodes, HandleKnownPrismaError,
             CodedError, IsPrismaValidationError, ValidationError
<1> QED
  BY <1>1, <1>2, <1>3, <1>4 DEF DbErrors

LEMMA RefreshCatchStatus ==
  ASSUME NEW e, e.app = FALSE
  PROVE  /\ ErrorMiddleware(RefreshCatch(e)).statusCode = 401
         /\ ErrorMiddleware(RefreshCatch(e)).code # "INVALID_CREDENTIALS"
<1>1. RefreshCatch(e) = UnauthorizedError("INVALID_TOKEN")
  BY DEF RefreshCatch
<1> QED
  BY <1>1, StatusOfAnswers

----------------------------------------------------------------------------
(* The clock and the count of failures only grow.                          *)

BoundsGrow ==
  /\ now \in Nat /\ now' \in Nat /\ now <= now'
  /\ faults \in Nat /\ faults' \in Nat /\ faults <= faults'

LEMMA NextBounds ==
  ASSUME Typed, Next
  PROVE  BoundsGrow
<1>0. now \in Nat /\ faults \in Nat
  BY DEF Typed, TypeOK
<1> USE DEF BoundsGrow
<1>1. ASSUME NEW r \in Req, Arrival(r)
      PROVE  BoundsGrow
  BY <1>0, <1>1 DEF Arrival, ArriveRegister, ArriveLogin, ArriveRefresh, ArriveMe, Arrive, bounds
<1>2. ASSUME NEW r \in Req, Register(r)
      PROVE  BoundsGrow
  BY <1>0, <1>2 DEF Register, RegisterFindByUsername, RegisterFindByEmail, RegisterFindRoleByName,
     RegisterCreateUser, RegisterGenerateTokens, RegisterSendWelcomeEmail, Reads, bounds
<1>3. ASSUME NEW r \in Req, LookUp(r) \/ Login(r) \/ Refresh(r) \/ MeFindByIdWithRoles(r)
      PROVE  BoundsGrow
  BY <1>0, <1>3, SessionShape, LookUpShape DEF Reads, bounds
<1>4. ASSUME NEW r \in Req, DbFails(r) \/ Land(r)
      PROVE  BoundsGrow
  BY <1>0, <1>4 DEF DbFails, Land, bounds
<1>5. CASE Crash \/ Edit \/ Tick
  BY <1>0, <1>5 DEF Crash, Edit, Tick
<1> QED
  BY <1>1, <1>2, <1>3, <1>4, <1>5 DEF Next, Handle

----------------------------------------------------------------------------
(* No account has the role USER while there is no such role, and the role  *)
(* gets another id only then.                                              *)

RoleKept == \A u \in Stored(users) : "USER" \in users[u].roles => userRole.present

RoleStep == userRole'.id = userRole.id \/ (~userRole.present /\ users' = users)

LEMMA InsertKeepsRole ==
  ASSUME DbTypeOK, RoleKept, NEW r \in Req, Storable(r), InsertUser(r, RegisteredRow(r))
  PROVE  RoleKept' /\ RoleStep
  BY DEF DbTypeOK, RoleKept, RoleStep, Storable, ViolatesRoleKey, InsertUser, Stored

LEMMA AdministerKeepsRole ==
  ASSUME DbTypeOK, RoleKept, Administer
  PROVE  RoleKept' /\ RoleStep
<1> USE DEF DbTypeOK, RoleKept, RoleStep, Stored, UserRow, RoleRow
<1>1. CASE \E u \in Stored(users) : SetActive(u) \/ DeleteUser(u)
  BY <1>1 DEF SetActive, DeleteUser
<1>2. ASSUME NEW u \in Stored(users), NEW role \in RoleName, GrantRole(u, role) \/ RevokeRole(u, role)
      PROVE  RoleKept' /\ RoleStep
  <2>1. UNCHANGED userRole /\ \A v \in UserId : v # u => users'[v] = users[v]
    BY <1>2 DEF GrantRole, RevokeRole
  <2>2. "USER" \in users'[u].roles => "USER" \in users[u].roles \/ userRole.present
    BY <1>2 DEF GrantRole, RevokeRole
  <2> QED
    BY <2>1, <2>2
<1>3. CASE DropUserRole
  BY <1>3 DEF DropUserRole
<1>4. CASE SeedUserRole
  BY <1>4 DEF SeedUserRole
<1> QED
  BY <1>1, <1>2, <1>3, <1>4 DEF Administer

LEMMA NextRoleKept == Typed /\ RoleKept /\ [Next]_vars => RoleKept' /\ RoleStep
<1> SUFFICES ASSUME Typed, RoleKept, [Next]_vars
             PROVE  RoleKept' /\ RoleStep
  OBVIOUS
<1>0. DbTypeOK
  BY DEF Typed, TypeOK
<1>1. CASE UNCHANGED db
  BY <1>1 DEF db, RoleKept, RoleStep, Stored
<1>2. ASSUME NEW r \in Req, Storable(r), InsertUser(r, RegisteredRow(r))
      PROVE  RoleKept' /\ RoleStep
  BY <1>0, <1>2, InsertKeepsRole
<1>3. CASE Edit
  BY <1>0, <1>3, AdministerKeepsRole DEF Edit
<1>4. CASE UNCHANGED vars \/ Crash \/ Tick
  BY <1>1, <1>4 DEF vars, db, Crash, Tick
<1>5. ASSUME NEW r \in Req, Arrival(r)
      PROVE  UNCHANGED db
  BY <1>5 DEF Arrival, ArriveRegister, ArriveLogin, ArriveRefresh, ArriveMe, Arrive
<1>6. ASSUME NEW r \in Req, LookUp(r) \/ Login(r) \/ Refresh(r) \/ MeFindByIdWithRoles(r)
      PROVE  UNCHANGED db
  BY <1>6, SessionShape, LookUpShape DEF Reads
<1>7. ASSUME NEW r \in Req, Register(r)
      PROVE  UNCHANGED db \/ (Storable(r) /\ InsertUser(r, RegisteredRow(r)))
  BY <1>7 DEF Register, RegisterFindByUsername, RegisterFindByEmail, RegisterFindRoleByName,
     RegisterCreateUser, RegisterGenerateTokens, RegisterSendWelcomeEmail, Reads
<1>8. ASSUME NEW r \in Req, DbFails(r) \/ Land(r)
      PROVE  UNCHANGED db \/ (Storable(r) /\ InsertUser(r, RegisteredRow(r)))
  BY <1>8 DEF DbFails, Land
<1> QED
  BY <1>1, <1>2, <1>3, <1>4, <1>5, <1>6, <1>7, <1>8 DEF Next, Handle

----------------------------------------------------------------------------
(* What makes RefusalsAreHonest inductive: what lasted is still stored;    *)
(* what a look-up has found is, if it lasted, as it was found; and while a *)
(* log-in goes on, an account that lasted and has its name is the one its  *)
(* handler holds, with the password it holds.                              *)

SessionChecks == {"login.verifyPassword", "login.findByIdWithRoles"}

\* The role of an account that lasted with it is the role that was read.
FoundLasts(q) ==
  /\ \A a \in lasting[q] : a.id = found[q].id =>
       /\ a.row.isActive = found[q].row.isActive /\ a.row.password = found[q].row.password
       /\ found[q].mapped /\ "USER" \in a.row.roles => found[q].roleId = userRole.id
  /\ pc[q] = "login.findByUsername" =>
       \A a \in lasting[q] : a.row.username = req[q].username => a.id = found[q].id
  /\ pc[q] = "refresh.findByIdWithRoles" => found[q].id = req[q].token.userId

RequestRefusal(q) ==
  /\ pc[q] # "new" => req[q] \in Request
  /\ lasting[q] \subseteq Accounts(users)
  /\ pc[q] \in Calls /\ found[q] # None => FoundLasts(q)
  /\ pc[q] \in SessionChecks =>
       \A a \in lasting[q] : a.row.isActive /\ a.row.username = req[q].username =>
         a.id = read[q].id /\ a.row.password = read[q].row.password
  /\ RefusedHonestly(q)

Refusal == \A q \in Req : RequestRefusal(q)

\* What a step does around the request it serves.
Surroundings == Remember /\ BoundsGrow /\ RoleKept /\ RoleStep

LEMMA AccountFields ==
  ASSUME DbTypeOK, NEW a \in Accounts(users)
  PROVE  /\ a.id \in UserId /\ users[a.id] # NoUser
         /\ a.row.isActive = users[a.id].isActive
         /\ a.row.username = users[a.id].username /\ a.row.password = users[a.id].password
         /\ RoleKept /\ "USER" \in a.row.roles => userRole.present
<1>1. PICK u \in Stored(users) :
        a = [id |-> u, row |-> users[u]] \/ a = [id |-> u, row |-> Roleless(users[u])]
  BY DEF Accounts, Rows
<1>2. u \in UserId /\ users[u] # NoUser /\ users[u] \in UserRow
  BY <1>1 DEF Stored, DbTypeOK
<1>3. a.id = u /\ (a.row = users[u] \/ a.row = Roleless(users[u]))
  BY <1>1
<1> QED
  BY <1>2, <1>3, RolelessFacts DEF RoleKept, Stored

LEMMA RememberShape ==
  ASSUME Surroundings, NEW q \in Req
  PROVE  /\ lasting'[q] \subseteq Accounts(users')
         /\ pc[q] # "new" => lasting'[q] \subseteq lasting[q]
  BY DEF Surroundings, Remember

(***************************************************************************)
(* A request a step leaves alone, or loses.                                *)
(***************************************************************************)
LEMMA FoundStays ==
  ASSUME Typed, Surroundings, NEW q \in Req, RequestRefusal(q), pc[q] \in Calls, found[q] # None,
         req'[q] = req[q], found'[q] = found[q], pc'[q] = pc[q]
  PROVE  FoundLasts(q)'
<1>1. FoundLasts(q) /\ lasting'[q] \subseteq lasting[q] /\ lasting[q] \subseteq Accounts(users)
  BY RememberShape
     DEF RequestRefusal, Calls, RegisterCalls, LoginCalls, RefreshCalls, MeCalls
<1>2. ASSUME NEW a \in lasting'[q], a.id = found'[q].id, found'[q].mapped, "USER" \in a.row.roles
      PROVE  found'[q].roleId = userRole'.id
  <2>1. userRole.present
    BY <1>1, <1>2, AccountFields DEF Typed, TypeOK, Surroundings
  <2>2. userRole'.id = userRole.id
    BY <2>1 DEF Surroundings, RoleStep
  <2> QED
    BY <1>1, <1>2, <2>2 DEF FoundLasts
<1> QED
  BY <1>1, <1>2 DEF FoundLasts

LEMMA StaysRefusal ==
  ASSUME Typed, Surroundings, NEW q \in Req, RequestRefusal(q), RequestFresh(q),
         req'[q] = req[q], answer'[q] = answer[q], found'[q] = found[q], read'[q] = read[q],
         pc'[q] = pc[q] \/ (pc[q] \in Calls /\ pc'[q] = "lost")
  PROVE  RequestRefusal(q)'
<1>1. lasting'[q] \subseteq Accounts(users')
  BY RememberShape
<1>2. CASE pc[q] = "new"
  <2>1. pc'[q] = "new" /\ answer'[q] = None /\ "new" \notin Calls
    BY <1>2 DEF RequestFresh, Calls, RegisterCalls, LoginCalls, RefreshCalls, MeCalls
  <2> QED
    BY <1>1, <2>1 DEF RequestRefusal, RefusedHonestly, Unauthorized, SessionChecks
<1>3. CASE pc[q] # "new"
  <2>1. lasting'[q] \subseteq lasting[q]
    BY <1>3, RememberShape
  <2>2. RefusedHonestly(q)'
    <3>1. faults' = 0 => faults = 0
      BY DEF Surroundings, BoundsGrow
    <3>2. ASSUME NEW token \in Token
          PROVE  /\ VerifiesRefresh(token, now') => VerifiesRefresh(token, now)
                 /\ VerifiesAccess(token, now') => VerifiesAccess(token, now)
      BY DEF Surroundings, BoundsGrow, Token, VerifiesRefresh, VerifiesAccess, Verifies
    <3>3. /\ req[q].op = "refresh" => req[q].token \in Token
          /\ req[q].op = "me" => req[q].token \in Token \cup {None}
      BY <1>3 DEF RequestRefusal, Request, RegisterRequest, LoginRequest, RefreshRequest, MeRequest
    <3> QED
      BY <2>1, <3>1, <3>2, <3>3 DEF RequestRefusal, RefusedHonestly, Unauthorized
  <2>3. pc'[q] \in SessionChecks =>
          \A a \in lasting'[q] : a.row.isActive /\ a.row.username = req'[q].username =>
            a.id = read'[q].id /\ a.row.password = read'[q].row.password
    BY <2>1 DEF RequestRefusal, SessionChecks
  <2>4. req'[q] \in Request
    BY <1>3 DEF RequestRefusal
  <2>5. pc'[q] \in Calls /\ found'[q] # None => FoundLasts(q)'
    BY FoundStays DEF Calls, RegisterCalls, LoginCalls, RefreshCalls, MeCalls
  <2> QED
    BY <1>1, <2>2, <2>3, <2>4, <2>5 DEF RequestRefusal
<1> QED
  BY <1>2, <1>3

(***************************************************************************)
(* The request of a handler that goes on to its next call, and the one of  *)
(* a handler that answers.                                                 *)
(***************************************************************************)
OthersRefusal(r) == \A q \in Req : q # r => RequestRefusal(q)'

LEMMA OthersKeep ==
  ASSUME Typed, Surroundings, Fresh, Refusal, NEW r \in Req, OthersUntouched(r)
  PROVE  OthersRefusal(r)
  BY StaysRefusal DEF Fresh, Refusal, OthersUntouched, Untouched, OthersRefusal

LEMMA AwaitRefusal ==
  ASSUME Surroundings, NEW r \in Req, OthersRefusal(r), answer'[r] = None, found'[r] = None,
         req'[r] \in Request, pc'[r] \notin SessionChecks
  PROVE  Refusal'
<1>1. RefusedHonestly(r)'
  BY DEF RefusedHonestly, Unauthorized
<1>2. lasting'[r] \subseteq Accounts(users')
  BY RememberShape
<1> QED
  BY <1>1, <1>2 DEF Refusal, RequestRefusal, OthersRefusal

LEMMA AnswerRefusal ==
  ASSUME Surroundings, NEW r \in Req, OthersRefusal(r), pc'[r] = "done", req'[r] \in Request,
         RefusedHonestly(r)'
  PROVE  Refusal'
<1>1. lasting'[r] \subseteq Accounts(users')
  BY RememberShape
<1>2. pc'[r] \notin Calls /\ pc'[r] \notin SessionChecks
  BY DEF Calls, RegisterCalls, LoginCalls, RefreshCalls, MeCalls, SessionChecks
<1> QED
  BY <1>1, <1>2 DEF Refusal, RequestRefusal, OthersRefusal

(***************************************************************************)
(* A failed call: a refresh is told that its token is bad.                 *)
(***************************************************************************)
LEMMA RejectRefusal ==
  ASSUME Typed, Fresh, Refusal, Surroundings, NEW r \in Req, HandlerStep(r), Reject(r),
         req[r].op = "refresh" =>
           \/ faults' # 0
           \/ \A a \in lasting'[r] : ~ /\ a.row.isActive /\ "USER" \in a.row.roles
                                       /\ a.id = req[r].token.userId
  PROVE  Refusal'
<1>0. TypeOK /\ pc'[r] = "done"
  BY RejectOutcome DEF Typed
<1>1. OthersRefusal(r) /\ req' = req
  BY OthersKeep DEF HandlerStep
<1>2. req[r] \in Request
  BY DEF Refusal, RequestRefusal, HandlerStep, Calls, RegisterCalls, LoginCalls, RefreshCalls, MeCalls
<1>3. PICK e \in DbErrors : Throw(r, IF req[r].op = "refresh" THEN RefreshCatch(e) ELSE e)
  BY DEF Reject
<1>4. e.app = FALSE
  BY <1>3 DEF DbErrors, CodedError
<1>5. CASE req[r].op = "refresh"
  <2>1. answer'[r] = ErrorMiddleware(RefreshCatch(e))
    BY <1>0, <1>3, <1>5, FinishOthers DEF Throw
  <2>2. answer'[r].statusCode = 401 /\ answer'[r].code # "INVALID_CREDENTIALS"
    <3>1. /\ ErrorMiddleware(RefreshCatch(e)).statusCode = 401
          /\ ErrorMiddleware(RefreshCatch(e)).code # "INVALID_CREDENTIALS"
      BY <1>4, RefreshCatchStatus
    <3> QED
      BY <2>1, <3>1
  <2>3. \/ faults' # 0
        \/ \A a \in lasting'[r] : ~ /\ a.row.isActive /\ "USER" \in a.row.roles
                                    /\ a.id = req[r].token.userId
    BY <1>5
  <2>4. req'[r].op = "refresh" /\ req'[r] = req[r]
    BY <1>1, <1>5
  <2>5. RefusedHonestly(r)'
    BY <2>2, <2>3, <2>4 DEF RefusedHonestly, Unauthorized
  <2> QED
    BY <1>0, <1>1, <1>2, <2>5, AnswerRefusal
<1>6. CASE req[r].op # "refresh"
  <2>1. answer'[r] = ErrorMiddleware(e)
    BY <1>0, <1>3, <1>6, FinishOthers DEF Throw
  <2>2. answer'[r].statusCode # 401
    BY <1>3, <2>1, StatusOfAnswers
  <2>3. RefusedHonestly(r)'
    BY <1>1, <1>6, <2>2 DEF RefusedHonestly, Unauthorized
  <2> QED
    BY <1>0, <1>1, <1>2, <2>3, AnswerRefusal
<1> QED
  BY <1>5, <1>6

LEMMA DbFailsRefusal ==
  ASSUME Typed, Fresh, Refusal, Surroundings, NEW r \in Req, DbFails(r)
  PROVE  Refusal'
<1>1. HandlerStep(r) /\ Reject(r)
  BY DbFailsShape DEF DbFails
<1>2. faults' # 0
  BY DEF DbFails, Typed, TypeOK
<1> QED
  BY <1>1, <1>2, RejectRefusal

(***************************************************************************)
(* A look-up.  What its SELECTs return is what is stored, so it is what    *)
(* lasted; a role that lasted is not missing.                              *)
(***************************************************************************)
LEMMA StillRefusal ==
  ASSUME Typed, Fresh, Refusal, Surroundings, NEW r \in Req, HandlerStep(r), pc' = pc, read' = read,
         FoundLasts(r)'
  PROVE  Refusal'
<1>1. OthersRefusal(r) /\ req' = req /\ pc[r] \in Calls
  BY OthersKeep DEF HandlerStep
<1>2. pc[r] # "new" /\ pc[r] # "done"
  BY <1>1 DEF Calls, RegisterCalls, LoginCalls, RefreshCalls, MeCalls
<1>3. answer'[r] = None
  BY <1>2 DEF HandlerStep, Fresh, RequestFresh
<1>4. RefusedHonestly(r)'
  BY <1>3 DEF RefusedHonestly, Unauthorized
<1>5. RequestRefusal(r) /\ lasting'[r] \subseteq Accounts(users') /\ lasting'[r] \subseteq lasting[r]
  BY <1>2, RememberShape DEF Refusal
<1>6. pc'[r] \in SessionChecks =>
        \A a \in lasting'[r] : a.row.isActive /\ a.row.username = req'[r].username =>
          a.id = read'[r].id /\ a.row.password = read'[r].row.password
  BY <1>1, <1>5 DEF RequestRefusal
<1>7. req'[r] \in Request
  BY <1>1, <1>2, <1>5 DEF RequestRefusal
<1> QED
  BY <1>1, <1>4, <1>5, <1>6, <1>7 DEF Refusal, RequestRefusal, OthersRefusal

LEMMA LookUpRefusal ==
  ASSUME Typed, UniqueAccounts, Fresh, Refusal, Surroundings, NEW r \in Req, LookUp(r)
  PROVE  Refusal'
<1>0. /\ TypeOK /\ DbTypeOK /\ HandlerStep(r) /\ Reads /\ read' = read /\ req' = req
      /\ UNCHANGED db /\ pc[r] \in Calls /\ pc[r] # "new"
  BY LookUpShape DEF Typed, TypeOK, HandlerStep, Reads, Calls, RegisterCalls, LoginCalls,
     RefreshCalls, MeCalls
<1>1. /\ lasting'[r] \subseteq Accounts(users) /\ lasting'[r] \subseteq lasting[r]
      /\ users' = users /\ userRole' = userRole
  BY <1>0, RememberShape DEF db
<1>2. CASE FindUser(r)
  <2>1. PICK u \in UserId : /\ u \in Matching(r) /\ users[u] \in UserRow /\ users[u] # NoUser
                            /\ found'[r] = SelectUser(u)
    BY <1>0, <1>2, FindUserStep
  <2>2. /\ found'[r].id = u /\ ~found'[r].mapped
        /\ found'[r].row.isActive = users[u].isActive /\ found'[r].row.password = users[u].password
    BY <2>1, RolelessFacts DEF SelectUser
  <2>3. ASSUME NEW a \in lasting'[r], a.id = u
        PROVE  a.row.isActive = users[u].isActive /\ a.row.password = users[u].password
    BY <1>0, <1>1, <2>3, AccountFields
  <2>4. ASSUME pc[r] = "login.findByUsername", NEW a \in lasting'[r],
               a.row.username = req[r].username
        PROVE  a.id = u
    <3>1. a.id \in Stored(users) /\ users[a.id].username = req[r].username
      BY <1>0, <1>1, <2>4, AccountFields DEF Stored
    <3>2. u \in Stored(users) /\ users[u].username = req[r].username
      BY <2>1, <2>4 DEF Matching, FindByUsername
    <3> QED
      BY <3>1, <3>2 DEF UniqueAccounts
  <2>5. pc[r] = "refresh.findByIdWithRoles" => u = req[r].token.userId
    BY <2>1 DEF Matching, FindById
  <2>6. pc' = pc
    BY <1>2 DEF FindUser
  <2>7. FoundLasts(r)'
    BY <1>0, <2>2, <2>3, <2>4, <2>5, <2>6 DEF FoundLasts
  <2> QED
    BY <1>0, <2>6, <2>7, StillRefusal
<1>3. CASE FindUserRoles(r)
  <2>1. /\ found[r] # None /\ FoundLasts(r) /\ pc' = pc
    BY <1>0, <1>3 DEF FindUserRoles, Refusal, RequestRefusal
  <2>2. /\ found[r].row \in UserRow /\ found'[r].row \in UserRow
        /\ found'[r].id = found[r].id /\ found'[r].roleId = userRole.id
        /\ Roleless(found'[r].row) = Roleless(found[r].row)
    BY <1>0, <1>3, FindUserRolesStep DEF Partial
  <2>3. /\ found'[r].row.isActive = found[r].row.isActive
        /\ found'[r].row.password = found[r].row.password
    BY <2>2, RolelessFacts
  <2>4. FoundLasts(r)'
    BY <1>0, <1>1, <2>1, <2>2, <2>3 DEF FoundLasts
  <2> QED
    BY <1>0, <2>1, <2>4, StillRefusal
<1>4. CASE RoleIsLost(r)
  <2>1. /\ Reject(r) /\ found[r] # None /\ found[r].mapped /\ LosesRole(found[r]) /\ FoundLasts(r)
        /\ pc[r] \in LookUps
    BY <1>0, <1>4 DEF RoleIsLost, Refusal, RequestRefusal
  <2>2. ASSUME req[r].op = "refresh", NEW a \in lasting'[r], "USER" \in a.row.roles
        PROVE  a.id # req[r].token.userId
    <3>1. pc[r] = "refresh.findByIdWithRoles"
      BY <2>1, <2>2 DEF Typed, RequestOK, LookUps, DbCalls, Calls, RegisterCalls, LoginCalls,
         RefreshCalls, MeCalls, RegisterRequest, LoginRequest, RefreshRequest, MeRequest
    <3>2. userRole.present
      BY <1>0, <1>1, <2>2, AccountFields DEF Surroundings
    <3>3. found[r].roleId # userRole.id
      BY <2>1, <3>2 DEF LosesRole, ViolatesRoleKey
    <3> QED
      BY <1>1, <2>1, <2>2, <3>1, <3>3 DEF FoundLasts
  <2> QED
    BY <1>0, <2>1, <2>2, RejectRefusal
<1> QED
  BY <1>2, <1>3, <1>4 DEF LookUp

(***************************************************************************)
(* A request that arrives: a token that does not verify now never will.    *)
(***************************************************************************)
LEMMA ArrivalRefusal ==
  ASSUME Typed, Fresh, Refusal, Surroundings, NEW r \in Req, Arrival(r)
  PROVE  Refusal'
<1>0. /\ TypeOK /\ Presentable \subseteq Token /\ OthersRefusal(r)
      /\ pc[r] = "new" /\ answer[r] = None /\ found'[r] = None
  BY ArrivalShape, PresentableType, OthersKeep DEF Typed, Fresh, RequestFresh
<1>1. ASSUME NEW request \in Request, Arrive(r, request)
      PROVE  req'[r] = request /\ now' = now
  BY <1>0, <1>1 DEF Arrive, TypeOK, bounds
<1>2. ASSUME NEW request \in Request, Arrive(r, request), NEW call \in Calls,
             call \notin SessionChecks, Await(r, call)
      PROVE  Refusal'
  BY <1>0, <1>1, <1>2, AwaitOthers, AwaitRefusal
<1>3. CASE ArriveRegister(r)
  <2>1. PICK username \in Username, email \in Email, password \in Password :
          /\ Arrive(r, [op |-> "register", username |-> username, email |-> email,
                        password |-> password])
          /\ Await(r, "register.findByUsername")
    BY <1>3 DEF ArriveRegister
  <2>2. [op |-> "register", username |-> username, email |-> email, password |-> password]
          \in Request
    BY <2>1 DEF Request, RegisterRequest
  <2> QED
    BY <1>2, <2>1, <2>2 DEF Calls, RegisterCalls, SessionChecks
<1>4. CASE ArriveLogin(r)
  <2>1. PICK username \in Username, password \in Password :
          /\ Arrive(r, [op |-> "login", username |-> username, password |-> password])
          /\ Await(r, "login.findByUsername")
    BY <1>4 DEF ArriveLogin
  <2>2. [op |-> "login", username |-> username, password |-> password] \in Request
    BY <2>1 DEF Request, LoginRequest
  <2> QED
    BY <1>2, <2>1, <2>2 DEF Calls, LoginCalls, SessionChecks
<1>5. CASE ArriveRefresh(r)
  <2>1. PICK token \in Presentable :
          /\ Arrive(r, [op |-> "refresh", token |-> token])
          /\ IF VerifiesRefresh(token, now)
             THEN Await(r, "refresh.findByIdWithRoles")
             ELSE Throw(r, RefreshCatch(VerifyError(token, RefreshSecret)))
    BY <1>5 DEF ArriveRefresh
  <2>2. [op |-> "refresh", token |-> token] \in Request
    BY <1>0, <2>1 DEF Request, RefreshRequest
  <2>3. req'[r] = [op |-> "refresh", token |-> token] /\ now' = now
    BY <1>1, <2>1, <2>2
  <2>4. CASE Await(r, "refresh.findByIdWithRoles")
    BY <1>2, <2>1, <2>2, <2>4 DEF Calls, RefreshCalls, SessionChecks
  <2>5. CASE /\ ~VerifiesRefresh(token, now)
             /\ Throw(r, RefreshCatch(VerifyError(token, RefreshSecret)))
    <3>1. VerifyError(token, RefreshSecret).app = FALSE
      BY DEF VerifyError, JsonWebTokenError, TokenExpiredError, LibraryError
    <3>2. /\ ErrorMiddleware(RefreshCatch(VerifyError(token, RefreshSecret))).statusCode = 401
          /\ ErrorMiddleware(RefreshCatch(VerifyError(token, RefreshSecret))).code
               # "INVALID_CREDENTIALS"
      BY <3>1, RefreshCatchStatus
    <3>3. /\ pc'[r] = "done" /\ answer'[r].statusCode = 401
          /\ answer'[r].code # "INVALID_CREDENTIALS"
      BY <1>0, <2>5, <3>2, FinishOthers DEF Throw
    <3>4. RefusedHonestly(r)'
      BY <2>3, <2>5, <3>3 DEF RefusedHonestly, Unauthorized
    <3> QED
      BY <1>0, <2>2, <2>3, <3>3, <3>4, AnswerRefusal
  <2> QED
    BY <2>1, <2>4, <2>5
<1>6. CASE ArriveMe(r)
  <2>1. PICK token \in Presentable \cup {None} :
          /\ Arrive(r, [op |-> "me", token |-> token])
          /\ IF token = None THEN Throw(r, UnauthorizedError("UNAUTHORIZED"))
             ELSE IF VerifiesAccess(token, now) THEN Await(r, "me.findByIdWithRoles")
             ELSE Throw(r, VerifyError(token, AccessSecret))
    BY <1>6 DEF ArriveMe
  <2>2. [op |-> "me", token |-> token] \in Request
    BY <1>0, <2>1 DEF Request, MeRequest
  <2>3. req'[r] = [op |-> "me", token |-> token] /\ now' = now
    BY <1>1, <2>1, <2>2
  <2>4. CASE Await(r, "me.findByIdWithRoles")
    BY <1>2, <2>1, <2>2, <2>4 DEF Calls, MeCalls, SessionChecks
  <2>5. CASE (token = None \/ ~VerifiesAccess(token, now)) /\ \E e : Throw(r, e)
    <3>1. pc'[r] = "done"
      BY <1>0, <2>5, FinishOthers DEF Throw
    <3>2. RefusedHonestly(r)'
      BY <2>3, <2>5 DEF RefusedHonestly, Unauthorized
    <3> QED
      BY <1>0, <2>2, <2>3, <3>1, <3>2, AnswerRefusal
  <2> QED
    BY <2>1, <2>4, <2>5
<1> QED
  BY <1>3, <1>4, <1>5, <1>6 DEF Arrival

(***************************************************************************)
(* register: whatever it answers, it is no refusal to log in.              *)
(***************************************************************************)
LEMMA RegisterRefusal ==
  ASSUME Typed, Fresh, Refusal, Surroundings, NEW r \in Req, Register(r)
  PROVE  Refusal'
<1>0. TypeOK /\ RequestOK(r) /\ HandlerStep(r)
  BY RegisterShape DEF Typed
<1>1. OthersRefusal(r) /\ req' = req
  BY <1>0, OthersKeep DEF HandlerStep
<1>2. req[r] \in RegisterRequest
  BY <1>0 DEF Register, RegisterFindByUsername, RegisterFindByEmail, RegisterFindRoleByName,
     RegisterCreateUser, RegisterGenerateTokens, RegisterSendWelcomeEmail, RequestOK, RegisterCalls
<1>3. req'[r] \in Request /\ req'[r].op = "register"
  BY <1>1, <1>2 DEF Request, RegisterRequest
<1>4. \/ \E call \in RegisterCalls : Await(r, call)
      \/ \E a : Finish(r, a)
  BY DEF Register, RegisterFindByUsername, RegisterFindByEmail, RegisterFindRoleByName,
     RegisterCreateUser, RegisterGenerateTokens, RegisterSendWelcomeEmail, Throw, Return,
     RegisterCalls
<1>5. pc'[r] \notin SessionChecks /\ found'[r] = None
  <2>1. Take(r) \/ (UNCHANGED found /\ pc[r] \notin LookUps \cup {"lost"})
    BY DEF Register, RegisterFindByUsername, RegisterFindByEmail, RegisterFindRoleByName,
       RegisterCreateUser, RegisterGenerateTokens, RegisterSendWelcomeEmail, LookUps, DbCalls
  <2> QED
    BY <1>0, <1>4, <2>1, Empties, AwaitOthers, FinishOthers DEF Emptied, RegisterCalls, SessionChecks
<1>6. RefusedHonestly(r)'
  BY <1>3 DEF RefusedHonestly, Unauthorized
<1>7. lasting'[r] \subseteq Accounts(users')
  BY RememberShape
<1> QED
  BY <1>1, <1>3, <1>5, <1>6, <1>7 DEF Refusal, RequestRefusal, OthersRefusal

(***************************************************************************)
(* login: names are unique, so the row its first look finds is that of the *)
(* account that lasted, and what lasted has the password it had then.      *)
(***************************************************************************)
LEMMA LoginRefusal ==
  ASSUME Typed, UniqueAccounts, Fresh, Refusal, Surroundings, NEW r \in Req, Login(r)
  PROVE  Refusal'
<1>0. TypeOK /\ DbTypeOK /\ RequestOK(r) /\ HandlerStep(r) /\ Reads
  BY SessionShape DEF Typed, TypeOK
<1>1. OthersRefusal(r) /\ req' = req /\ users' = users
  BY <1>0, OthersKeep DEF HandlerStep, Reads, db
<1>2. pc[r] \in LoginCalls /\ req[r] \in LoginRequest /\ found'[r] = None
  <2>1. Take(r) \/ (UNCHANGED found /\ pc[r] \notin LookUps \cup {"lost"})
    BY DEF Login, LoginFindByUsername, LoginVerifyPassword, LoginFindByIdWithRoles, LookUps, DbCalls
  <2> QED
    BY <1>0, <2>1, Empties DEF Login, LoginFindByUsername, LoginVerifyPassword,
       LoginFindByIdWithRoles, RequestOK, LoginCalls, Emptied
<1>3. req'[r] \in Request /\ req'[r].op = "login"
  BY <1>1, <1>2 DEF Request, LoginRequest
<1>4. RequestRefusal(r) /\ answer[r] = None /\ pc[r] \in Calls
  BY <1>2 DEF Refusal, Fresh, RequestFresh, LoginCalls, Calls
<1>5. /\ lasting'[r] \subseteq Accounts(users) /\ lasting'[r] \subseteq lasting[r]
  BY <1>1, <1>2, RememberShape DEF LoginCalls
<1>6. ASSUME NEW a, Finish(r, a),
             \A account \in lasting'[r] : ~ /\ account.row.isActive
                                            /\ account.row.username = req[r].username
                                            /\ account.row.password = Hash(req[r].password)
      PROVE  Refusal'
  <2>1. pc'[r] = "done"
    BY <1>0, <1>6, FinishOthers
  <2>2. RefusedHonestly(r)'
    BY <1>1, <1>3, <1>6 DEF RefusedHonestly, Unauthorized
  <2> QED
    BY <1>1, <1>3, <2>1, <2>2, AnswerRefusal
<1>7. ASSUME NEW call \in SessionChecks, Await(r, call),
             \A a \in lasting'[r] : a.row.isActive /\ a.row.username = req[r].username =>
               a.id = read'[r].id /\ a.row.password = read'[r].row.password
      PROVE  Refusal'
  <2>1. answer'[r] = None
    BY <1>0, <1>4, <1>7, AwaitOthers
  <2>2. RefusedHonestly(r)'
    BY <2>1 DEF RefusedHonestly, Unauthorized
  <2>3. RequestRefusal(r)'
    BY <1>1, <1>2, <1>3, <1>5, <1>7, <2>2 DEF RequestRefusal
  <2> QED
    BY <1>1, <2>3 DEF Refusal, OthersRefusal
<1>8. CASE LoginFindByUsername(r)
  <2>0. pc[r] = "login.findByUsername" /\ Returns(r)
    BY <1>8 DEF LoginFindByUsername
  <2>1. CASE found[r] # None /\ found[r].row.isActive
    <3>1. FoundLasts(r)
      BY <1>4, <2>1 DEF RequestRefusal
    <3>2. /\ Await(r, "login.verifyPassword") /\ read' = [read EXCEPT ![r] = Account(found[r])]
      BY <1>8, <2>1 DEF LoginFindByUsername
    <3>3. read'[r].id = found[r].id /\ read'[r].row = found[r].row
      BY <1>0, <3>2 DEF TypeOK, Account
    <3>4. \A a \in lasting'[r] : a.row.username = req[r].username =>
            a.id = read'[r].id /\ a.row.password = read'[r].row.password
      BY <1>5, <2>0, <3>1, <3>3 DEF FoundLasts
    <3> QED
      BY <1>7, <3>2, <3>4 DEF SessionChecks
  <2>2. CASE found[r] # None /\ ~found[r].row.isActive
    <3>1. FoundLasts(r)
      BY <1>4, <2>2 DEF RequestRefusal
    <3>2. \A a \in lasting'[r] : a.row.username = req[r].username => ~a.row.isActive
      BY <1>5, <2>0, <2>2, <3>1 DEF FoundLasts
    <3> QED
      BY <1>6, <1>8, <2>2, <3>2 DEF LoginFindByUsername, Throw
  <2>3. CASE found[r] = None
    <3>1. FindByUsername(req[r].username) = {}
      BY <2>0, <2>3 DEF Returns, Matching
    <3>2. \A a \in lasting'[r] : a.row.username # req[r].username
      BY <1>0, <1>5, <3>1, AccountFields DEF FindByUsername, Stored
    <3> QED
      BY <1>6, <1>8, <2>3, <3>2 DEF LoginFindByUsername, Throw
  <2> QED
    BY <2>1, <2>2, <2>3
<1>9. CASE LoginVerifyPassword(r)
  <2>1. /\ pc[r] \in SessionChecks /\ read' = read
        /\ \/ Await(r, "login.findByIdWithRoles")
           \/ ~PasswordValid(r) /\ \E a : Finish(r, a)
    BY <1>9 DEF LoginVerifyPassword, SessionChecks, Throw
  <2>2. \A a \in lasting'[r] : a.row.isActive /\ a.row.username = req[r].username =>
          a.id = read'[r].id /\ a.row.password = read'[r].row.password
    BY <1>4, <1>5, <2>1 DEF RequestRefusal
  <2> QED
    BY <1>6, <1>7, <2>1, <2>2 DEF SessionChecks, PasswordValid
<1>10. CASE LoginFindByIdWithRoles(r)
  <2>1. /\ pc[r] \in SessionChecks
        /\ \/ Finish(r, OkAnswer)
           \/ FindById(read[r].id) = {} /\ \E a : Finish(r, a)
    BY <1>10 DEF LoginFindByIdWithRoles, SessionChecks, Throw, Return, Returns, Matching
  <2>2. CASE Finish(r, OkAnswer)
    <3>1. pc'[r] = "done" /\ answer'[r].statusCode = 200
      BY <1>0, <2>2, FinishOthers, StatusOfAnswers
    <3>2. RefusedHonestly(r)'
      BY <1>3, <3>1 DEF RefusedHonestly, Unauthorized
    <3> QED
      BY <1>1, <1>3, <3>1, <3>2, AnswerRefusal
  <2>3. CASE FindById(read[r].id) = {} /\ \E a : Finish(r, a)
    <3>1. ASSUME NEW a \in lasting'[r]
          PROVE  ~(a.row.isActive /\ a.row.username = req[r].username)
      BY <1>0, <1>4, <1>5, <2>1, <2>3, AccountFields DEF RequestRefusal, FindById, Stored
    <3> QED
      BY <1>6, <2>3, <3>1
  <2> QED
    BY <2>1, <2>2, <2>3
<1> QED
  BY <1>8, <1>9, <1>10 DEF Login

(***************************************************************************)
(* refreshToken and getCurrentUser: one look-up decides.                   *)
(***************************************************************************)
LEMMA RefreshRefusal ==
  ASSUME Typed, Fresh, Refusal, Surroundings, NEW r \in Req, Refresh(r)
  PROVE  Refusal'
<1>0. TypeOK /\ DbTypeOK /\ RequestOK(r) /\ HandlerStep(r) /\ Reads
  BY SessionShape DEF Typed, TypeOK
<1>1. OthersRefusal(r) /\ req' = req /\ users' = users
  BY <1>0, OthersKeep DEF HandlerStep, Reads, db
<1>2. pc[r] \in RefreshCalls /\ req[r] \in RefreshRequest /\ found'[r] = None /\ pc[r] \in Calls
  <2>1. Take(r) \/ (UNCHANGED found /\ pc[r] \notin LookUps \cup {"lost"})
    BY DEF Refresh, RefreshFindByIdWithRoles, RefreshGenerateTokens, LookUps, DbCalls
  <2> QED
    BY <1>0, <2>1, Empties DEF Refresh, RefreshFindByIdWithRoles, RefreshGenerateTokens, RequestOK,
       RefreshCalls, Calls, Emptied
<1>3. req'[r] \in Request /\ req'[r].op = "refresh"
  BY <1>1, <1>2 DEF Request, RefreshRequest
<1>4. /\ answer[r] = None /\ lasting'[r] \subseteq Accounts(users)
      /\ lasting'[r] \subseteq lasting[r]
  BY <1>1, <1>2, RememberShape DEF Fresh, RequestFresh, RefreshCalls
<1>5. CASE Await(r, "refresh.generateTokens")
  BY <1>0, <1>1, <1>2, <1>3, <1>4, <1>5, AwaitOthers, AwaitRefusal DEF SessionChecks
<1>6. CASE Finish(r, OkAnswer)
  <2>1. pc'[r] = "done" /\ answer'[r].statusCode = 200
    BY <1>0, <1>6, FinishOthers, StatusOfAnswers
  <2>2. RefusedHonestly(r)'
    BY <1>3, <2>1 DEF RefusedHonestly, Unauthorized
  <2> QED
    BY <1>1, <1>3, <2>1, <2>2, AnswerRefusal
<1>7. CASE /\ pc[r] = "refresh.findByIdWithRoles" /\ Returns(r) /\ ~Refreshable(found[r])
           /\ Throw(r, RefreshCatch(UnauthorizedError("INVALID_CREDENTIALS")))
  <2>1. ErrorMiddleware(RefreshCatch(UnauthorizedError("INVALID_CREDENTIALS"))).statusCode = 401
    <3>1. \E code : RefreshCatch(UnauthorizedError("INVALID_CREDENTIALS")) = UnauthorizedError(code)
      BY DEF RefreshCatch
    <3> QED
      BY <3>1, StatusOfAnswers
  <2>2. pc'[r] = "done" /\ answer'[r].statusCode = 401
    BY <1>0, <1>7, <2>1, FinishOthers DEF Throw
  <2>3. ASSUME NEW a \in lasting'[r]
        PROVE  ~(a.row.isActive /\ a.id = req[r].token.userId)
    <3>1. CASE found[r] = None
      <4>1. FindById(req[r].token.userId) = {}
        BY <1>7, <3>1 DEF Returns, Matching
      <4> QED
        BY <1>0, <1>4, <4>1, AccountFields DEF FindById, Stored
    <3>2. CASE found[r] # None
      <4>1. FoundLasts(r) /\ ~found[r].row.isActive
        BY <1>2, <1>7, <3>2 DEF Refusal, RequestRefusal, Refreshable
      <4> QED
        BY <1>4, <1>7, <4>1 DEF FoundLasts
    <3> QED
      BY <3>1, <3>2
  <2>4. RefusedHonestly(r)'
    BY <1>1, <1>3, <2>2, <2>3 DEF RefusedHonestly, Unauthorized
  <2> QED
    BY <1>1, <1>3, <2>2, <2>4, AnswerRefusal
<1> QED
  BY <1>5, <1>6, <1>7 DEF Refresh, RefreshFindByIdWithRoles, RefreshGenerateTokens, Return

LEMMA MeRefusal ==
  ASSUME Typed, Fresh, Refusal, Surroundings, NEW r \in Req, MeFindByIdWithRoles(r)
  PROVE  Refusal'
<1>0. TypeOK /\ DbTypeOK /\ RequestOK(r) /\ HandlerStep(r) /\ Reads
  BY SessionShape DEF Typed, TypeOK
<1>1. OthersRefusal(r) /\ req' = req /\ users' = users
  BY <1>0, OthersKeep DEF HandlerStep, Reads, db
<1>2. pc[r] \in MeCalls /\ req[r] \in MeRequest
  BY <1>0 DEF MeFindByIdWithRoles, RequestOK, MeCalls
<1>3. req'[r] \in Request /\ req'[r].op = "me"
  BY <1>1, <1>2 DEF Request, MeRequest
<1>4. lasting'[r] \subseteq Accounts(users)
  BY <1>1, RememberShape
<1>5. CASE Finish(r, OkAnswer)
  <2>1. pc'[r] = "done" /\ answer'[r].statusCode = 200
    BY <1>0, <1>5, FinishOthers, StatusOfAnswers
  <2>2. RefusedHonestly(r)'
    BY <1>3, <2>1 DEF RefusedHonestly, Unauthorized
  <2> QED
    BY <1>1, <1>3, <2>1, <2>2, AnswerRefusal
<1>6. CASE FindById(req[r].token.userId) = {} /\ \E a : Finish(r, a)
  <2>1. pc'[r] = "done"
    BY <1>0, <1>6, FinishOthers
  <2>2. ASSUME NEW a \in lasting'[r]
        PROVE  a.id # req[r].token.userId
    BY <1>0, <1>4, <1>6, AccountFields DEF FindById, Stored
  <2>3. RefusedHonestly(r)'
    BY <1>1, <1>3, <2>2 DEF RefusedHonestly, Unauthorized
  <2> QED
    BY <1>1, <1>3, <2>1, <2>3, AnswerRefusal
<1> QED
  BY <1>5, <1>6 DEF MeFindByIdWithRoles, Return, Throw, Returns, Matching

----------------------------------------------------------------------------
LEMMA InitRefusal == RefusalInit => Refusal
  BY DEF RefusalInit, Init, Refusal, RequestRefusal, RefusedHonestly, Unauthorized, SessionChecks

LEMMA NextRefusal ==
  /\ Typed /\ UniqueAccounts /\ Fresh /\ RoleKept /\ Refusal
  /\ [RefusalNext]_refusalVars
  => Refusal'
<1> SUFFICES ASSUME Typed, UniqueAccounts, Fresh, RoleKept, Refusal, [RefusalNext]_refusalVars
             PROVE  Refusal'
  OBVIOUS
<1>1. CASE UNCHANGED refusalVars
  BY <1>1 DEF refusalVars, vars, Refusal, RequestRefusal, RefusedHonestly, Unauthorized, Accounts,
     Rows, Stored, VerifiesRefresh, VerifiesAccess, Verifies, FoundLasts
<1>2. CASE RefusalNext
  <2>0. Surroundings
    BY <1>2, NextBounds, NextRoleKept DEF RefusalNext, Surroundings
  <2>1. CASE Crash \/ Edit \/ Tick
    <3>1. EnvironmentStep
      BY <2>1, EnvironmentShape
    <3> QED
      BY <2>0, <3>1, StaysRefusal DEF Fresh, Refusal, EnvironmentStep
  <2>2. CASE \E r \in Req : Arrival(r) \/ LookUp(r) \/ Register(r) \/ DbFails(r)
    BY <2>0, <2>2, ArrivalRefusal, LookUpRefusal, RegisterRefusal, DbFailsRefusal
  <2>3. CASE \E r \in Req : Login(r) \/ Refresh(r) \/ MeFindByIdWithRoles(r)
    BY <2>0, <2>3, LoginRefusal, RefreshRefusal, MeRefusal
  <2>4. ASSUME NEW r \in Req, Land(r)
        PROVE  Refusal'
    BY <2>0, <2>4, LandShape, StaysRefusal DEF LateStep, Fresh, Refusal
  <2> QED
    BY <1>2, <2>1, <2>2, <2>3, <2>4 DEF RefusalNext, Next, Handle
<1> QED
  BY <1>1, <1>2

(***************************************************************************)
(* A client whose account was there, active and unchanged, while its       *)
(* request was served is not refused, whatever other requests, operators   *)
(* and failures do in between; and a refresh is answered 200 or 401.       *)
(***************************************************************************)
THEOREM RefusalsStayHonest == RefusalSpec => []RefusalsAreHonest
<1>1. RefusalInit => Init
  BY DEF RefusalInit
<1>2. [RefusalNext]_refusalVars => [Next]_vars
  BY DEF RefusalNext, refusalVars
<1>3. Init => UniqueAccounts /\ RoleKept
  BY AuthAssumption DEF Init, UniqueAccounts, Stored, Seeded, RoleKept
<1>4. Refusal => RefusalsAreHonest
  BY DEF Refusal, RequestRefusal, RefusalsAreHonest
<1> QED
  BY InitTyped, NextTyped, <1>3, NextUnique, InitFresh, NextFresh, NextRoleKept, InitRefusal,
     NextRefusal, <1>1, <1>2, <1>4, PTL DEF RefusalSpec

----------------------------------------------------------------------------
(* Leases.                                                                 *)

(***************************************************************************)
(* Tokens are only signed by the three steps that have read the account,   *)
(* for the account and the moment at hand.                                 *)
(***************************************************************************)
LEMMA TokensAreSigned ==
  ASSUME Typed, Next, NEW r \in Req, pair'[r] # pair[r]
  PROVE  /\ pc[r] \in Holding /\ now' = now
         /\ pair'[r] = GenerateTokens(read[r].id, read[r].row.roles, now)
<1>0. TypeOK
  BY DEF Typed
<1>1. CASE Crash \/ Edit \/ Tick
  BY <1>1, EnvironmentShape DEF EnvironmentStep
<1>2. CASE \E q \in Req : Arrival(q)
  BY <1>2, ArrivalShape
<1>3. CASE \E q \in Req : DbFails(q) \/ Land(q)
  BY <1>3, DbFailsShape, LandShape DEF locals, LateStep
<1>4. ASSUME NEW q \in Req, Handle(q)
      PROVE  /\ pc[r] \in Holding /\ now' = now
             /\ pair'[r] = GenerateTokens(read[r].id, read[r].row.roles, now)
  <2>1. q = r
    BY <1>4, HandlerShape DEF HandlerStep, OthersUntouched, Untouched
  <2>2. CASE RegisterGenerateTokens(r)
    BY <1>0, <2>2 DEF RegisterGenerateTokens, Holding, TypeOK, Reads, bounds
  <2>3. CASE LoginVerifyPassword(r)
    BY <1>0, <2>3 DEF LoginVerifyPassword, Holding, TypeOK, Reads, bounds
  <2>4. CASE RefreshGenerateTokens(r)
    BY <1>0, <2>4 DEF RefreshGenerateTokens, Holding, TypeOK, Reads, bounds
  <2>5. CASE ~(RegisterGenerateTokens(r) \/ LoginVerifyPassword(r) \/ RefreshGenerateTokens(r))
    BY <1>4, <2>1, <2>5, LookUpShape DEF Handle, Register, Login, Refresh, RegisterFindByUsername,
       RegisterFindByEmail, RegisterFindRoleByName, RegisterCreateUser, RegisterSendWelcomeEmail,
       LoginFindByUsername, LoginFindByIdWithRoles, RefreshFindByIdWithRoles, MeFindByIdWithRoles
  <2> QED
    BY <2>2, <2>3, <2>4, <2>5
<1> QED
  BY <1>1, <1>2, <1>3, <1>4 DEF Next

(***************************************************************************)
(* The inductive invariant: a token expires at most its life after its     *)
(* account was last warm.  That the account a handler is about to sign for *)
(* is warm now comes from Warranted: the row it holds is active and in its *)
(* own history.                                                            *)
(***************************************************************************)
Expires(r) ==
  pair[r] # None =>
    /\ pair[r].access.exp <= warm[pair[r].access.userId] + AccessLife
    /\ pair[r].refresh.exp <= warm[pair[r].refresh.userId] + RefreshLife

Leased ==
  /\ warm \in [UserId -> Nat]
  /\ \A u \in UserId : warm[u] <= now
  /\ \A u \in Warm : warm[u] = now
  /\ \A r \in Req : Expires(r)

LEMMA WarmAccounts == Typed => Warm \subseteq UserId
<1> SUFFICES ASSUME Typed
             PROVE  Warm \subseteq UserId
  OBVIOUS
<1> DEFINE Of(rows) == {s.id : s \in {a \in rows : ActiveRow(a)}}
<1>1. Of(Rows(users)) \subseteq UserId
  BY DEF Rows, Stored
<1>2. \A r \in InFlight : Of(seen[r]) \subseteq UserId
  BY DEF InFlight, Typed, TypeOK, Snapshot
<1>3. Warm = Of(Rows(users)) \cup UNION {Of(seen[r]) : r \in InFlight}
  BY DEF Warm
<1> HIDE DEF Of
<1> QED
  BY <1>1, <1>2, <1>3

LEMMA WarmAccountsNext == Typed' => (Warm \subseteq UserId)'
  BY WarmAccounts, PTL

LEMMA InitLeased == LeaseInit => Leased
<1> SUFFICES ASSUME LeaseInit
             PROVE  Leased
  OBVIOUS
<1>1. now = 0 /\ warm = [u \in UserId |-> 0] /\ \A r \in Req : pair[r] = None /\ seen[r] = {}
  BY DEF LeaseInit, Init
<1>2. Warm \subseteq UserId
  BY InitTyped, WarmAccounts DEF LeaseInit
<1> QED
  BY <1>1, <1>2 DEF Leased, Expires

(***************************************************************************)
(* An account whose row a handler is about to sign from is warm.           *)
(***************************************************************************)
LEMMA HeldIsWarm ==
  ASSUME Typed, Warranted, NEW r \in Req, pc[r] \in Holding
  PROVE  read[r].id \in Warm /\ read[r] \in Snapshot
<1>1. RowWarranted(r) /\ r \in InFlight /\ read[r] \in Snapshot
  BY DEF Warranted, RequestWarranted, InFlight, Typed, RequestOK, Holding, Calls, RegisterCalls,
     LoginCalls, RefreshCalls
<1>2. PICK s \in seen[r] : s.id = read[r].id /\ Roleless(s.row) = Roleless(read[r].row)
  BY <1>1 DEF RowWarranted, Glimpsed
<1>3. s.row \in UserRow /\ read[r].row \in UserRow /\ read[r].row.isActive
  BY <1>1 DEF Typed, TypeOK, Snapshot, RowWarranted
<1>4. s \in {a \in seen[r] : ActiveRow(a)}
  BY <1>2, <1>3, RolelessFacts DEF ActiveRow
<1> QED
  BY <1>1, <1>2, <1>4 DEF Warm

LEMMA NextLeased ==
  Typed /\ Typed' /\ Warranted /\ Leased /\ [LeaseNext]_leaseVars => Leased'
<1> SUFFICES ASSUME Typed, Typed', Warranted, Leased, [LeaseNext]_leaseVars
             PROVE  Leased'
  OBVIOUS
<1>1. CASE UNCHANGED leaseVars
  BY <1>1 DEF leaseVars, vars, Leased, Expires, Warm, Rows, Stored, InFlight, ActiveRow
<1>2. CASE LeaseNext
  <2>1. Next /\ BoundsGrow /\ warm' = [u \in UserId |-> IF u \in Warm' THEN now' ELSE warm[u]]
    BY <1>2, NextBounds DEF LeaseNext, Warmed
  <2>2. warm' \in [UserId -> Nat]
    BY <2>1 DEF Leased, BoundsGrow
  <2>3. \A u \in UserId : warm[u] <= warm'[u] /\ warm'[u] <= now' /\ warm'[u] \in Nat
    BY <2>1 DEF Leased, BoundsGrow
  <2>4. Warm' \subseteq UserId
    BY WarmAccountsNext
  <2>5. \A u \in Warm' : warm'[u] = now'
    BY <2>1, <2>4
  <2>6. ASSUME NEW r \in Req
        PROVE  Expires(r)'
    <3>1. CASE pair'[r] = pair[r]
      <4>1. CASE pair[r] = None
        BY <3>1, <4>1 DEF Expires
      <4>2. CASE pair[r] # None
        <5>1. pair[r] \in Pair
          BY <4>2 DEF Typed, TypeOK
        <5>2. /\ pair[r].access.userId \in UserId /\ pair[r].access.exp \in Nat
              /\ pair[r].refresh.userId \in UserId /\ pair[r].refresh.exp \in Nat
          BY <5>1 DEF Pair, Token
        <5>3. /\ pair[r].access.exp <= warm[pair[r].access.userId] + AccessLife
              /\ pair[r].refresh.exp <= warm[pair[r].refresh.userId] + RefreshLife
          BY <4>2 DEF Leased, Expires
        <5>4. \A u \in UserId : warm[u] \in Nat
          BY DEF Leased
        <5> QED
          BY <2>3, <3>1, <5>2, <5>3, <5>4, LifeAssumption DEF Expires
      <4> QED
        BY <4>1, <4>2
    <3>2. CASE pair'[r] # pair[r]
      <4>1. /\ pc[r] \in Holding /\ now' = now
            /\ pair'[r] = GenerateTokens(read[r].id, read[r].row.roles, now)
        BY <2>1, <3>2, TokensAreSigned
      <4>2. read[r].id \in Warm /\ read[r].id \in UserId
        BY <4>1, HeldIsWarm DEF Snapshot
      <4>3. warm[read[r].id] = now
        BY <4>2 DEF Leased
      <4>4. warm'[read[r].id] = now
        BY <2>3, <4>1, <4>2, <4>3, <2>1 DEF BoundsGrow, Leased
      <4>5. /\ pair'[r].access.userId = read[r].id /\ pair'[r].access.exp = now + AccessLife
            /\ pair'[r].refresh.userId = read[r].id /\ pair'[r].refresh.exp = now + RefreshLife
        BY <4>1 DEF GenerateTokens, Sign
      <4> QED
        BY <4>4, <4>5, LifeAssumption, <2>1 DEF Expires, BoundsGrow
    <3> QED
      BY <3>1, <3>2
  <2> QED
    BY <2>2, <2>3, <2>5, <2>6 DEF Leased
<1> QED
  BY <1>1, <1>2

(***************************************************************************)
(* Only an arrival leaves "new", and it is let in by a token that was sent *)
(* and has not expired.                                                    *)
(***************************************************************************)
LEMMA AdmittedInTime ==
  ASSUME SecretsDiffer, Typed, Lineage, Leased, Next, NEW r \in Req
  PROVE  /\ Admitted(r, "me.findByIdWithRoles") => now < warm[req'[r].token.userId] + AccessLife
         /\ Admitted(r, "refresh.findByIdWithRoles") =>
              now < warm[req'[r].token.userId] + RefreshLife
<1>0. TypeOK
  BY DEF Typed
<1> USE DEF Calls, RegisterCalls, LoginCalls, RefreshCalls, MeCalls
<1>1. SUFFICES ASSUME pc[r] = "new",
                      pc'[r] \in {"me.findByIdWithRoles", "refresh.findByIdWithRoles"}
               PROVE  \/ /\ pc'[r] = "me.findByIdWithRoles"
                         /\ now < warm[req'[r].token.userId] + AccessLife
                      \/ /\ pc'[r] = "refresh.findByIdWithRoles"
                         /\ now < warm[req'[r].token.userId] + RefreshLife
  BY DEF Admitted
<1>2. Arrival(r)
  <2>1. CASE Crash \/ Edit \/ Tick
    BY <1>1, <2>1, EnvironmentShape DEF EnvironmentStep
  <2>2. ASSUME NEW q \in Req, Handle(q) \/ DbFails(q) \/ Land(q)
        PROVE  FALSE
    BY <1>1, <2>2, HandlerShape, LandShape DEF HandlerStep, LateStep, OthersUntouched, Untouched
  <2>3. ASSUME NEW q \in Req, Arrival(q)
        PROVE  q = r
    BY <1>1, <2>3, ArrivalShape DEF OthersUntouched, Untouched
  <2> QED
    BY <2>1, <2>2, <2>3 DEF Next
<1>3. \A a : ~Finish(r, a)
  BY <1>0, <1>1, FinishOthers
<1>4. ASSUME NEW token \in Presentable, NEW t \in {"access", "refresh"},
             NEW d \in Delivered, token = pair[d][t]
      PROVE  /\ token.exp \in Nat /\ token.userId \in UserId
             /\ token.exp <= warm[token.userId] + (IF t = "access" THEN AccessLife ELSE RefreshLife)
  <2>1. pair[d] # None /\ pair[d] \in Pair /\ d \in Req
    BY <1>0 DEF Delivered, TypeOK
  <2>2. pair[d].access \in Token /\ pair[d].refresh \in Token
    BY <2>1 DEF Pair
  <2>3. Expires(d)
    BY <2>1 DEF Leased
  <2> QED
    BY <1>4, <2>1, <2>2, <2>3 DEF Expires, Token
<1>5. /\ now \in Nat /\ AccessLife \in Nat /\ RefreshLife \in Nat
      /\ \A u \in UserId : warm[u] \in Nat
  BY <1>0, LifeAssumption DEF TypeOK, Leased
<1>6. CASE ArriveMe(r)
  <2>1. PICK token \in Presentable : /\ Arrive(r, [op |-> "me", token |-> token])
                                     /\ VerifiesAccess(token, now)
                                     /\ Await(r, "me.findByIdWithRoles")
    BY <1>3, <1>6 DEF ArriveMe, Throw
  <2>2. req'[r].token = token /\ pc'[r] = "me.findByIdWithRoles"
    BY <1>0, <2>1, AwaitOthers DEF Arrive, TypeOK
  <2>3. PICK d \in Delivered : pair[d].access = token
    BY <2>1, PresentedWasDelivered
  <2>4. token.exp \in Nat /\ token.userId \in UserId /\ token.exp <= warm[token.userId] + AccessLife
    BY <2>3, <1>4
  <2> QED
    BY <1>5, <2>1, <2>2, <2>4 DEF VerifiesAccess, Verifies
<1>7. CASE ArriveRefresh(r)
  <2>1. PICK token \in Presentable : /\ Arrive(r, [op |-> "refresh", token |-> token])
                                     /\ VerifiesRefresh(token, now)
                                     /\ Await(r, "refresh.findByIdWithRoles")
    BY <1>3, <1>7 DEF ArriveRefresh, Throw
  <2>2. req'[r].token = token /\ pc'[r] = "refresh.findByIdWithRoles"
    BY <1>0, <2>1, AwaitOthers DEF Arrive, TypeOK
  <2>3. PICK d \in Delivered : pair[d].refresh = token
    BY <2>1, PresentedWasDelivered
  <2>4. token.exp \in Nat /\ token.userId \in UserId /\ token.exp <= warm[token.userId] + RefreshLife
    BY <2>3, <1>4
  <2> QED
    BY <1>5, <2>1, <2>2, <2>4 DEF VerifiesRefresh, Verifies
<1>8. ASSUME ArriveRegister(r) \/ ArriveLogin(r)
      PROVE  FALSE
  <2>1. Await(r, "register.findByUsername") \/ Await(r, "login.findByUsername")
    BY <1>8 DEF ArriveRegister, ArriveLogin
  <2> QED
    BY <1>0, <1>1, <2>1, AwaitOthers
<1> QED
  BY <1>2, <1>6, <1>7, <1>8 DEF Arrival

(***************************************************************************)
(* With the two secrets apart: an account that is deactivated or deleted   *)
(* is out of GET /me within the life of an access token, and can no longer *)
(* be refreshed within that of a refresh token, counted from the last      *)
(* moment at which it was active or a handler at work had seen it active,  *)
(* for any number of requests and any chain of refreshes.                  *)
(***************************************************************************)
THEOREM AccessAlwaysEnds == SecretsDiffer => (LeaseSpec => AccessEnds)
<1> SUFFICES ASSUME SecretsDiffer
             PROVE  LeaseSpec => AccessEnds
  OBVIOUS
<1>1. LeaseInit => Init
  BY DEF LeaseInit
<1>2. [LeaseNext]_leaseVars => [Next]_vars
  BY DEF LeaseNext, leaseVars
<1>3. Typed /\ Fresh /\ Warranted /\ Lineage /\ [Next]_vars => Lineage'
  BY NextLineage
<1>4. Typed /\ Lineage /\ Leased /\ [LeaseNext]_leaseVars =>
        [\A r \in Req :
           /\ Admitted(r, "me.findByIdWithRoles") => now < warm[req'[r].token.userId] + AccessLife
           /\ Admitted(r, "refresh.findByIdWithRoles") =>
                now < warm[req'[r].token.userId] + RefreshLife]_leaseVars
  BY AdmittedInTime DEF LeaseNext
<1> QED
  BY InitTyped, NextTyped, InitFresh, NextFresh, InitWarranted, NextWarranted,
     InitLineage, <1>3, InitLeased, NextLeased, <1>1, <1>2, <1>4, PTL DEF LeaseSpec, AccessEnds
=============================================================================
