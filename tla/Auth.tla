-------------------------------- MODULE Auth --------------------------------
(***************************************************************************)
(* The authentication service: the handlers register, login, refreshToken  *)
(* and getCurrentUser of src/modules/auth, from the route to the answer,   *)
(* run as interleaved requests over one database.                          *)
(*                                                                         *)
(* Node runs the code between two awaits without interruption, so one      *)
(* action is what happens from one await to the next: the awaited call, as *)
(* it takes effect in the database or at the mail server, and the code     *)
(* that follows it up to the next call.  Where that code signs tokens, the *)
(* call and the code are two actions, because the row just read may change *)
(* before the tokens are signed from it.  A look-up of an account is three *)
(* actions, one per SELECT.  pc[r] names the call request r is waiting for.*)
(*                                                                         *)
(* A request is modelled from the moment it has passed validate() of its   *)
(* route.  The account a register request creates has the id of the        *)
(* request, which stands for the random uuid of the row.                   *)
(***************************************************************************)
EXTENDS AuthRepository, Jwt

CONSTANTS
  Req,           \* requests
  InitialUsers,  \* the rows of the accounts registered earlier
  Ops,           \* the endpoints a model calls
  None,
  MaxFaults,     \* bound on failed calls and crashes
  MaxEdits,      \* bound on changes made past the API
  MaxTime        \* bound on the clock

Seeded == UserId \ Req

ASSUME AuthAssumption ==
  /\ Req \subseteq UserId
  /\ InitialUsers \in [Seeded -> UserRow]
  /\ \A u, v \in Seeded : u # v =>
       /\ InitialUsers[u].username # InitialUsers[v].username
       /\ InitialUsers[u].email # InitialUsers[v].email
  /\ Ops \subseteq {"register", "login", "refresh", "me"}
  /\ MaxFaults \in Nat /\ MaxEdits \in Nat /\ MaxTime \in Nat

\* None is no answer.
ASSUME NoneAssumption == None \notin AnswerSet

VARIABLES
  req,      \* request -> what the client sent
  pc,       \* request -> the call it waits for
  found,    \* request -> the account its look-up has found so far
  read,     \* request -> the account its handler holds: id and row, as read
  roleId,   \* request -> the id of the role register found
  pair,     \* request -> the tokens its handler has signed
  answer,   \* request -> the answer of the server
  mailed,   \* the requests whose welcome mail the mail server accepted
  adrift,   \* the requests whose insert is at the database, unknown to the handler
  seen,     \* history: request -> the accounts stored at some moment since it arrived
  now, faults, edits

locals == <<read, roleId, pair, mailed>>
bounds == <<now, faults, edits>>
vars   == <<users, userRole, req, pc, found, read, roleId, pair, answer, mailed, adrift, seen,
            now, faults, edits>>

Token    == [secret : Secrets, userId : UserId, roles : SUBSET RoleName, exp : Nat]
Pair     == [access : Token, refresh : Token]
Snapshot == [id : UserId, row : UserRow]

\* None is none of these.
ASSUME NothingAssumption ==
  None \notin Token /\ None \notin Pair /\ None \notin Snapshot /\ None \notin Partial

RegisterRequest == [op : {"register"}, username : Username, email : Email, password : Password]
LoginRequest    == [op : {"login"}, username : Username, password : Password]
RefreshRequest  == [op : {"refresh"}, token : Token]
MeRequest       == [op : {"me"}, token : Token \cup {None}]

Request == RegisterRequest \cup LoginRequest \cup RefreshRequest \cup MeRequest

\* The awaited calls of each handler.
RegisterCalls == {"register.findByUsername", "register.findByEmail", "register.findRoleByName",
                  "register.createUser", "register.generateTokens", "register.sendWelcomeEmail"}
LoginCalls    == {"login.findByUsername", "login.verifyPassword", "login.findByIdWithRoles"}
RefreshCalls  == {"refresh.findByIdWithRoles", "refresh.generateTokens"}
MeCalls       == {"me.findByIdWithRoles"}

Calls == RegisterCalls \cup LoginCalls \cup RefreshCalls \cup MeCalls

DbCalls == Calls \ {"register.generateTokens", "register.sendWelcomeEmail",
                    "login.verifyPassword", "refresh.generateTokens"}

\* findByUsername, findByEmail, findByIdWithRoles.
LookUps == DbCalls \ {"register.findRoleByName", "register.createUser"}

TypeOK ==
  /\ DbTypeOK
  /\ req \in [Req -> Request \cup {None}]
  /\ pc \in [Req -> Calls \cup {"new", "done", "lost"}]
  /\ found \in [Req -> Partial \cup {None}]
  /\ read \in [Req -> Snapshot \cup {None}]
  /\ roleId \in [Req -> Nat]
  /\ pair \in [Req -> Pair \cup {None}]
  /\ answer \in [Req -> AnswerSet \cup {None}]
  /\ mailed \subseteq Req /\ adrift \subseteq Req
  /\ seen \in [Req -> SUBSET Snapshot]
  /\ now \in Nat /\ faults \in Nat /\ edits \in Nat

InFlight == {r \in Req : pc[r] \in Calls}

Rows(table) == {[id |-> u, row |-> table[u]] : u \in Stored(table)}

\* Whoever is waiting sees the rows a step stores.
Witness == seen' = [r \in Req |-> IF r \in InFlight THEN seen[r] \cup Rows(users') ELSE seen[r]]

Init ==
  /\ users = [u \in UserId |-> IF u \in Seeded THEN InitialUsers[u] ELSE NoUser]
  /\ userRole = [id |-> 0, present |-> TRUE]
  /\ req = [r \in Req |-> None]
  /\ pc = [r \in Req |-> "new"]
  /\ found = [r \in Req |-> None]
  /\ read = [r \in Req |-> None]
  /\ roleId = [r \in Req |-> 0]
  /\ pair = [r \in Req |-> None]
  /\ answer = [r \in Req |-> None]
  /\ mailed = {} /\ adrift = {}
  /\ seen = [r \in Req |-> {}]
  /\ now = 0 /\ faults = 0 /\ edits = 0

----------------------------------------------------------------------------
(* What a handler does with its own request.                               *)

Await(r, call) == pc' = [pc EXCEPT ![r] = call] /\ UNCHANGED answer

Finish(r, a) == pc' = [pc EXCEPT ![r] = "done"] /\ answer' = [answer EXCEPT ![r] = a]

\* ok(req, res, result)
Return(r) == Finish(r, OkAnswer)

\* Mutant: asyncHandler without .catch(next): nobody answers.
ThrowUncaught(r, e) == UNCHANGED <<pc, answer>>

\* asyncHandler and authenticate hand the error to the error middleware.
Throw(r, e) == Finish(r, ErrorMiddleware(e))

\* The tokens a client can send: those of an answer it got, and ones that name
\* an account registered earlier but are not signed with the server's secrets.
Delivered == {r \in Req : answer[r] = OkAnswer /\ pair[r] # None}

Presentable ==
  {pair[r].access : r \in Delivered} \cup {pair[r].refresh : r \in Delivered}
    \cup {Sign(u, RoleName, ForeignSecret, 0, AccessLife) : u \in Seeded}

\* A request arrives: the history of what it can have seen starts.
Arrive(r, request) ==
  /\ pc[r] = "new"
  /\ request.op \in Ops
  /\ req' = [req EXCEPT ![r] = request]
  /\ seen' = [seen EXCEPT ![r] = Rows(users)]
  /\ UNCHANGED <<db, found, locals, adrift, bounds>>

\* A step that leaves the database as it is.
Reads == UNCHANGED <<db, req, mailed, adrift, seen, bounds>>

----------------------------------------------------------------------------
(* The look-up of an account, SELECT by SELECT.                            *)

Matching(r) ==
  CASE pc[r] \in {"register.findByUsername", "login.findByUsername"}
         -> FindByUsername(req[r].username)
    [] pc[r] = "register.findByEmail"    -> FindByEmail(req[r].email)
    [] pc[r] = "login.findByIdWithRoles" -> FindById(read[r].id)
    [] OTHER                             -> FindById(req[r].token.userId)

FindUser(r) ==
  /\ pc[r] \in LookUps /\ found[r] = None
  /\ \E u \in Matching(r) : found' = [found EXCEPT ![r] = SelectUser(u)]
  /\ Reads /\ UNCHANGED <<pc, answer, read, roleId, pair>>

FindUserRoles(r) ==
  /\ pc[r] \in LookUps /\ found[r] # None /\ ~found[r].mapped
  /\ found' = [found EXCEPT ![r] = SelectUserRoles(found[r])]
  /\ Reads /\ UNCHANGED <<pc, answer, read, roleId, pair>>

\* The look-up of r is over, and its result is found[r]: nothing without a row
\* in users, and the account when the last SELECT has returned its roles.
Returns(r) ==
  IF found[r] = None THEN Matching(r) = {} ELSE found[r].mapped /\ ~LosesRole(found[r])

\* The handler takes the result.
Take(r) == found' = [found EXCEPT ![r] = None]

Account(half) == [id |-> half.id, row |-> half.row]

\* The catch of refreshToken: what is not an UnauthorizedError becomes one.
RefreshCatch(e) ==
  IF e.app /\ e.statusCode = 401 THEN e ELSE UnauthorizedError("INVALID_TOKEN")

\* A query rejects.
Reject(r) == \E e \in DbErrors : Throw(r, IF req[r].op = "refresh" THEN RefreshCatch(e) ELSE e)

\* A role that was mapped to the account is not there any more.
RoleIsLost(r) ==
  /\ pc[r] \in LookUps /\ found[r] # None /\ found[r].mapped
  /\ LosesRole(found[r])
  /\ Reject(r)
  /\ Take(r) /\ Reads /\ UNCHANGED <<read, roleId, pair>>

LookUp(r) == FindUser(r) \/ FindUserRoles(r) \/ RoleIsLost(r)

----------------------------------------------------------------------------
(* POST /register                                                          *)

ArriveRegister(r) ==
  \E username \in Username, email \in Email, password \in Password :
    /\ Arrive(r, [op |-> "register", username |-> username, email |-> email,
                  password |-> password])
    /\ Await(r, "register.findByUsername")

RegisterFindByUsername(r) ==
  /\ pc[r] = "register.findByUsername" /\ Returns(r)
  /\ IF found[r] # None
     THEN Throw(r, ConflictError("RECORD_CONFLICT"))
     ELSE Await(r, "register.findByEmail")
  /\ Take(r) /\ Reads /\ UNCHANGED <<read, roleId, pair>>

RegisterFindByEmail(r) ==
  /\ pc[r] = "register.findByEmail" /\ Returns(r)
  /\ IF found[r] # None
     THEN Throw(r, ConflictError("RECORD_CONFLICT"))
     ELSE Await(r, "register.findRoleByName")
  /\ Take(r) /\ Reads /\ UNCHANGED <<read, roleId, pair>>

RegisterFindRoleByName(r) ==
  /\ pc[r] = "register.findRoleByName"
  /\ IF userRole.present
     THEN Await(r, "register.createUser") /\ roleId' = [roleId EXCEPT ![r] = userRole.id]
     ELSE Throw(r, InternalServerError("INTERNAL_ERROR")) /\ UNCHANGED roleId
  /\ Reads /\ UNCHANGED <<found, read, pair>>

\* Mutant: whatever rejects the insert is reported as an existing account.
RejectionAsConflict(r) == UniqueConstraintFailed

\* The constraint the database names, if the row cannot be stored.
Rejection(r) ==
  IF ViolatesUnique(req[r].username, req[r].email) THEN UniqueConstraintFailed
  ELSE ForeignKeyFailed

Storable(r) ==
  ~ViolatesUnique(req[r].username, req[r].email) /\ ~ViolatesRoleKey(roleId[r])

\* Mutant: the password is stored as it came.
UnhashedRow(r) == NewRow(req[r].username, req[r].email, req[r].password)

RegisteredRow(r) == NewRow(req[r].username, req[r].email, Hash(req[r].password))

\* Mutant: an upsert, which returns the row that is in the way.
RegisterUpsertUser(r) ==
  /\ pc[r] = "register.createUser"
  /\ \/ /\ Storable(r)
        /\ InsertUser(r, RegisteredRow(r))
        /\ read' = [read EXCEPT ![r] = [id |-> r, row |-> RegisteredRow(r)]]
     \/ /\ ~Storable(r)
        /\ \E u \in FindByUsername(req[r].username) :
             read' = [read EXCEPT ![r] = [id |-> u, row |-> users[u]]]
        /\ UNCHANGED db
  /\ Await(r, "register.generateTokens")
  /\ Witness
  /\ UNCHANGED <<req, found, roleId, pair, mailed, adrift, bounds>>

RegisterCreateUser(r) ==
  /\ pc[r] = "register.createUser"
  /\ \/ /\ Storable(r)
        /\ InsertUser(r, RegisteredRow(r))
        /\ read' = [read EXCEPT ![r] = [id |-> r, row |-> RegisteredRow(r)]]
        /\ Await(r, "register.generateTokens")
     \/ /\ ~Storable(r)
        /\ Throw(r, Rejection(r))
        /\ UNCHANGED <<db, read>>
  /\ Witness
  /\ UNCHANGED <<req, found, roleId, pair, mailed, adrift, bounds>>

RegisterGenerateTokens(r) ==
  /\ pc[r] = "register.generateTokens"
  /\ pair' = [pair EXCEPT ![r] = GenerateTokens(read[r].id, read[r].row.roles, now)]
  /\ Await(r, "register.sendWelcomeEmail")
  /\ Reads /\ UNCHANGED <<found, read, roleId>>

\* What the mail server may make the handler see: nodemailer rejects with a
\* code of its own (no connection, refused log-in, time-out).
MailError == CodedError("Error", "ESOCKET", "plain")

\* The mail may fail before or after the server has taken it.
RegisterSendWelcomeEmail(r) ==
  /\ pc[r] = "register.sendWelcomeEmail"
  /\ \/ /\ mailed' = mailed \cup {r}
        /\ Return(r)
        /\ UNCHANGED faults
     \/ /\ faults < MaxFaults
        /\ faults' = faults + 1
        /\ mailed' \in {mailed, mailed \cup {r}}
        /\ Throw(r, MailError)
  /\ UNCHANGED <<db, req, found, read, roleId, pair, adrift, seen, now, edits>>

Register(r) ==
  \/ RegisterFindByUsername(r)
  \/ RegisterFindByEmail(r)
  \/ RegisterFindRoleByName(r)
  \/ RegisterCreateUser(r)
  \/ RegisterGenerateTokens(r)
  \/ RegisterSendWelcomeEmail(r)

----------------------------------------------------------------------------
(* POST /login                                                             *)

ArriveLogin(r) ==
  \E username \in Username, password \in Password :
    /\ Arrive(r, [op |-> "login", username |-> username, password |-> password])
    /\ Await(r, "login.findByUsername")

LoginFindByUsername(r) ==
  /\ pc[r] = "login.findByUsername" /\ Returns(r)
  /\ IF found[r] # None /\ found[r].row.isActive
     THEN /\ read' = [read EXCEPT ![r] = Account(found[r])]
          /\ Await(r, "login.verifyPassword")
     ELSE /\ Throw(r, UnauthorizedError("INVALID_CREDENTIALS"))
          /\ UNCHANGED read
  /\ Take(r) /\ Reads /\ UNCHANGED <<roleId, pair>>

\* Mutant: the password is compared unhashed.
PasswordUnhashed(r) == read[r].row.password = req[r].password

PasswordValid(r) == read[r].row.password = Hash(req[r].password)

\* Mutant: the tokens are signed from the row as it is after bcrypt.compare.
LoginSignsLatest(r) ==
  /\ pc[r] = "login.verifyPassword"
  /\ IF PasswordValid(r) /\ users[read[r].id] # NoUser
     THEN /\ pair' = [pair EXCEPT ![r] = GenerateTokens(read[r].id, users[read[r].id].roles, now)]
          /\ Await(r, "login.findByIdWithRoles")
     ELSE /\ Throw(r, UnauthorizedError("INVALID_CREDENTIALS"))
          /\ UNCHANGED pair
  /\ Reads /\ UNCHANGED <<found, read, roleId>>

\* bcrypt.compare; the tokens are signed from the row read before it.
LoginVerifyPassword(r) ==
  /\ pc[r] = "login.verifyPassword"
  /\ IF PasswordValid(r)
     THEN /\ pair' = [pair EXCEPT ![r] = GenerateTokens(read[r].id, read[r].row.roles, now)]
          /\ Await(r, "login.findByIdWithRoles")
     ELSE /\ Throw(r, UnauthorizedError("INVALID_CREDENTIALS"))
          /\ UNCHANGED pair
  /\ Reads /\ UNCHANGED <<found, read, roleId>>

LoginFindByIdWithRoles(r) ==
  /\ pc[r] = "login.findByIdWithRoles" /\ Returns(r)
  /\ IF found[r] = None
     THEN Throw(r, UnauthorizedError("INVALID_CREDENTIALS"))
     ELSE Return(r)
  /\ Take(r) /\ Reads /\ UNCHANGED <<read, roleId, pair>>

Login(r) == LoginFindByUsername(r) \/ LoginVerifyPassword(r) \/ LoginFindByIdWithRoles(r)

----------------------------------------------------------------------------
(* POST /refresh-token                                                     *)

\* The token is verified before the first await.
ArriveRefresh(r) ==
  \E token \in Presentable :
    /\ Arrive(r, [op |-> "refresh", token |-> token])
    /\ IF VerifiesRefresh(token, now)
       THEN Await(r, "refresh.findByIdWithRoles")
       ELSE Throw(r, RefreshCatch(VerifyError(token, RefreshSecret)))

\* Mutant: an account that was deactivated is still refreshed.
RefreshableIfStored(user) == user # None

Refreshable(user) == user # None /\ user.row.isActive

RefreshFindByIdWithRoles(r) ==
  /\ pc[r] = "refresh.findByIdWithRoles" /\ Returns(r)
  /\ IF Refreshable(found[r])
     THEN /\ read' = [read EXCEPT ![r] = Account(found[r])]
          /\ Await(r, "refresh.generateTokens")
     ELSE /\ Throw(r, RefreshCatch(UnauthorizedError("INVALID_CREDENTIALS")))
          /\ UNCHANGED read
  /\ Take(r) /\ Reads /\ UNCHANGED <<roleId, pair>>

RefreshGenerateTokens(r) ==
  /\ pc[r] = "refresh.generateTokens"
  /\ pair' = [pair EXCEPT ![r] = GenerateTokens(read[r].id, read[r].row.roles, now)]
  /\ Return(r)
  /\ Reads /\ UNCHANGED <<found, read, roleId>>

Refresh(r) == RefreshFindByIdWithRoles(r) \/ RefreshGenerateTokens(r)

----------------------------------------------------------------------------
(* GET /me: authenticate runs first, without an await.                     *)

ArriveMe(r) ==
  \E token \in Presentable \cup {None} :
    /\ Arrive(r, [op |-> "me", token |-> token])
    /\ IF token = None THEN Throw(r, UnauthorizedError("UNAUTHORIZED"))
       ELSE IF VerifiesAccess(token, now) THEN Await(r, "me.findByIdWithRoles")
       ELSE Throw(r, VerifyError(token, AccessSecret))

\* getCurrentUser does not look at isActive.
MeFindByIdWithRoles(r) ==
  /\ pc[r] = "me.findByIdWithRoles" /\ Returns(r)
  /\ IF found[r] = None
     THEN Throw(r, UnauthorizedError("USER_NOT_FOUND")) /\ UNCHANGED read
     ELSE Return(r) /\ read' = [read EXCEPT ![r] = Account(found[r])]
  /\ Take(r) /\ Reads /\ UNCHANGED <<roleId, pair>>

----------------------------------------------------------------------------
(* Failures, operators, time.                                              *)

\* A call to the database is rejected.  When the connection breaks before the
\* reply, createUser has taken effect or may still do so.
DbFails(r) ==
  /\ pc[r] \in DbCalls
  /\ faults < MaxFaults
  /\ faults' = faults + 1
  /\ Reject(r)
  /\ \/ UNCHANGED <<db, adrift>>
     \/ /\ pc[r] = "register.createUser"
        /\ Storable(r)
        /\ InsertUser(r, RegisteredRow(r))
        /\ UNCHANGED adrift
     \/ /\ pc[r] = "register.createUser"
        /\ adrift' = adrift \cup {r}
        /\ UNCHANGED db
  /\ Witness
  /\ Take(r) /\ UNCHANGED <<req, locals, now, edits>>

\* An uncaught exception or an unhandled rejection anywhere in the process:
\* it exits, and the requests it was serving get no answer.  What it has sent
\* to the database may still take effect.
Crash ==
  /\ InFlight # {}
  /\ faults < MaxFaults
  /\ faults' = faults + 1
  /\ pc' = [r \in Req |-> IF r \in InFlight THEN "lost" ELSE pc[r]]
  /\ adrift' = adrift \cup {r \in Req : pc[r] = "register.createUser"}
  /\ UNCHANGED <<db, req, found, locals, answer, seen, now, edits>>

\* The database ends an insert nobody waits for.
Land(r) ==
  /\ r \in adrift
  /\ adrift' = adrift \ {r}
  /\ \/ Storable(r) /\ InsertUser(r, RegisteredRow(r))
     \/ UNCHANGED db
  /\ Witness
  /\ UNCHANGED <<req, pc, found, locals, answer, bounds>>

Edit ==
  /\ edits < MaxEdits
  /\ edits' = edits + 1
  /\ Administer
  /\ Witness
  /\ UNCHANGED <<req, pc, found, locals, answer, adrift, now, faults>>

Tick ==
  /\ now < MaxTime
  /\ now' = now + 1
  /\ UNCHANGED <<db, req, pc, found, locals, answer, adrift, seen, faults, edits>>

----------------------------------------------------------------------------
Arrival(r) == ArriveRegister(r) \/ ArriveLogin(r) \/ ArriveRefresh(r) \/ ArriveMe(r)

Handle(r) == LookUp(r) \/ Register(r) \/ Login(r) \/ Refresh(r) \/ MeFindByIdWithRoles(r)

Next ==
  \/ \E r \in Req : Arrival(r) \/ Handle(r) \/ DbFails(r) \/ Land(r)
  \/ Crash
  \/ Edit
  \/ Tick

Spec == Init /\ [][Next]_vars

\* Every awaited call comes back, and the event loop then runs the handler.
FairSpec == Spec /\ \A r \in Req : WF_vars(Handle(r))

----------------------------------------------------------------------------
(* Properties.  UniqueAccounts is stated in AuthRepository.                *)

\* Tokens are signed for an account only if, at one moment since the request
\* arrived, that account was active, and for a login had the name and the
\* password of the request; and the roles they carry are those the account had
\* at one moment since then, or none.  The handlers check a row and sign from
\* it with awaits in between, and the roles come from a statement of their own:
\* what they sign may be out of date when it is sent, and roles and row of two
\* moments, but never older than the request and never of another account.
SessionsWarranted ==
  \A r \in Req : pair[r] # None =>
    /\ \E s \in seen[r] :
         /\ s.id = pair[r].access.userId /\ s.id = pair[r].refresh.userId
         /\ s.row.isActive
         /\ req[r].op = "login" =>
              s.row.username = req[r].username /\ s.row.password = Hash(req[r].password)
    /\ pair[r].access.roles = pair[r].refresh.roles
    /\ pair[r].access.roles # {} =>
         \E s \in seen[r] :
           s.id = pair[r].access.userId /\ s.row.roles = pair[r].access.roles

\* refreshToken signs for the account the presented token was signed for,
\* and the presented token was the refresh token of an answer, never an
\* access token: so a session goes back, refresh by refresh, to a login or a
\* registration of the same account.  GET /me answers for the account of an
\* access token that was sent to a client.
SessionLineage ==
  \A r \in Req :
    /\ pair[r] # None /\ req[r].op = "refresh" =>
         \E q \in Delivered : /\ pair[q].refresh = req[r].token
                             /\ pair[q].refresh.userId = pair[r].refresh.userId
    /\ answer[r] = OkAnswer /\ req[r].op = "me" =>
         \E q \in Delivered : /\ pair[q].access = req[r].token
                             /\ pair[q].access.userId = read[r].id

\* A registration that is told "already exists", by the look-ups of register
\* or by the unique index, lost to another account that was stored while it
\* ran, and stored nothing itself.
Refused(r, code) == answer[r] # None /\ answer[r].code = code

ConflictIsHonest ==
  \A r \in Req :
    Refused(r, "RECORD_CONFLICT") \/ Refused(r, "DB_UNIQUE_CONSTRAINT") =>
      /\ \A s \in seen[r] : s.id # r
      /\ \E s \in seen[r] : s.row.username = req[r].username \/ s.row.email = req[r].email

\* A registration that is told 200, or whose welcome mail the mail server has
\* taken, has stored the account it was asked for, with the role USER, and what
\* it is sent are tokens for that account and no other, whatever failed around
\* it.
RegistrationComplete ==
  \A r \in Req :
    /\ (answer[r] = OkAnswer /\ req[r].op = "register") \/ r \in mailed =>
         [id |-> r, row |-> RegisteredRow(r)] \in seen[r]
    /\ answer[r] = OkAnswer /\ req[r].op = "register" =>
         pair[r].access.userId = r /\ pair[r].access.roles = {"USER"}

\* Every request that the server has begun to serve is answered, unless the
\* process dies: each error path of each handler ends in an answer.
EveryRequestAnswered ==
  \A r \in Req : r \in InFlight ~> (answer[r] # None \/ pc[r] = "lost")

\* What .env.example promises by calling SMTP optional: a registration whose
\* account is stored and whose tokens are signed succeeds, whatever becomes
\* of the mail.
MailIsOptional ==
  \A r \in Req :
    pc[r] = "done" /\ req[r].op = "register" /\ pair[r] # None => answer[r] = OkAnswer

\* What the branches for JsonWebTokenError and TokenExpiredError of the error
\* middleware promise: GET /me with a token that is unreadable or expired is
\* unauthorized, and as long as nothing fails there is no other answer than
\* that and 200.
BadTokenIsUnauthorized ==
  \A r \in Req :
    faults = 0 /\ answer[r] # None /\ req[r].op = "me" => answer[r].statusCode \in {200, 401}
=============================================================================
