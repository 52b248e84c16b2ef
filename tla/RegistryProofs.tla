--------------------------- MODULE RegistryProofs ---------------------------
(***************************************************************************)
(* The authentication service implements the account registry and the      *)
(* session registry, for every set of requests, accounts and names: the    *)
(* initial states map to initial states, and every step of a handler, a    *)
(* failure, a crash or an operator maps to a step of the registry or to    *)
(* none.                                                                   *)
(***************************************************************************)
EXTENDS AnswerProofs

----------------------------------------------------------------------------
(* What a step changes of the mapped state.                                *)

LEMMA KeptProgress ==
  ASSUME NEW q \in Req, pc'[q] = pc[q], req'[q] = req[q], answer'[q] = answer[q],
         found'[q] = found[q]
  PROVE  Progress(q)' = Progress(q) /\ (Registering(q)' <=> Registering(q))
  BY DEF Progress, Registering, Verdict

LEMMA KeptStanding ==
  ASSUME \A q \in Req : Progress(q)' = Progress(q)
  PROVE  Standing' = Standing
  BY DEF Standing

LEMMA KeptWishes ==
  ASSUME req' = req, \A q \in Req : Registering(q)' <=> Registering(q)
  PROVE  Wished' = Wished
  BY DEF Wished

LEMMA KeptTable ==
  ASSUME users' = users
  PROVE  AccountTable' = AccountTable
  BY DEF AccountTable, AccountAt, Stored

LEMMA MovedStanding ==
  ASSUME NEW r \in Req, NEW from, NEW to, Progress(r) = from, Progress(r)' = to,
         \A q \in Req : q # r => Progress(q)' = Progress(q)
  PROVE  Registry!Move(r, from, to)
  BY DEF Registry!Move, Standing

(***************************************************************************)
(* A step of the handler of a registration that is still on its way: what  *)
(* it asked for stays, and only its own standing moves.                    *)
(***************************************************************************)
LEMMA HandlerMapped ==
  ASSUME NEW r \in Req, HandlerStep(r), Registering(r)' <=> Registering(r)
  PROVE  /\ UNCHANGED Wished
         /\ \A q \in Req : q # r => Progress(q)' = Progress(q)
<1>1. \A q \in Req : q # r => Progress(q)' = Progress(q) /\ (Registering(q)' <=> Registering(q))
  BY KeptProgress DEF HandlerStep, OthersUntouched, Untouched
<1> QED
  BY <1>1, KeptWishes DEF HandlerStep

(***************************************************************************)
(* The account of a registration is stored: by its handler, or late.       *)
(***************************************************************************)
LEMMA InsertMapped ==
  ASSUME Typed, NEW r \in Req, users[r] = NoUser, req[r] \in RegisterRequest, Registering(r),
         Storable(r), InsertUser(r, RegisteredRow(r))
  PROVE  Registry!Insert(r)
<1>1. r \in UserId /\ users \in [UserId -> UserRow \cup {NoUser}]
  BY AuthAssumption DEF Typed, TypeOK, DbTypeOK
<1>2. Wished[r] = [username |-> req[r].username, email |-> req[r].email]
  BY DEF Wished
<1>3. ~Registry!Taken(Wished[r])
  BY <1>2 DEF Registry!Taken, AccountTable, AccountAt, Storable, ViolatesUnique, FindByUsername,
     FindByEmail
<1>4. RegisteredRow(r) \in UserRow /\ RegisteredRow(r) # NoUser
  BY RegisteredRowType, NoUserAssumption
<1>5. users' = [users EXCEPT ![r] = RegisteredRow(r)]
  BY DEF InsertUser
<1>6. Stored(users') = Stored(users) \cup {r}
  BY <1>1, <1>4, <1>5 DEF Stored
<1>7. /\ AccountAt(r)' = [id |-> r, username |-> req[r].username, email |-> req[r].email]
      /\ \A u \in Stored(users) : AccountAt(u)' = AccountAt(u)
  BY <1>1, <1>5 DEF AccountAt, RegisteredRow, NewRow, Stored
<1>8. AccountTable' = AccountTable \cup
        {[id |-> r, username |-> Wished[r].username, email |-> Wished[r].email]}
  BY <1>2, <1>6, <1>7 DEF AccountTable
<1> QED
  BY <1>3, <1>8 DEF Registry!Insert

LEMMA TakenMapped ==
  ASSUME NEW r \in Req, Registering(r),
         FindByUsername(req[r].username) # {} \/ FindByEmail(req[r].email) # {}
  PROVE  Registry!Taken(Wished[r])
<1>1. Wished[r] = [username |-> req[r].username, email |-> req[r].email]
  BY DEF Wished
<1>2. PICK u \in Stored(users) : \/ users[u].username = req[r].username
                                \/ users[u].email = req[r].email
  BY DEF FindByUsername, FindByEmail
<1>3. /\ AccountAt(u) \in AccountTable
      /\ AccountAt(u).username = users[u].username /\ AccountAt(u).email = users[u].email
  BY DEF AccountTable, AccountAt
<1> QED
  BY <1>1, <1>2, <1>3 DEF Registry!Taken

----------------------------------------------------------------------------
(* Each step is a step of the registry.                                    *)

RegistryStep == Registry!Next \/ UNCHANGED Registry!vars

LEMMA StutterMapped ==
  ASSUME UNCHANGED AccountTable, req' = req,
         \A q \in Req : Progress(q)' = Progress(q) /\ (Registering(q)' <=> Registering(q))
  PROVE  RegistryStep
  BY KeptStanding, KeptWishes DEF RegistryStep, Registry!vars

(***************************************************************************)
(* What is known of a registration whose handler takes a step.             *)
(***************************************************************************)
LEMMA RegisteringStep ==
  ASSUME Typed, NEW r \in Req, HandlerStep(r), pc[r] \in RegisterCalls, pc'[r] # "new"
  PROVE  /\ req[r] \in RegisterRequest /\ Registering(r) /\ Registering(r)'
         /\ UNCHANGED Wished
         /\ \A q \in Req : q # r => /\ Progress(q)' = Progress(q)
                                    /\ Registering(q)' <=> Registering(q)
         /\ Progress(r) = IF pc[r] \in Created THEN "created"
                          ELSE IF found[r] # None THEN "taken" ELSE "pending"
         /\ pc'[r] = "done" => Progress(r)' = Verdict(answer'[r])
         /\ pc'[r] \in RegisterCalls =>
              Progress(r)' = IF pc'[r] \in Created THEN "created"
                             ELSE IF found'[r] # None THEN "taken" ELSE "pending"
<1>1. req[r] \in RegisterRequest /\ req' = req
  BY DEF Typed, RequestOK, HandlerStep
<1>2. Registering(r) /\ Registering(r)'
  BY <1>1 DEF Registering, RegisterRequest, RegisterCalls
<1>3. Progress(r) = IF pc[r] \in Created THEN "created"
                    ELSE IF found[r] # None THEN "taken" ELSE "pending"
  BY <1>2 DEF Progress, RegisterCalls, Created
<1>4. pc'[r] = "done" => Progress(r)' = Verdict(answer'[r])
  BY <1>2 DEF Progress, Verdict
<1>5. pc'[r] \in RegisterCalls =>
        Progress(r)' = IF pc'[r] \in Created THEN "created"
                       ELSE IF found'[r] # None THEN "taken" ELSE "pending"
  BY <1>2 DEF Progress, RegisterCalls, Created
<1>6. \A q \in Req : q # r => /\ Progress(q)' = Progress(q)
                              /\ Registering(q)' <=> Registering(q)
  BY KeptProgress DEF HandlerStep, OthersUntouched, Untouched
<1> QED
  BY <1>1, <1>2, <1>3, <1>4, <1>5, <1>6, HandlerMapped

(***************************************************************************)
(* The standing of a registration that waits for anything but a look-up    *)
(* does not depend on what was found, and nothing was.                     *)
(***************************************************************************)
LEMMA NothingFound ==
  ASSUME Typed, NEW r \in Req, pc[r] \in Calls \ LookUps
  PROVE  found[r] = None
  BY DEF Typed, RequestOK, Calls, RegisterCalls, LoginCalls, RefreshCalls, MeCalls

(***************************************************************************)
(* A registration fails without having stored anything.                    *)
(***************************************************************************)
LEMMA FailMapped ==
  ASSUME Typed, NEW r \in Req, HandlerStep(r), pc[r] \in RegisterCalls, UNCHANGED users,
         pc'[r] = "done", Verdict(answer'[r]) = "failed"
  PROVE  RegistryStep
<1>1. \E stage \in {"pending", "created", "taken"} : Registry!Move(r, stage, "failed")
  BY RegisteringStep, MovedStanding
<1>2. UNCHANGED Wished
  BY RegisteringStep
<1> QED
  BY <1>1, <1>2, KeptTable DEF RegistryStep, Registry!Next, Registry!Fail

(***************************************************************************)
(* A look-up of register decides when the SELECT from users returns a row. *)
(***************************************************************************)
LEMMA LookUpRegistering ==
  ASSUME Typed, NEW r \in Req, LookUp(r), pc[r] \in RegisterCalls
  PROVE  RegistryStep
<1>0. /\ TypeOK /\ HandlerStep(r) /\ UNCHANGED users
      /\ pc[r] \in {"register.findByUsername", "register.findByEmail"}
      /\ RoleIsLost(r) \/ UNCHANGED <<pc, answer>>
  <2>1. pc[r] \in LookUps
    BY DEF LookUp, FindUser, FindUserRoles, RoleIsLost
  <2> QED
    BY <2>1, LookUpShape
       DEF Typed, LookUps, DbCalls, RegisterCalls, LoginCalls, RefreshCalls, MeCalls, Reads, db
<1>1. ASSUME UNCHANGED pc
      PROVE  /\ Progress(r) = IF found[r] # None THEN "taken" ELSE "pending"
             /\ Progress(r)' = IF found'[r] # None THEN "taken" ELSE "pending"
             /\ UNCHANGED Wished /\ Registering(r) /\ Registering(r)' /\ req' = req
             /\ \A q \in Req : q # r => /\ Progress(q)' = Progress(q)
                                        /\ Registering(q)' <=> Registering(q)
  <2>1. pc'[r] = pc[r] /\ pc[r] # "new" /\ pc[r] \notin Created
    BY <1>0, <1>1 DEF Created
  <2> QED
    BY <1>0, <2>1, RegisteringStep DEF HandlerStep
<1>2. CASE FindUser(r)
  <2>1. PICK u \in Matching(r) : found'[r] = SelectUser(u) /\ SelectUser(u) \in Partial
    BY <1>0, <1>2, FindUserStep
  <2>2. found[r] = None /\ found'[r] # None /\ UNCHANGED pc
    BY <1>2, <2>1, NothingAssumption DEF FindUser
  <2>3. Registry!Move(r, "pending", "taken")
    BY <1>1, <2>2, MovedStanding
  <2>4. Registry!Taken(Wished[r])
    BY <1>0, <1>1, <2>1, <2>2, TakenMapped DEF Matching
  <2> QED
    BY <1>0, <1>1, <2>2, <2>3, <2>4, KeptTable DEF RegistryStep, Registry!Next, Registry!Refuse
<1>3. CASE FindUserRoles(r)
  <2>1. found[r] # None /\ found'[r] # None /\ UNCHANGED pc
    BY <1>0, <1>3, FindUserRolesStep, NothingAssumption DEF FindUserRoles
  <2> QED
    BY <1>0, <1>1, <2>1, KeptTable, StutterMapped
<1>4. CASE RoleIsLost(r)
  <2>1. pc'[r] = "done" /\ Verdict(answer'[r]) = "failed"
    BY <1>4, RejectOutcome DEF RoleIsLost
  <2> QED
    BY <1>0, <2>1, FailMapped
<1> QED
  BY <1>2, <1>3, <1>4 DEF LookUp

LEMMA RegisterMapped ==
  ASSUME Typed, Fresh, NEW r \in Req, Register(r)
  PROVE  RegistryStep
<1>0. TypeOK /\ HandlerStep(r) /\ pc[r] \in RegisterCalls
  BY RegisterShape DEF Typed, Register, RegisterFindByUsername, RegisterFindByEmail,
     RegisterFindRoleByName, RegisterCreateUser, RegisterGenerateTokens,
     RegisterSendWelcomeEmail, RegisterCalls
<1>1. ASSUME NEW a, Finish(r, a)
      PROVE  pc'[r] = "done" /\ Progress(r)' = Verdict(a) /\ answer'[r] = a
  BY <1>0, <1>1, FinishOthers, RegisteringStep
\* A look-up that has found nothing, the role that is found, the tokens signed.
<1>2. ASSUME NEW call \in RegisterCalls, Await(r, call), UNCHANGED users,
             found[r] = None, found'[r] = None,
             call \in Created <=> pc[r] \in Created
      PROVE  RegistryStep
  <2>1. pc'[r] = call /\ pc'[r] # "new"
    BY <1>0, <1>2, AwaitOthers DEF RegisterCalls
  <2>2. Progress(r)' = Progress(r) /\ Registering(r) /\ Registering(r)'
    BY <1>0, <1>2, <2>1, RegisteringStep
  <2> QED
    BY <1>0, <1>2, <2>1, <2>2, RegisteringStep, KeptTable, StutterMapped DEF HandlerStep
\* "Already exists", as the look-up has found.
<1>3. ASSUME NEW a, Finish(r, a), Verdict(a) = "refused", UNCHANGED users,
             found[r] # None, pc[r] \notin Created
      PROVE  RegistryStep
  <2>1. /\ Registry!Move(r, "taken", "refused") /\ UNCHANGED Wished
    BY <1>0, <1>1, <1>3, RegisteringStep, MovedStanding
  <2> QED
    BY <1>3, <2>1, KeptTable DEF RegistryStep, Registry!Next, Registry!Deliver
\* "Already exists", as the indexes have found.
<1>4. ASSUME NEW a, Finish(r, a), Verdict(a) = "refused", UNCHANGED users,
             ViolatesUnique(req[r].username, req[r].email),
             found[r] = None, pc[r] \notin Created
      PROVE  RegistryStep
  <2>1. Registry!Move(r, "pending", "refused") /\ UNCHANGED Wished /\ Registering(r)
    BY <1>0, <1>1, <1>4, RegisteringStep, MovedStanding
  <2>2. Registry!Taken(Wished[r])
    BY <1>4, <2>1, TakenMapped DEF ViolatesUnique
  <2> QED
    BY <1>4, <2>1, <2>2, KeptTable DEF RegistryStep, Registry!Next, Registry!Refuse
\* Any other error of a call that stored nothing.
<1>5. ASSUME NEW a, Finish(r, a), Verdict(a) = "failed", UNCHANGED users
      PROVE  RegistryStep
  BY <1>0, <1>1, <1>5, FailMapped
<1>6. CASE RegisterFindByUsername(r) \/ RegisterFindByEmail(r)
  <2>1. /\ UNCHANGED users /\ found'[r] = None /\ pc[r] \notin Created
        /\ IF found[r] # None
           THEN Finish(r, ErrorMiddleware(ConflictError("RECORD_CONFLICT")))
           ELSE \E call \in RegisterCalls \ Created : Await(r, call)
    BY <1>0, <1>6 DEF RegisterFindByUsername, RegisterFindByEmail, Throw, Take, Reads, db,
       Created, RegisterCalls, TypeOK
  <2> QED
    BY <2>1, <1>2, <1>3, VerdictOfAnswers
<1>7. CASE RegisterFindRoleByName(r)
  <2>1. /\ UNCHANGED users /\ found[r] = None /\ found'[r] = None /\ pc[r] \notin Created
    BY <1>7, NothingFound
       DEF RegisterFindRoleByName, Reads, db, Calls, RegisterCalls, LookUps, DbCalls, Created
  <2>2. \/ \E call \in RegisterCalls \ Created : Await(r, call)
        \/ Finish(r, ErrorMiddleware(InternalServerError("INTERNAL_ERROR")))
    BY <1>7 DEF RegisterFindRoleByName, Throw, RegisterCalls, Created
  <2> QED
    BY <2>1, <2>2, <1>2, <1>5, VerdictOfAnswers
<1>8. CASE RegisterCreateUser(r)
  <2>0. pc[r] = "register.createUser" /\ pc[r] \notin Created /\ found[r] = None
    BY <1>8, NothingFound DEF RegisterCreateUser, Created, Calls, RegisterCalls, LookUps, DbCalls
  <2>1. CASE /\ Storable(r) /\ InsertUser(r, RegisteredRow(r))
             /\ Await(r, "register.generateTokens")
    <3>1. pc'[r] = "register.generateTokens"
      BY <1>0, <2>1, AwaitOthers
    <3>2. Registry!Move(r, "pending", "created") /\ UNCHANGED Wished
      BY <1>0, <2>0, <3>1, RegisteringStep, MovedStanding DEF RegisterCalls, Created
    <3>3. users[r] = NoUser
      BY <2>0 DEF Fresh, RequestFresh, Settled
    <3>4. Registry!Insert(r)
      BY <1>0, <2>0, <2>1, <3>1, <3>3, RegisteringStep, InsertMapped
    <3> QED
      BY <3>2, <3>4 DEF RegistryStep, Registry!Next, Registry!Create
  <2>2. CASE ~Storable(r) /\ Throw(r, Rejection(r)) /\ UNCHANGED db
    <3>1. CASE ViolatesUnique(req[r].username, req[r].email)
      BY <2>0, <2>2, <3>1, <1>4, VerdictOfAnswers DEF Throw, Rejection, db
    <3>2. CASE ~ViolatesUnique(req[r].username, req[r].email)
      BY <2>2, <3>2, <1>5, VerdictOfAnswers DEF Throw, Rejection, db
    <3> QED
      BY <3>1, <3>2
  <2> QED
    BY <1>8, <2>1, <2>2 DEF RegisterCreateUser
<1>9. CASE RegisterGenerateTokens(r)
  <2>1. found[r] = None /\ found' = found /\ UNCHANGED users
    BY <1>9, NothingFound
       DEF RegisterGenerateTokens, Calls, RegisterCalls, LookUps, DbCalls, Reads, db
  <2>2. Await(r, "register.sendWelcomeEmail") /\ pc[r] \in Created
    BY <1>9 DEF RegisterGenerateTokens, Created
  <2> QED
    BY <2>1, <2>2, <1>2 DEF RegisterCalls, Created
<1>10. CASE RegisterSendWelcomeEmail(r)
  <2>1. CASE Throw(r, MailError)
    BY <1>10, <2>1, <1>5, VerdictOfAnswers DEF RegisterSendWelcomeEmail, Throw, db
  <2>2. CASE Return(r)
    <3>1. Registry!Move(r, "created", "confirmed") /\ UNCHANGED Wished
      BY <1>0, <1>1, <1>10, <2>2, RegisteringStep, MovedStanding, VerdictOfAnswers
         DEF Return, RegisterSendWelcomeEmail, Created
    <3> QED
      BY <1>10, <3>1, KeptTable
         DEF RegistryStep, Registry!Next, Registry!Confirm, RegisterSendWelcomeEmail, db
  <2> QED
    BY <1>10, <2>1, <2>2 DEF RegisterSendWelcomeEmail
<1> QED
  BY <1>6, <1>7, <1>8, <1>9, <1>10 DEF Register

(***************************************************************************)
(* A request that is no registration: the registry does not see it.        *)
(***************************************************************************)
LEMMA SessionMapped ==
  ASSUME NEW r \in Req, HandlerStep(r), req[r].op # "register", UNCHANGED users
  PROVE  RegistryStep
<1>1. \A q \in Req : q # r => Progress(q)' = Progress(q) /\ (Registering(q)' <=> Registering(q))
  BY KeptProgress DEF HandlerStep, OthersUntouched, Untouched
<1>2. Progress(r)' = Progress(r) /\ (Registering(r)' <=> Registering(r))
  BY DEF HandlerStep, Progress, Registering
<1> QED
  BY <1>1, <1>2, KeptTable, StutterMapped DEF HandlerStep

LEMMA LookUpMapped ==
  ASSUME Typed, NEW r \in Req, LookUp(r)
  PROVE  RegistryStep
<1>1. HandlerStep(r) /\ UNCHANGED users
  BY LookUpShape DEF Reads, db
<1>2. ASSUME pc[r] \notin RegisterCalls
      PROVE  req[r].op # "register"
  BY <1>1, <1>2 DEF Typed, RequestOK, HandlerStep, Calls, LoginRequest, RefreshRequest, MeRequest
<1> QED
  BY <1>1, <1>2, LookUpRegistering, SessionMapped

LEMMA DbFailsMapped ==
  ASSUME Typed, Fresh, NEW r \in Req, DbFails(r)
  PROVE  RegistryStep
<1>1. HandlerStep(r) /\ pc'[r] = "done" /\ Verdict(answer'[r]) = "failed"
  BY DbFailsShape, RejectOutcome DEF DbFails
<1>2. /\ pc[r] \in DbCalls
      /\ \/ UNCHANGED users
         \/ pc[r] = "register.createUser" /\ Storable(r) /\ InsertUser(r, RegisteredRow(r))
  BY DEF DbFails, db
<1>3. CASE pc[r] \in RegisterCalls /\ UNCHANGED users
  BY <1>1, <1>3, FailMapped
<1>4. CASE pc[r] = "register.createUser" /\ Storable(r) /\ InsertUser(r, RegisteredRow(r))
  <2>1. pc[r] \in RegisterCalls /\ pc[r] \notin Created /\ found[r] = None /\ users[r] = NoUser
    BY <1>4, NothingFound
       DEF RegisterCalls, Created, Calls, LookUps, DbCalls, Fresh, RequestFresh, Settled
  <2>2. Registry!Move(r, "pending", "failed") /\ UNCHANGED Wished
    BY <1>1, <2>1, RegisteringStep, MovedStanding
  <2>3. Registry!Insert(r)
    BY <1>1, <1>4, <2>1, RegisteringStep, InsertMapped
  <2> QED
    BY <2>2, <2>3 DEF RegistryStep, Registry!Next, Registry!Fail
<1>5. CASE pc[r] \notin RegisterCalls
  <2>1. pc[r] \in LoginCalls \cup RefreshCalls \cup MeCalls
    BY <1>2, <1>5 DEF DbCalls, Calls
  <2>2. req[r].op # "register"
    BY <2>1 DEF Typed, RequestOK, LoginRequest, RefreshRequest, MeRequest
  <2>3. UNCHANGED users
    BY <1>2, <1>5 DEF RegisterCalls
  <2> QED
    BY <1>1, <2>2, <2>3, SessionMapped
<1> QED
  BY <1>2, <1>3, <1>4, <1>5

(***************************************************************************)
(* An insert nobody waits for: its client has given up.                    *)
(***************************************************************************)
LEMMA LandMapped ==
  ASSUME Typed, Fresh, Honest, NEW r \in Req, Land(r)
  PROVE  RegistryStep
<1>1. LateStep(r) /\ UNCHANGED <<req, pc, found, answer>>
  BY LandShape DEF LateStep
<1>2. \A q \in Req : Progress(q)' = Progress(q) /\ (Registering(q)' <=> Registering(q))
  BY <1>1, KeptProgress
<1>3. UNCHANGED <<Wished, Standing>>
  BY <1>1, <1>2, KeptWishes, KeptStanding
<1>4. CASE users' = users
  BY <1>1, <1>2, <1>4, KeptTable, StutterMapped
<1>5. CASE Storable(r) /\ InsertUser(r, RegisteredRow(r))
  <2>1. /\ req[r] \in RegisterRequest /\ pc[r] \in {"done", "lost"} /\ users[r] = NoUser
        /\ pc[r] = "done" => Verdict(answer[r]) = "failed"
    BY <1>1 DEF LateStep, Typed, RequestOK, Fresh, RequestFresh, Honest, RequestHonest
  <2>2. Registering(r) /\ Progress(r) \in {"failed", "lost"}
    BY <2>1 DEF Registering, Progress, RegisterRequest
  <2>3. Registry!Insert(r) /\ Standing[r] \in {"failed", "lost"}
    BY <1>5, <2>1, <2>2, InsertMapped DEF Standing
  <2> QED
    BY <1>3, <2>3 DEF RegistryStep, Registry!Next, Registry!CreateLate
<1> QED
  BY <1>1, <1>4, <1>5 DEF LateStep

(***************************************************************************)
(* A request that arrives: a registration is asked for, or nothing is.     *)
(***************************************************************************)
LEMMA ArrivalMapped ==
  ASSUME Typed, NEW r \in Req, Arrival(r)
  PROVE  RegistryStep
<1>0. TypeOK /\ pc[r] = "new" /\ UNCHANGED users /\ OthersUntouched(r) /\ found'[r] = None
  BY ArrivalShape DEF Typed
<1>1. \A q \in Req : q # r => /\ Progress(q)' = Progress(q)
                              /\ (Registering(q)' <=> Registering(q)) /\ req'[q] = req[q]
  BY <1>0, KeptProgress DEF OthersUntouched, Untouched
<1>2. ~Registering(r) /\ Progress(r) = "idle"
  BY <1>0 DEF Registering, Progress
<1>3. CASE ArriveRegister(r)
  <2>1. PICK username \in Username, email \in Email, password \in Password :
          /\ Arrive(r, [op |-> "register", username |-> username, email |-> email,
                        password |-> password])
          /\ Await(r, "register.findByUsername")
    BY <1>3 DEF ArriveRegister
  <2> DEFINE wish == [username |-> username, email |-> email]
  <2>2. /\ req'[r].op = "register" /\ req'[r].username = username /\ req'[r].email = email
        /\ pc'[r] = "register.findByUsername"
    BY <1>0, <2>1, AwaitOthers DEF Arrive, TypeOK
  <2>3. Registering(r)' /\ Progress(r)' = "pending"
    BY <1>0, <2>2 DEF Registering, Progress
  <2>4. Registry!Move(r, "idle", "pending")
    BY <1>1, <1>2, <2>3, MovedStanding
  <2>5. Wished' = [Wished EXCEPT ![r] = wish]
    BY <1>1, <2>2, <2>3 DEF Wished
  <2>6. wish \in Registry!Wish
    BY DEF Registry!Wish
  <2> QED
    BY <1>0, <2>4, <2>5, <2>6, KeptTable DEF RegistryStep, Registry!Next, Registry!Ask
<1>4. CASE ArriveLogin(r) \/ ArriveRefresh(r) \/ ArriveMe(r)
  <2>1. PICK request : Arrive(r, request) /\ request.op # "register"
    <3>1. CASE ArriveLogin(r)
      BY <3>1 DEF ArriveLogin
    <3>2. CASE ArriveRefresh(r)
      BY <3>2 DEF ArriveRefresh
    <3>3. CASE ArriveMe(r)
      BY <3>3 DEF ArriveMe
    <3> QED
      BY <1>4, <3>1, <3>2, <3>3
  <2>2. req'[r].op # "register"
    BY <1>0, <2>1 DEF Arrive, TypeOK
  <2>3. ~Registering(r)' /\ Progress(r)' = "idle"
    BY <2>2 DEF Registering, Progress
  <2>4. Wished' = Wished
    BY <1>1, <1>2, <2>3 DEF Wished
  <2>5. Standing' = Standing
    BY <1>1, <1>2, <2>3, KeptStanding
  <2> QED
    BY <1>0, <2>4, <2>5, KeptTable DEF RegistryStep, Registry!vars
<1> QED
  BY <1>3, <1>4 DEF Arrival

(***************************************************************************)
(* A crash loses exactly the registrations that are open.                  *)
(***************************************************************************)
LEMMA CrashMapped ==
  ASSUME Typed, Crash
  PROVE  RegistryStep
<1>1. UNCHANGED <<users, req, answer, found>>
  BY DEF Crash, db
<1>2. ASSUME NEW q \in Req
      PROVE  /\ Registering(q)' <=> Registering(q)
             /\ Progress(q)' = IF Progress(q) \in Registry!Open THEN "lost" ELSE Progress(q)
  <2>1. /\ pc'[q] = IF pc[q] \in Calls THEN "lost" ELSE pc[q]
        /\ pc[q] \in Calls \cup {"new", "done", "lost"}
    BY DEF Crash, InFlight, Typed, TypeOK
  <2>2. pc[q] \in Calls => pc[q] \notin {"new", "done", "lost"}
    BY DEF Calls, RegisterCalls, LoginCalls, RefreshCalls, MeCalls
  <2>3. Registering(q)' <=> Registering(q)
    BY <1>1, <2>1, <2>2 DEF Registering
  <2>4. CASE ~Registering(q)
    BY <2>3, <2>4 DEF Progress, Registry!Open
  <2>5. CASE Registering(q) /\ pc[q] \in Calls
    BY <2>1, <2>2, <2>3, <2>5 DEF Progress, Registry!Open
  <2>6. CASE Registering(q) /\ pc[q] \notin Calls
    BY <1>1, <2>1, <2>3, <2>6 DEF Progress, Registry!Open, Verdict, Registering
  <2> QED
    BY <2>3, <2>4, <2>5, <2>6
<1>3. Wished' = Wished /\ AccountTable' = AccountTable
  BY <1>1, <1>2, KeptWishes, KeptTable
<1>4. Standing' = [r \in Req |-> IF Standing[r] \in Registry!Open THEN "lost" ELSE Standing[r]]
  BY <1>2 DEF Standing
<1> QED
  BY <1>3, <1>4 DEF RegistryStep, Registry!Next, Registry!Die

(***************************************************************************)
(* An operator removes an account, or does what no registration can see.   *)
(***************************************************************************)
LEMMA EditMapped ==
  ASSUME Typed, Edit
  PROVE  RegistryStep
<1>0. UNCHANGED <<req, pc, answer, found>> /\ Administer /\ DbTypeOK
  BY DEF Edit, Typed, TypeOK
<1>1. Wished' = Wished /\ Standing' = Standing
  BY <1>0 DEF Wished, Standing, Registering, Progress, Verdict
<1>2. ASSUME Stored(users') = Stored(users),
             \A u \in Stored(users) : /\ users'[u].username = users[u].username
                                      /\ users'[u].email = users[u].email
      PROVE  AccountTable' = AccountTable
  BY <1>2 DEF AccountTable, AccountAt
<1>3. CASE \E u \in Stored(users) : DeleteUser(u)
  <2>1. PICK u \in Stored(users) : DeleteUser(u)
    BY <1>3
  <2>2. /\ Stored(users') = Stored(users) \ {u}
        /\ \A v \in Stored(users) : v # u => AccountAt(v)' = AccountAt(v)
    BY <1>0, <2>1 DEF DeleteUser, Stored, AccountAt, DbTypeOK
  <2>3. AccountTable' = AccountTable \ {AccountAt(u)}
    <3>1. \A v \in Stored(users) : v # u => AccountAt(v) # AccountAt(u)
      BY DEF AccountAt
    <3> QED
      BY <2>2, <3>1 DEF AccountTable
  <2>4. AccountAt(u) \in AccountTable
    BY DEF AccountTable
  <2> QED
    BY <1>1, <2>3, <2>4 DEF RegistryStep, Registry!Next, Registry!Remove
<1>4. CASE Administer /\ Stored(users) \subseteq Stored(users')
  <2>1. \A u \in Stored(users') : /\ u \in Stored(users)
                                  /\ users'[u].username = users[u].username
                                  /\ users'[u].email = users[u].email
    BY <1>0, AdministerRows DEF Stored
  <2> QED
    BY <1>1, <1>2, <1>4, <2>1 DEF RegistryStep, Registry!vars
<1>5. ASSUME NEW u \in Stored(users), NEW row \in UserRow, users' = [users EXCEPT ![u] = row]
      PROVE  Stored(users) \subseteq Stored(users')
  BY <1>0, <1>5, NoUserAssumption DEF Stored, DbTypeOK
<1>6. ASSUME NEW u \in Stored(users), SetActive(u)
      PROVE  Stored(users) \subseteq Stored(users')
  <2>1. /\ users' = [users EXCEPT ![u] = [users[u] EXCEPT !.isActive = ~@]]
        /\ [users[u] EXCEPT !.isActive = ~@] \in UserRow
    BY <1>0, <1>6 DEF SetActive, Stored, DbTypeOK, UserRow
  <2> QED
    BY <1>5, <2>1
<1>7. ASSUME NEW u \in Stored(users), NEW role \in RoleName, GrantRole(u, role) \/ RevokeRole(u, role)
      PROVE  Stored(users) \subseteq Stored(users')
  BY <1>0, <1>7, NoUserAssumption DEF GrantRole, RevokeRole, Stored, DbTypeOK, UserRow
<1>8. DropUserRole => Stored(users) \subseteq Stored(users')
  BY <1>0, NoUserAssumption DEF DropUserRole, Stored, DbTypeOK, UserRow
<1>9. SeedUserRole => Stored(users) \subseteq Stored(users')
  BY DEF SeedUserRole
<1> QED
  BY <1>0, <1>3, <1>4, <1>6, <1>7, <1>8, <1>9 DEF Administer

LEMMA InitMapped == Init => Registry!Init
<1> SUFFICES ASSUME Init
             PROVE  Registry!Init
  OBVIOUS
<1>1. /\ \A u \in UserId : users[u] = IF u \in Seeded THEN InitialUsers[u] ELSE NoUser
      /\ \A u \in Stored(users) : u \in Seeded
  BY DEF Init, Stored
<1>2. \A u \in Stored(users) : /\ u \in UserId \ Req /\ users[u] = InitialUsers[u]
                               /\ users[u].username \in Username /\ users[u].email \in Email
  BY <1>1, AuthAssumption DEF Seeded, UserRow
<1>3. AccountTable \subseteq {a \in Registry!Account : a.id \notin Req}
  BY <1>2 DEF AccountTable, AccountAt, Registry!Account
<1>4. Registry!Distinct(AccountTable)
  <2>1. \A u, v \in Stored(users) :
          users[u].username = users[v].username \/ users[u].email = users[v].email => u = v
    BY <1>1, <1>2, AuthAssumption
  <2> QED
    BY <2>1 DEF AccountTable, AccountAt, Registry!Distinct
<1>5. Wished = [r \in Req |-> None] /\ Standing = [r \in Req |-> "idle"]
  BY DEF Init, Wished, Standing, Progress, Registering
<1> QED
  BY <1>3, <1>4, <1>5 DEF Registry!Init

LEMMA NextMapped == Typed /\ Fresh /\ Honest /\ [Next]_vars => RegistryStep
<1> SUFFICES ASSUME Typed, Fresh, Honest, [Next]_vars
             PROVE  RegistryStep
  OBVIOUS
<1>1. CASE UNCHANGED vars \/ Tick
  <2>1. UNCHANGED <<users, req, pc, answer, found>>
    BY <1>1 DEF vars, Tick, db
  <2> QED
    BY <2>1, KeptTable, KeptProgress, StutterMapped
<1>2. ASSUME NEW r \in Req, Login(r) \/ Refresh(r) \/ MeFindByIdWithRoles(r)
      PROVE  RegistryStep
  BY <1>2, SessionShape, SessionOutcome, SessionMapped DEF Reads, db
<1> QED
  BY <1>1, <1>2, ArrivalMapped, LookUpMapped, RegisterMapped, DbFailsMapped, LandMapped,
     CrashMapped, EditMapped DEF Next, Handle

(***************************************************************************)
(* What registrations are told is what a registry that takes each of them  *)
(* in one step would have told them, in some order, for any number of      *)
(* requests at once: the statements of register and whatever comes between *)
(* them, the failures, the inserts that outlive their connection, the crash*)
(* and the operators included.                                             *)
(***************************************************************************)
THEOREM RegisterIsAtomic == Spec => RegistersAtomically
<1>1. RegistryStep => [Registry!Next]_(Registry!vars)
  BY DEF RegistryStep
<1> QED
  BY InitTyped, NextTyped, InitFresh, NextFresh, InitWarranted, NextWarranted, InitHonest,
     NextHonest, InitMapped, NextMapped, <1>1, PTL DEF Spec, RegistersAtomically, Registry!Spec


----------------------------------------------------------------------------
(* Sessions.  What a handler holds at each of its awaits.                  *)

HeldClaim(q) == [id |-> read[q].id, roles |-> read[q].row.roles]

(***************************************************************************)
(* The inductive invariant: until its look-up has returned a handler holds *)
(* nothing, before it signs no tokens but an active row, and after it has  *)
(* signed for a log-in the tokens carry the claims of the row whose        *)
(* password was compared.                                                  *)
(***************************************************************************)
RequestHolds(q) ==
  /\ pc[q] \in Deciding \cup {"new"} => read[q] = None /\ pair[q] = None
  /\ pc[q] \in {"login.verifyPassword", "refresh.generateTokens"} =>
       pair[q] = None /\ read[q].row.isActive
  /\ pc[q] = "login.findByIdWithRoles" =>
       /\ PasswordValid(q) /\ pair[q] # None
       /\ ClaimOf(pair[q].access) = HeldClaim(q) /\ ClaimOf(pair[q].refresh) = HeldClaim(q)

Held == \A q \in Req : RequestHolds(q)

LEMMA StaysHeld ==
  ASSUME NEW q \in Req, RequestHolds(q), read'[q] = read[q], pair'[q] = pair[q], req'[q] = req[q],
         pc'[q] = pc[q] \/ pc'[q] \in {"done", "lost"}
  PROVE  RequestHolds(q)'
  BY DEF RequestHolds, HeldClaim, PasswordValid, Deciding

(***************************************************************************)
(* The tokens a handler signs from the row it holds carry its claims.      *)
(***************************************************************************)
LEMMA SignedClaims ==
  ASSUME TypeOK, NEW r \in Req, read[r] \in Snapshot, read' = read,
         pair' = [pair EXCEPT ![r] = GenerateTokens(read[r].id, read[r].row.roles, now)]
  PROVE  /\ pair'[r] # None
         /\ ClaimOf(pair'[r].access) = HeldClaim(r) /\ ClaimOf(pair'[r].refresh) = HeldClaim(r)
<1>1. pair'[r] = GenerateTokens(read[r].id, read[r].row.roles, now)
  BY DEF TypeOK
<1>2. pair'[r] \in Pair
  BY <1>1, GenerateTokensType DEF Snapshot, UserRow, TypeOK
<1> QED
  BY <1>1, <1>2, NothingAssumption DEF GenerateTokens, Sign, ClaimOf, HeldClaim

LEMMA HandlerHeld ==
  ASSUME Typed, Held, NEW r \in Req, Register(r) \/ Login(r) \/ Refresh(r) \/ MeFindByIdWithRoles(r)
  PROVE  RequestHolds(r)'
<1>0. TypeOK /\ RequestOK(r) /\ RequestHolds(r) /\ req' = req
  BY HandlerShape DEF Typed, Held, HandlerStep, Handle
<1> USE DEF RequestHolds, Deciding
<1>1. ASSUME pc'[r] \in RegisterCalls \cup {"done"} PROVE RequestHolds(r)'
  BY <1>1 DEF RegisterCalls
<1>2. \A a : Finish(r, a) => pc'[r] = "done"
  BY <1>0, FinishOthers
<1>3. CASE Register(r)
  <2>1. \/ \E call \in RegisterCalls : Await(r, call)
        \/ \E a : Finish(r, a)
    BY <1>3 DEF Register, RegisterFindByUsername, RegisterFindByEmail, RegisterFindRoleByName,
       RegisterCreateUser, RegisterGenerateTokens, RegisterSendWelcomeEmail, Throw, Return,
       RegisterCalls
  <2> QED
    BY <1>0, <1>1, <1>2, <2>1, AwaitOthers
\* An active row is taken.
<1>4. CASE LoginFindByUsername(r)
  <2>1. CASE \E a : Finish(r, a)
    BY <1>1, <1>2, <2>1
  <2>2. CASE /\ found[r] # None /\ found[r].row.isActive
             /\ read' = [read EXCEPT ![r] = Account(found[r])] /\ Await(r, "login.verifyPassword")
    <3>1. pc'[r] = "login.verifyPassword" /\ pair'[r] = None
      BY <1>0, <1>4, <2>2, AwaitOthers DEF LoginFindByUsername
    <3>2. read'[r].row.isActive
      BY <1>0, <2>2, AccountType DEF Account
    <3> QED
      BY <3>1, <3>2
  <2> QED
    BY <1>4, <2>1, <2>2 DEF LoginFindByUsername, Throw
<1>5. CASE LoginVerifyPassword(r)
  <2>1. CASE Await(r, "login.findByIdWithRoles")
    <3>1. pc'[r] = "login.findByIdWithRoles" /\ PasswordValid(r) /\ read[r] \in Snapshot
      BY <1>0, <1>5, <2>1, AwaitOthers
         DEF LoginVerifyPassword, Throw, Finish, RequestOK, Holding, TypeOK
    <3>2. /\ pair' = [pair EXCEPT ![r] = GenerateTokens(read[r].id, read[r].row.roles, now)]
          /\ read' = read
      BY <1>5, <3>1 DEF LoginVerifyPassword
    <3>3. PasswordValid(r)' /\ HeldClaim(r)' = HeldClaim(r)
      BY <1>0, <3>1, <3>2 DEF PasswordValid, HeldClaim
    <3>4. /\ pair'[r] # None
          /\ ClaimOf(pair'[r].access) = HeldClaim(r) /\ ClaimOf(pair'[r].refresh) = HeldClaim(r)
      BY <1>0, <3>1, <3>2, SignedClaims
    <3> QED
      BY <3>1, <3>3, <3>4
  <2>2. CASE \E a : Finish(r, a)
    BY <1>1, <1>2, <2>2
  <2> QED
    BY <1>5, <2>1, <2>2 DEF LoginVerifyPassword, Throw
<1>6. CASE LoginFindByIdWithRoles(r) \/ RefreshGenerateTokens(r) \/ MeFindByIdWithRoles(r)
  BY <1>1, <1>2, <1>6 DEF LoginFindByIdWithRoles, RefreshGenerateTokens, MeFindByIdWithRoles,
     Throw, Return
<1>7. CASE RefreshFindByIdWithRoles(r)
  <2>1. CASE \E a : Finish(r, a)
    BY <1>1, <1>2, <2>1
  <2>2. CASE /\ Refreshable(found[r])
             /\ read' = [read EXCEPT ![r] = Account(found[r])] /\ Await(r, "refresh.generateTokens")
    <3>1. pc'[r] = "refresh.generateTokens" /\ pair'[r] = None
      BY <1>0, <1>7, <2>2, AwaitOthers DEF RefreshFindByIdWithRoles
    <3>2. read'[r].row.isActive
      BY <1>0, <2>2, AccountType DEF Account, Refreshable
    <3> QED
      BY <3>1, <3>2
  <2> QED
    BY <1>7, <2>1, <2>2 DEF RefreshFindByIdWithRoles, Throw
<1> QED
  BY <1>3, <1>4, <1>5, <1>6, <1>7 DEF Login, Refresh

LEMMA InitHeld == Init => Held
  BY DEF Init, Held, RequestHolds, Deciding

LEMMA NextHeld == Typed /\ Held /\ [Next]_vars => Held'
<1> SUFFICES ASSUME Typed, Held, [Next]_vars
             PROVE  Held'
  OBVIOUS
<1>1. CASE UNCHANGED vars
  BY <1>1, StaysHeld DEF Held, vars
<1>2. CASE Crash \/ Edit \/ Tick
  <2>1. EnvironmentStep
    BY <1>2, EnvironmentShape
  <2> QED
    BY <2>1, StaysHeld DEF Held, EnvironmentStep
<1>3. ASSUME NEW r \in Req, OthersUntouched(r), RequestHolds(r)' PROVE Held'
  BY <1>3, StaysHeld DEF Held, OthersUntouched, Untouched
<1>4. ASSUME NEW r \in Req, Arrival(r) PROVE Held'
  <2>1. /\ OthersUntouched(r) /\ pc[r] = "new" /\ UNCHANGED <<read, pair>>
        /\ pc'[r] \in (Calls \ Holding) \cup {"done"}
    BY <1>4, ArrivalShape
  <2>2. read[r] = None /\ pair[r] = None
    BY <2>1 DEF Held, RequestHolds
  <2> QED
    BY <1>3, <2>1, <2>2 DEF RequestHolds, Holding
<1>5. ASSUME NEW r \in Req, Handle(r) PROVE Held'
  <2>1. OthersUntouched(r)
    BY <1>5, HandlerShape DEF HandlerStep
  <2>2. CASE LookUp(r)
    <3>1. /\ UNCHANGED <<read, pair>> /\ req' = req
          /\ UNCHANGED pc \/ pc'[r] = "done"
      BY <2>2, LookUpShape, RejectOutcome DEF HandlerStep, RoleIsLost
    <3> QED
      BY <1>3, <2>1, <3>1, StaysHeld DEF Held
  <2> QED
    BY <1>3, <1>5, <2>1, <2>2, HandlerHeld DEF Handle
<1>6. ASSUME NEW r \in Req, DbFails(r) PROVE Held'
  <2>1. OthersUntouched(r) /\ pc'[r] = "done"
    BY <1>6, DbFailsShape DEF HandlerStep
  <2> QED
    BY <1>3, <2>1 DEF RequestHolds, Deciding
<1>7. ASSUME NEW r \in Req, Land(r) PROVE Held'
  <2>1. UNCHANGED <<read, pair, req, pc>>
    BY <1>7, LandShape DEF LateStep
  <2> QED
    BY <2>1, StaysHeld DEF Held
<1> QED
  BY <1>1, <1>2, <1>4, <1>5, <1>6, <1>7 DEF Next

----------------------------------------------------------------------------
(* What a step changes of the mapped sessions.                             *)

LEMMA JudgementOfAnswers ==
  /\ Judgement(OkAnswer) = "confirmed"
  /\ \A code \in {"INVALID_CREDENTIALS", "USER_NOT_FOUND"} :
       Judgement(ErrorMiddleware(UnauthorizedError(code))) = "refused"
  /\ Judgement(ErrorMiddleware(RefreshCatch(UnauthorizedError("INVALID_CREDENTIALS")))) = "refused"
  /\ Judgement(ErrorMiddleware(UnauthorizedError("UNAUTHORIZED"))) = "failed"
  /\ \A e \in DbErrors : /\ Judgement(ErrorMiddleware(e)) = "failed"
                         /\ Judgement(ErrorMiddleware(RefreshCatch(e))) = "failed"
  /\ \A token, secret :
       /\ Judgement(ErrorMiddleware(VerifyError(token, secret))) = "failed"
       /\ Judgement(ErrorMiddleware(RefreshCatch(VerifyError(token, secret)))) = "failed"
<1> USE DEF Judgement, ErrorMiddleware, OkAnswer, AnswerOf, Answer
<1>1. Judgement(OkAnswer) = "confirmed"
  OBVIOUS
<1>2. \A code : Judgement(ErrorMiddleware(UnauthorizedError(code))) =
                  IF code \in {"INVALID_CREDENTIALS", "USER_NOT_FOUND"} THEN "refused" ELSE "failed"
  BY DEF UnauthorizedError, AppError, AppErrorWith
<1>3. ASSUME NEW e, e.app = FALSE
      PROVE  Judgement(ErrorMiddleware(e)) = "failed"
  BY <1>3 DEF HandlePrismaError, HandleKnownPrismaError, ConflictError, NotFoundError,
     ValidationError, InternalServerError, AppError, AppErrorWith
<1> HIDE DEF Judgement, ErrorMiddleware, OkAnswer, AnswerOf, Answer
<1>4. /\ \A e \in DbErrors : e.app = FALSE
      /\ \A token, secret : VerifyError(token, secret).app = FALSE
  BY DEF DbErrors, CodedError, VerifyError, JsonWebTokenError, TokenExpiredError, LibraryError
<1>5. \A e : e.app = FALSE => RefreshCatch(e) = UnauthorizedError("INVALID_TOKEN")
  BY DEF RefreshCatch
<1>6. RefreshCatch(UnauthorizedError("INVALID_CREDENTIALS")) = UnauthorizedError("INVALID_CREDENTIALS")
  BY DEF RefreshCatch, UnauthorizedError, AppError, AppErrorWith
<1>7. Judgement(ErrorMiddleware(UnauthorizedError("INVALID_TOKEN"))) = "failed"
  BY <1>2
<1>8. ASSUME NEW e, e.app = FALSE
      PROVE  /\ Judgement(ErrorMiddleware(e)) = "failed"
             /\ Judgement(ErrorMiddleware(RefreshCatch(e))) = "failed"
  <2>1. RefreshCatch(e) = UnauthorizedError("INVALID_TOKEN")
    BY <1>5, <1>8
  <2> QED
    BY <1>3, <1>7, <1>8, <2>1
<1> QED
  BY <1>1, <1>2, <1>4, <1>6, <1>8

SessionStep == Sessions!Next \/ UNCHANGED Sessions!vars

LEMMA KeptSession ==
  ASSUME NEW q \in Req, pc'[q] = pc[q], req'[q] = req[q], answer'[q] = answer[q],
         found'[q] = found[q], read'[q] = read[q], pair'[q] = pair[q]
  PROVE  Soughts'[q] = Soughts[q] /\ Stage(q)' = Stage(q) /\ Claimed(q)' = Claimed(q)
  BY DEF Soughts, Stage, Claimed, Calling, PasswordValid, Sought, Judgement, ClaimOf,
         LookUpStage, Entitles, ClaimOfRow

LEMMA OthersKept ==
  ASSUME NEW r \in Req, OthersUntouched(r)
  PROVE  \A q \in Req : q # r =>
           Soughts'[q] = Soughts[q] /\ Stage(q)' = Stage(q) /\ Claimed(q)' = Claimed(q)
  BY KeptSession DEF OthersUntouched, Untouched

LEMMA KeptLogins ==
  ASSUME users' = users
  PROVE  LoginTable' = LoginTable
  BY DEF LoginTable, LoginAccountAt, Stored

LEMMA KeptClaims ==
  ASSUME NEW r \in Req, OthersUntouched(r), Claimed(r)' = Claimed(r)
  PROVE  ClaimsGranted' = ClaimsGranted
  BY OthersKept DEF ClaimsGranted

LEMMA MovedClaims ==
  ASSUME NEW r \in Req, NEW C, OthersUntouched(r), Claimed(r)' = C
  PROVE  ClaimsGranted' = [ClaimsGranted EXCEPT ![r] = C]
  BY OthersKept DEF ClaimsGranted

LEMMA KeptSoughts ==
  ASSUME NEW r \in Req, OthersUntouched(r), Soughts'[r] = Soughts[r]
  PROVE  Soughts' = Soughts
<1>1. \A q \in Req : Soughts'[q] = Soughts[q]
  BY OthersKept
<1> QED
  BY <1>1 DEF Soughts

LEMMA MovedStage ==
  ASSUME NEW r \in Req, NEW from, NEW to, Stage(r) = from, Stage(r)' = to, OthersUntouched(r)
  PROVE  Sessions!Move(r, from, to)
  BY OthersKept DEF Sessions!Move, Stages

(***************************************************************************)
(* A step that no session can see.                                         *)
(***************************************************************************)
LEMMA StillMapped ==
  ASSUME NEW r \in Req, OthersUntouched(r), UNCHANGED users,
         Stage(r)' = Stage(r), Soughts'[r] = Soughts[r], Claimed(r)' = Claimed(r)
  PROVE  SessionStep
<1>1. Stages' = Stages
  BY OthersKept DEF Stages
<1> QED
  BY <1>1, KeptSoughts, KeptClaims, KeptLogins DEF SessionStep, Sessions!vars

(***************************************************************************)
(* What is known of a log-in, a refresh or a /me whose handler takes a     *)
(* step.                                                                   *)
(***************************************************************************)
LEMMA CallingStep ==
  ASSUME Typed, NEW r \in Req, HandlerStep(r), pc[r] \in Calls \ RegisterCalls, pc'[r] # "new"
  PROVE  /\ TypeOK /\ OthersUntouched(r) /\ req' = req
         /\ Calling(r) /\ Calling(r)' /\ UNCHANGED Soughts /\ Soughts[r] = Sought(req[r])
         /\ pc'[r] = "done" => Stage(r)' = Judgement(answer'[r])
         /\ pc[r] \in LoginCalls => req[r] \in LoginRequest
         /\ pc[r] \in RefreshCalls => req[r] \in RefreshRequest
         /\ pc[r] \in MeCalls => req[r] \in MeRequest /\ req[r].token \in Token
<1>0. TypeOK /\ OthersUntouched(r) /\ req' = req
  BY DEF Typed, HandlerStep
<1>1. /\ pc[r] \in LoginCalls => req[r] \in LoginRequest
      /\ pc[r] \in RefreshCalls => req[r] \in RefreshRequest
      /\ pc[r] \in MeCalls => req[r] \in MeRequest /\ req[r].token \in Token
  BY DEF Typed, RequestOK
<1>2. req[r].op # "register" /\ pc[r] # "new"
  BY <1>1 DEF Calls, LoginCalls, RefreshCalls, MeCalls, LoginRequest, RefreshRequest, MeRequest
<1>3. Calling(r) /\ Calling(r)'
  BY <1>0, <1>2 DEF Calling
<1>4. Soughts'[r] = Soughts[r] /\ Soughts[r] = Sought(req[r])
  BY <1>0, <1>3 DEF Soughts, Sought
<1>5. UNCHANGED Soughts
  BY <1>0, <1>4, KeptSoughts
<1>6. pc'[r] = "done" => Stage(r)' = Judgement(answer'[r])
  BY <1>3 DEF Stage, Judgement
<1> QED
  BY <1>0, <1>1, <1>3, <1>4, <1>5, <1>6

----------------------------------------------------------------------------
(* The decision.                                                           *)

LEMMA DecidingCalls ==
  ASSUME NEW r \in Req, pc[r] \in Deciding
  PROVE  pc[r] \in LookUps /\ pc[r] \in Calls \ RegisterCalls /\ pc[r] \in Calls \ Settled
  BY DEF Deciding, LookUps, DbCalls, Calls, RegisterCalls, LoginCalls, RefreshCalls, MeCalls, Settled

(***************************************************************************)
(* A handler that looks an account up stands where the row has put it.     *)
(***************************************************************************)
LEMMA DecidingStage ==
  ASSUME Held, NEW r \in Req, Calling(r), pc[r] \in Deciding
  PROVE  /\ Stage(r) = LookUpStage(r) /\ Claimed(r) = ClaimOfRow(r, found[r])
         /\ read[r] = None /\ pair[r] = None
<1>1. read[r] = None /\ pair[r] = None /\ pc[r] \notin {"done", "lost"}
  BY DEF Held, RequestHolds, Deciding
<1> QED
  BY <1>1 DEF Stage, Claimed

(***************************************************************************)
(* Who is entitled: the account that the look-up finds, if its row says so,*)
(* and nobody else, as names and ids are unique.                           *)
(***************************************************************************)
LEMMA EntitledByRow ==
  ASSUME Typed, UniqueAccounts, NEW r \in Req, pc[r] \in Deciding, Soughts[r] = Sought(req[r]),
         NEW v \in Stored(users)
  PROVE  Sessions!Entitled(Soughts[r], LoginAccountAt(v))
           <=> v \in Matching(r) /\ Entitles(r, users[v])
<1>1. CASE pc[r] = "login.findByUsername"
  <2>1. req[r] \in LoginRequest
    BY <1>1 DEF Typed, RequestOK, LoginCalls
  <2>2. /\ Soughts[r] = [op |-> "login", name |-> req[r].username,
                         password |-> Hash(req[r].password)]
        /\ Matching(r) = FindByUsername(req[r].username)
    BY <1>1, <2>1 DEF Sought, LoginRequest, Matching
  <2>3. Entitles(r, users[v]) <=> users[v].isActive /\ users[v].password = Hash(req[r].password)
    BY <2>1 DEF Entitles, LoginRequest
  <2> QED
    BY <2>2, <2>3 DEF Sessions!Entitled, LoginAccountAt, FindByUsername
<1>2. CASE pc[r] = "refresh.findByIdWithRoles"
  <2>1. req[r] \in RefreshRequest /\ req[r].token # None
    BY <1>2, NothingAssumption DEF Typed, RequestOK, RefreshCalls, RefreshRequest
  <2>2. /\ Soughts[r] = [op |-> "refresh", id |-> req[r].token.userId]
        /\ Matching(r) = FindById(req[r].token.userId)
    BY <1>2, <2>1 DEF Sought, RefreshRequest, Matching
  <2>3. Entitles(r, users[v]) <=> users[v].isActive
    BY <2>1 DEF Entitles, RefreshRequest
  <2> QED
    BY <2>2, <2>3 DEF Sessions!Entitled, LoginAccountAt, FindById
<1>3. CASE pc[r] = "me.findByIdWithRoles"
  <2>1. req[r] \in MeRequest /\ req[r].token # None
    BY <1>3, NothingAssumption DEF Typed, RequestOK, MeCalls
  <2>2. /\ Soughts[r] = [op |-> "me", id |-> req[r].token.userId]
        /\ Matching(r) = FindById(req[r].token.userId)
    BY <1>3, <2>1 DEF Sought, MeRequest, Matching
  <2>3. Entitles(r, users[v])
    BY <2>1 DEF Entitles, MeRequest
  <2> QED
    BY <2>2, <2>3 DEF Sessions!Entitled, LoginAccountAt, FindById
<1> QED
  BY <1>1, <1>2, <1>3 DEF Deciding

LEMMA OneMatches ==
  ASSUME UniqueAccounts, NEW r \in Req, pc[r] \in Deciding,
         NEW u \in Matching(r), NEW v \in Matching(r)
  PROVE  u = v
<1>1. \/ Matching(r) = FindByUsername(req[r].username)
      \/ Matching(r) = FindById(req[r].token.userId)
  BY DEF Matching, Deciding
<1> QED
  BY <1>1 DEF FindByUsername, FindById, UniqueAccounts

LEMMA RolelessEntitles ==
  ASSUME NEW r \in Req, NEW one \in UserRow, NEW other \in UserRow, Roleless(one) = Roleless(other)
  PROVE  Entitles(r, one) <=> Entitles(r, other)
<1>1. one.isActive = other.isActive /\ one.password = other.password
  BY RolelessFacts
<1> QED
  BY <1>1 DEF Entitles

LEMMA DenyMapped ==
  ASSUME NEW r \in Req, NEW to \in {"denied", "refused"},
         OthersUntouched(r), UNCHANGED <<users, Soughts>>,
         Stage(r) = "pending", Stage(r)' = to,
         \A u \in Stored(users) : ~Sessions!Entitled(Soughts[r], LoginAccountAt(u)),
         Claimed(r)' = Claimed(r)
  PROVE  SessionStep
<1>1. Sessions!Move(r, "pending", to)
  BY MovedStage
<1>2. \A a \in LoginTable : ~Sessions!Entitled(Soughts[r], a)
  BY DEF LoginTable
<1> QED
  BY <1>1, <1>2, KeptLogins, KeptClaims DEF SessionStep, Sessions!Next, Sessions!Deny

LEMMA FindUserMapped ==
  ASSUME Typed, UniqueAccounts, Held, NEW r \in Req, FindUser(r), pc[r] \in Deciding
  PROVE  SessionStep
<1>0. /\ TypeOK /\ HandlerStep(r) /\ UNCHANGED <<users, pc, answer, read, pair>>
      /\ pc[r] \in Calls \ RegisterCalls /\ pc'[r] # "new"
  BY LookUpShape, DecidingCalls
     DEF Typed, LookUp, FindUser, Reads, db, Deciding
<1>1. /\ Calling(r) /\ Calling(r)' /\ UNCHANGED Soughts /\ Soughts[r] = Sought(req[r])
      /\ OthersUntouched(r) /\ req' = req
  BY <1>0, CallingStep
<1>2. PICK u \in UserId : /\ u \in Matching(r) /\ users[u] \in UserRow /\ users[u] # NoUser
                          /\ SelectUser(u) \in Partial /\ found'[r] = SelectUser(u)
  BY <1>0, FindUserStep
<1>3. found[r] = None /\ found'[r] # None /\ u \in Stored(users)
  BY <1>2, NothingAssumption DEF FindUser, Stored
<1>4. Stage(r) = "pending" /\ Claimed(r) = {}
  BY <1>1, <1>3, DecidingStage DEF LookUpStage, ClaimOfRow
<1>5. /\ found'[r].id = u /\ ~found'[r].mapped /\ found'[r].row.roles = {}
      /\ found'[r].row \in UserRow /\ Roleless(found'[r].row) = Roleless(users[u])
  BY <1>2, RolelessFacts DEF SelectUser
<1>6. Entitles(r, found[r].row)' <=> Entitles(r, users[u])
  <2>1. Entitles(r, found[r].row)' <=> Entitles(r, found'[r].row)
    BY <1>1 DEF Entitles
  <2> QED
    BY <1>2, <1>5, <2>1, RolelessEntitles
<1>7. /\ Stage(r)' = IF Entitles(r, users[u]) THEN "granted" ELSE "denied"
      /\ Claimed(r)' = IF Entitles(r, users[u]) THEN {[id |-> u, roles |-> {}]} ELSE {}
  <2>1. Stage(r)' = LookUpStage(r)' /\ Claimed(r)' = ClaimOfRow(r, found[r])'
    <3>1. read[r] = None /\ pair[r] = None /\ pc[r] \notin {"done", "lost"}
      BY <1>1, DecidingStage DEF Deciding
    <3> QED
      BY <1>0, <1>1, <3>1 DEF Stage, Claimed
  <2>2. LookUpStage(r)' = IF Entitles(r, users[u]) THEN "granted" ELSE "denied"
    BY <1>3, <1>5, <1>6 DEF LookUpStage
  <2>3. ClaimOfRow(r, found[r])' = IF Entitles(r, users[u]) THEN {[id |-> u, roles |-> {}]} ELSE {}
    BY <1>3, <1>5, <1>6 DEF ClaimOfRow
  <2> QED
    BY <2>1, <2>2, <2>3
<1>8. CASE Entitles(r, users[u])
  <2>1. LoginAccountAt(u) \in LoginTable /\ LoginAccountAt(u).id = u
    BY <1>3 DEF LoginTable, LoginAccountAt
  <2>2. Sessions!Entitled(Soughts[r], LoginAccountAt(u))
    BY <1>1, <1>2, <1>3, <1>8, EntitledByRow
  <2>3. Sessions!Move(r, "pending", "granted")
    BY <1>1, <1>4, <1>7, <1>8, MovedStage
  <2>4. ClaimsGranted' = [ClaimsGranted EXCEPT ![r] = {[id |-> LoginAccountAt(u).id, roles |-> {}]}]
    BY <1>1, <1>7, <1>8, <2>1, MovedClaims
  <2> QED
    BY <1>0, <1>1, <2>1, <2>2, <2>3, <2>4, KeptLogins DEF SessionStep, Sessions!Next, Sessions!Grant
<1>9. CASE ~Entitles(r, users[u])
  <2>1. \A v \in Stored(users) : ~Sessions!Entitled(Soughts[r], LoginAccountAt(v))
    BY <1>1, <1>2, <1>9, EntitledByRow, OneMatches
  <2> QED
    BY <1>0, <1>1, <1>4, <1>7, <1>9, <2>1, DenyMapped
<1> QED
  BY <1>8, <1>9

(***************************************************************************)
(* The roles of a granted account are settled when its mappings are read.  *)
(***************************************************************************)
LEMMA FindUserRolesMapped ==
  ASSUME Typed, Held, NEW r \in Req, FindUserRoles(r), pc[r] \in Deciding
  PROVE  SessionStep
<1>0. /\ TypeOK /\ HandlerStep(r) /\ UNCHANGED <<users, pc, answer, read, pair>>
      /\ pc[r] \in Calls \ RegisterCalls /\ pc'[r] # "new"
  BY LookUpShape, DecidingCalls
     DEF Typed, LookUp, FindUserRoles, Reads, db, Deciding
<1>1. /\ Calling(r) /\ Calling(r)' /\ UNCHANGED Soughts /\ OthersUntouched(r) /\ req' = req
  BY <1>0, CallingStep
<1>2. /\ found[r] # None /\ ~found[r].mapped /\ found[r] \in Partial
      /\ found'[r] # None /\ found'[r].mapped /\ found'[r].id = found[r].id
      /\ found'[r].row \in UserRow /\ Roleless(found'[r].row) = Roleless(found[r].row)
      /\ found'[r].row.roles = RolesOf(found[r].id)
  BY <1>0, FindUserRolesStep, NothingAssumption DEF FindUserRoles
<1>3. Entitles(r, found[r].row)' <=> Entitles(r, found[r].row)
  <2>1. Entitles(r, found[r].row)' <=> Entitles(r, found'[r].row)
    BY <1>1 DEF Entitles
  <2> QED
    BY <1>2, <2>1, RolelessEntitles DEF Partial
<1>4. Stage(r) = LookUpStage(r) /\ Claimed(r) = ClaimOfRow(r, found[r])
  BY <1>1, DecidingStage
<1>5. Stage(r)' = LookUpStage(r)' /\ Claimed(r)' = ClaimOfRow(r, found[r])'
  <2>1. read[r] = None /\ pair[r] = None /\ pc[r] \notin {"done", "lost"}
    BY <1>1, DecidingStage DEF Deciding
  <2> QED
    BY <1>0, <1>1, <2>1 DEF Stage, Claimed
<1>6. CASE Entitles(r, found[r].row)
  <2> DEFINE c == [id |-> found[r].id, roles |-> found[r].row.roles]
             settled == [id |-> found[r].id, roles |-> RolesOf(found[r].id)]
  <2>1. Stage(r) = "granted" /\ Claimed(r) = {c}
    BY <1>2, <1>4, <1>6 DEF LookUpStage, ClaimOfRow
  <2>2. Stage(r)' = "settled" /\ Claimed(r)' = {settled}
    BY <1>2, <1>3, <1>5, <1>6 DEF LookUpStage, ClaimOfRow
  <2>3. ClaimsGranted[r] = {c}
    BY <2>1 DEF ClaimsGranted
  <2>4. Sessions!RolesOfId(found[r].id) = RolesOf(found[r].id)
    <3>1. found[r].id \in UserId
      BY <1>2 DEF Partial
    <3>2. CASE users[found[r].id] = NoUser
      <4>1. {b \in LoginTable : b.id = found[r].id} = {}
        BY <3>2 DEF LoginTable, LoginAccountAt, Stored
      <4> QED
        BY <3>2, <4>1 DEF Sessions!RolesOfId, RolesOf
    <3>3. CASE users[found[r].id] # NoUser
      <4>1. {b \in LoginTable : b.id = found[r].id} = {LoginAccountAt(found[r].id)}
        BY <3>1, <3>3 DEF LoginTable, LoginAccountAt, Stored
      <4>2. LoginAccountAt(found[r].id).roles = users[found[r].id].roles
        BY DEF LoginAccountAt
      <4> QED
        BY <3>3, <4>1, <4>2 DEF Sessions!RolesOfId, RolesOf
    <3> QED
      BY <3>2, <3>3
  <2>5. {[id |-> d.id, roles |-> Sessions!RolesOfId(d.id)] : d \in ClaimsGranted[r]} = {settled}
    BY <2>3, <2>4
  <2>6. Sessions!Move(r, "granted", "settled")
    BY <1>1, <2>1, <2>2, MovedStage
  <2>7. ClaimsGranted' = [ClaimsGranted EXCEPT ![r] = {settled}]
    BY <1>1, <2>2, MovedClaims
  <2>8. ClaimsGranted' = [ClaimsGranted EXCEPT ![r] =
          {[id |-> d.id, roles |-> Sessions!RolesOfId(d.id)] : d \in ClaimsGranted[r]}]
    BY <2>5, <2>7
  <2> QED
    BY <1>0, <1>1, <2>6, <2>8, KeptLogins DEF SessionStep, Sessions!Next, Sessions!Settle
<1>7. CASE ~Entitles(r, found[r].row)
  <2>1. Stage(r) = "denied" /\ Claimed(r) = {}
    BY <1>2, <1>4, <1>7 DEF LookUpStage, ClaimOfRow
  <2>2. Stage(r)' = "denied" /\ Claimed(r)' = {}
    BY <1>2, <1>3, <1>5, <1>7 DEF LookUpStage, ClaimOfRow
  <2> QED
    BY <1>0, <1>1, <2>1, <2>2, StillMapped
<1> QED
  BY <1>6, <1>7

(***************************************************************************)
(* A call of a session that fails: the client learns nothing of what was   *)
(* decided.                                                                *)
(***************************************************************************)
LEMMA RejectMapped ==
  ASSUME Typed, Held, NEW r \in Req, HandlerStep(r), pc[r] \in DbCalls \ RegisterCalls, Reject(r),
         UNCHANGED <<users, read, pair>>, found'[r] = None
  PROVE  SessionStep
<1>0. pc[r] \in Calls \ RegisterCalls /\ pc'[r] = "done" /\ TypeOK
  BY RejectOutcome DEF DbCalls, Typed
<1>1. Judgement(answer'[r]) = "failed"
  <2>1. PICK e \in DbErrors : Throw(r, IF req[r].op = "refresh" THEN RefreshCatch(e) ELSE e)
    BY DEF Reject
  <2>2. Judgement(ErrorMiddleware(IF req[r].op = "refresh" THEN RefreshCatch(e) ELSE e)) = "failed"
    BY JudgementOfAnswers
  <2> QED
    BY <1>0, <2>1, <2>2, FinishOthers DEF Throw
<1>2. /\ Calling(r) /\ Calling(r)' /\ UNCHANGED Soughts /\ OthersUntouched(r) /\ req' = req
      /\ Stage(r)' = "failed"
  BY <1>0, <1>1, CallingStep
<1>3. pc[r] \in Deciding \/ pc[r] = "login.findByIdWithRoles"
  BY <1>0 DEF DbCalls, Calls, LoginCalls, RefreshCalls, MeCalls, Deciding
<1>4. CASE pc[r] \in Deciding
  <2>1. Stage(r) \in Sessions!Open /\ read[r] = None /\ pair[r] = None
    BY <1>2, <1>4, DecidingStage DEF LookUpStage, Sessions!Open
  <2>2. Claimed(r)' = {}
    BY <1>2, <2>1 DEF Claimed, ClaimOfRow
  <2>3. Sessions!Move(r, Stage(r), "failed") /\ ClaimsGranted' = [ClaimsGranted EXCEPT ![r] = {}]
    BY <1>2, <2>2, MovedStage, MovedClaims
  <2> QED
    BY <1>2, <2>1, <2>3, KeptLogins DEF SessionStep, Sessions!Next, Sessions!Fail
<1>5. CASE pc[r] = "login.findByIdWithRoles"
  <2>1. Stage(r) = "settled" /\ pair[r] # None
    BY <1>2, <1>5 DEF Stage, Deciding, Held, RequestHolds
  <2>2. Claimed(r)' = Claimed(r)
    BY <1>2, <2>1 DEF Claimed, ClaimOf
  <2>3. Sessions!Move(r, "settled", "failed")
    BY <1>2, <2>1, MovedStage
  <2> QED
    BY <1>2, <2>2, <2>3, KeptLogins, KeptClaims
       DEF SessionStep, Sessions!Next, Sessions!Fail, Sessions!Open
<1> QED
  BY <1>3, <1>4, <1>5

(***************************************************************************)
(* A look-up, SELECT by SELECT.  Those of a registration and the second of *)
(* a log-in decide no session.                                             *)
(***************************************************************************)
LEMMA LookUpSessions ==
  ASSUME Typed, UniqueAccounts, Held, NEW r \in Req, LookUp(r)
  PROVE  SessionStep
<1>0. /\ TypeOK /\ HandlerStep(r) /\ OthersUntouched(r) /\ UNCHANGED <<users, read, pair>>
      /\ pc[r] \in LookUps /\ req' = req /\ pc[r] \in DbCalls /\ pc[r] \in Calls
      /\ RoleIsLost(r) \/ UNCHANGED <<pc, answer>>
  BY LookUpShape
     DEF Typed, LookUp, FindUser, FindUserRoles, RoleIsLost, HandlerStep, Reads, db, LookUps, DbCalls
<1>1. CASE pc[r] \in RegisterCalls
  <2>1. req[r].op = "register"
    BY <1>1 DEF Typed, RequestOK, RegisterRequest
  <2>2. Soughts'[r] = Soughts[r] /\ Stage(r)' = Stage(r) /\ Claimed(r)' = Claimed(r)
    BY <1>0, <2>1 DEF Soughts, Stage, Claimed, Calling
  <2> QED
    BY <1>0, <2>2, StillMapped
<1>2. CASE pc[r] \notin RegisterCalls /\ RoleIsLost(r)
  <2>1. Reject(r) /\ found'[r] = None
    BY <1>0, <1>2 DEF RoleIsLost, Take, TypeOK
  <2> QED
    BY <1>0, <1>2, <2>1, RejectMapped
<1>3. CASE pc[r] \in Deciding /\ ~RoleIsLost(r)
  BY <1>3, FindUserMapped, FindUserRolesMapped DEF LookUp
<1>4. CASE pc[r] = "login.findByIdWithRoles" /\ ~RoleIsLost(r)
  <2>1. UNCHANGED <<pc, answer>> /\ pc'[r] # "new" /\ pc[r] \notin RegisterCalls
    BY <1>0, <1>4 DEF RegisterCalls
  <2>2. Calling(r) /\ Calling(r)' /\ Soughts'[r] = Soughts[r] /\ pair[r] # None
    BY <1>0, <1>4, <2>1, CallingStep DEF Held, RequestHolds
  <2>3. Stage(r)' = Stage(r) /\ Claimed(r)' = Claimed(r)
    BY <1>0, <1>4, <2>1, <2>2 DEF Stage, Claimed, Deciding, ClaimOf
  <2> QED
    BY <1>0, <2>2, <2>3, StillMapped
<1>5. pc[r] \in RegisterCalls \/ pc[r] \in Deciding \/ pc[r] = "login.findByIdWithRoles"
  BY <1>0 DEF LookUps, DbCalls, Calls, LoginCalls, RefreshCalls, MeCalls, Deciding
<1> QED
  BY <1>1, <1>2, <1>3, <1>4, <1>5

(***************************************************************************)
(* The handler of a session takes the result of the look-up that decides:  *)
(* nobody, or an account that is entitled or is not.                       *)
(***************************************************************************)
LEMMA ReturnMapped ==
  ASSUME Typed, UniqueAccounts, Held, NEW r \in Req, pc[r] \in Deciding, HandlerStep(r), Returns(r),
         UNCHANGED <<users, pair>>, pc'[r] # "new",
         \/ /\ found[r] # None /\ Entitles(r, found[r].row)
            /\ Stage(r)' \in {"settled", "confirmed"}
            /\ Claimed(r)' = {[id |-> found[r].id, roles |-> found[r].row.roles]}
         \/ /\ found[r] = None \/ ~Entitles(r, found[r].row)
            /\ Stage(r)' = "refused" /\ Claimed(r)' = {}
         \/ /\ found[r] # None /\ ~Entitles(r, found[r].row)
            /\ Stage(r)' = "denied" /\ Claimed(r)' = {}
  PROVE  SessionStep
<1>1. pc[r] \in Calls \ RegisterCalls
  BY DecidingCalls
<1>2. /\ Calling(r) /\ UNCHANGED Soughts /\ Soughts[r] = Sought(req[r]) /\ OthersUntouched(r)
  BY <1>1, CallingStep
<1>3. Stage(r) = LookUpStage(r) /\ Claimed(r) = ClaimOfRow(r, found[r])
  BY <1>2, DecidingStage
<1>4. CASE found[r] # None /\ Entitles(r, found[r].row)
  <2>1. Stage(r) = "settled" /\ Claimed(r) = {[id |-> found[r].id, roles |-> found[r].row.roles]}
    BY <1>3, <1>4 DEF LookUpStage, ClaimOfRow, Returns
  <2>2. CASE Stage(r)' = "settled"
    BY <1>2, <1>4, <2>1, <2>2, StillMapped
  <2>3. CASE Stage(r)' = "confirmed"
    <3>1. Sessions!Move(r, "settled", "confirmed")
      BY <1>2, <2>1, <2>3, MovedStage
    <3> QED
      BY <1>2, <1>4, <2>1, <3>1, KeptLogins, KeptClaims
         DEF SessionStep, Sessions!Next, Sessions!Confirm
  <2> QED
    BY <1>4, <2>2, <2>3
<1>5. CASE found[r] # None /\ ~Entitles(r, found[r].row)
  <2>1. Stage(r) = "denied" /\ Claimed(r) = {} /\ Claimed(r)' = {}
    BY <1>3, <1>5 DEF LookUpStage, ClaimOfRow
  <2>2. CASE Stage(r)' = "denied"
    BY <1>2, <2>1, <2>2, StillMapped
  <2>3. CASE Stage(r)' = "refused"
    <3>1. Sessions!Move(r, "denied", "refused")
      BY <1>2, <2>1, <2>3, MovedStage
    <3> QED
      BY <1>2, <2>1, <3>1, KeptLogins, KeptClaims
         DEF SessionStep, Sessions!Next, Sessions!Refuse
  <2> QED
    BY <1>5, <2>2, <2>3
<1>6. CASE found[r] = None
  <2>1. Stage(r) = "pending" /\ Claimed(r) = {} /\ Stage(r)' = "refused" /\ Claimed(r)' = {}
    BY <1>3, <1>6 DEF LookUpStage, ClaimOfRow
  <2>2. Matching(r) = {}
    BY <1>6 DEF Returns
  <2>3. \A v \in Stored(users) : ~Sessions!Entitled(Soughts[r], LoginAccountAt(v))
    BY <1>2, <2>2, EntitledByRow
  <2> QED
    BY <1>2, <2>1, <2>3, DenyMapped
<1> QED
  BY <1>4, <1>5, <1>6

LEMMA LoginFoundMapped ==
  ASSUME Typed, UniqueAccounts, Held, NEW r \in Req, LoginFindByUsername(r)
  PROVE  SessionStep
<1>0. /\ TypeOK /\ HandlerStep(r) /\ UNCHANGED <<users, pair>> /\ req' = req
      /\ pc[r] = "login.findByUsername" /\ pc[r] \in Deciding /\ pc[r] \in Calls \ RegisterCalls
      /\ req[r] \in LoginRequest /\ Returns(r) /\ found'[r] = None
  BY SessionShape DEF Login, LoginFindByUsername, Take, Typed, TypeOK, RequestOK, Deciding, Calls,
     LoginCalls, RegisterCalls, Reads, db, HandlerStep
<1>1. read[r] = None /\ pair[r] = None
  BY <1>0 DEF Held, RequestHolds
<1>2. ASSUME pc'[r] # "new"
      PROVE  Calling(r)' /\ (pc'[r] = "done" => Stage(r)' = Judgement(answer'[r]))
  BY <1>0, <1>2, CallingStep
<1>3. \A row : Entitles(r, row) <=> row.isActive /\ row.password = Hash(req[r].password)
  BY <1>0 DEF Entitles, LoginRequest
<1>4. CASE found[r] # None /\ found[r].row.isActive
  <2>1. pc'[r] = "login.verifyPassword" /\ read' = [read EXCEPT ![r] = Account(found[r])]
    BY <1>0, <1>4, AwaitOthers DEF LoginFindByUsername
  <2>2. /\ read'[r].id = found[r].id /\ read'[r].row = found[r].row /\ read'[r] # None
        /\ pair'[r] = None
    BY <1>0, <1>1, <1>4, <2>1, AccountType, NothingAssumption DEF Account
  <2>3. PasswordValid(r)' <=> Entitles(r, found[r].row)
    BY <1>0, <1>3, <1>4, <2>2 DEF PasswordValid
  <2>4. Stage(r)' = IF Entitles(r, found[r].row) THEN "settled" ELSE "denied"
    BY <1>2, <2>1, <2>3 DEF Stage, Deciding
  <2>5. Entitles(r, read[r].row)' <=> Entitles(r, found[r].row)
    BY <1>0, <1>3, <1>4, <2>2 DEF Entitles, LoginRequest
  <2>6. Claimed(r)' = IF Entitles(r, found[r].row)
                      THEN {[id |-> found[r].id, roles |-> found[r].row.roles]} ELSE {}
    BY <1>2, <2>1, <2>2, <2>5 DEF Claimed, ClaimOfRow
  <2>7. pc'[r] # "new"
    BY <2>1
  <2> QED
    BY <1>0, <1>4, <2>4, <2>6, <2>7, ReturnMapped
<1>5. CASE ~(found[r] # None /\ found[r].row.isActive)
  <2>1. Throw(r, UnauthorizedError("INVALID_CREDENTIALS")) /\ read' = read
    BY <1>5 DEF LoginFindByUsername
  <2>2. pc'[r] = "done" /\ Judgement(answer'[r]) = "refused"
    BY <1>0, <2>1, FinishOthers, JudgementOfAnswers DEF Throw
  <2>3. Stage(r)' = "refused" /\ Claimed(r)' = {}
    BY <1>0, <1>1, <1>2, <2>1, <2>2 DEF Claimed, ClaimOfRow
  <2>4. found[r] = None \/ ~Entitles(r, found[r].row)
    BY <1>3, <1>5
  <2>5. pc'[r] # "new"
    BY <2>2
  <2> QED
    BY <1>0, <2>3, <2>4, <2>5, ReturnMapped
<1> QED
  BY <1>4, <1>5

(***************************************************************************)
(* The comparison and the second look-up tell the client what was decided. *)
(***************************************************************************)
LEMMA VerifyMapped ==
  ASSUME Typed, Held, NEW r \in Req, LoginVerifyPassword(r)
  PROVE  SessionStep
<1>0. /\ TypeOK /\ HandlerStep(r) /\ UNCHANGED <<users, read, found>> /\ req' = req
      /\ pc[r] = "login.verifyPassword" /\ pc[r] \in Calls \ RegisterCalls
      /\ read[r] \in Snapshot /\ req[r] \in LoginRequest
  BY SessionShape DEF Login, LoginVerifyPassword, Typed, RequestOK, Holding, Calls, LoginCalls,
     RegisterCalls, Reads, db, HandlerStep
<1>1. /\ read[r] # None /\ pair[r] = None /\ (PasswordValid(r)' <=> PasswordValid(r))
      /\ Entitles(r, read[r].row) <=> PasswordValid(r)
  BY <1>0, NothingAssumption DEF Held, RequestHolds, PasswordValid, Entitles, LoginRequest
<1>2. ASSUME pc'[r] # "new"
      PROVE  /\ Calling(r) /\ Calling(r)' /\ UNCHANGED Soughts /\ OthersUntouched(r)
             /\ pc'[r] = "done" => Stage(r)' = Judgement(answer'[r])
  BY <1>0, <1>2, CallingStep
<1>3. CASE PasswordValid(r)
  <2>1. /\ pair' = [pair EXCEPT ![r] = GenerateTokens(read[r].id, read[r].row.roles, now)]
        /\ pc'[r] = "login.findByIdWithRoles" /\ pc'[r] # "new"
    BY <1>0, <1>3, AwaitOthers DEF LoginVerifyPassword
  <2>2. /\ pair'[r] # None
        /\ ClaimOf(pair'[r].access) = HeldClaim(r) /\ ClaimOf(pair'[r].refresh) = HeldClaim(r)
    BY <1>0, <2>1, SignedClaims
  <2>3. Stage(r) = "settled" /\ Stage(r)' = "settled"
    BY <1>0, <1>1, <1>2, <1>3, <2>1 DEF Stage, Deciding
  <2>4. Claimed(r) = {HeldClaim(r)}
    BY <1>1, <1>2, <1>3, <2>1 DEF Claimed, ClaimOfRow, HeldClaim
  <2>5. Claimed(r)' = {HeldClaim(r)}
    BY <1>0, <1>1, <1>2, <2>1, <2>2 DEF Claimed, ClaimOf
  <2> QED
    BY <1>0, <1>2, <2>1, <2>3, <2>4, <2>5, StillMapped
<1>4. CASE ~PasswordValid(r)
  <2>1. /\ Throw(r, UnauthorizedError("INVALID_CREDENTIALS")) /\ pair' = pair
    BY <1>4 DEF LoginVerifyPassword
  <2>2. pc'[r] = "done" /\ Judgement(answer'[r]) = "refused"
    BY <1>0, <2>1, FinishOthers, JudgementOfAnswers DEF Throw
  <2>3. Stage(r) = "denied" /\ Stage(r)' = "refused"
    BY <1>0, <1>2, <1>4, <2>2 DEF Stage, Deciding
  <2>4. Claimed(r)' = Claimed(r)
    <3>1. Entitles(r, read[r].row)' <=> Entitles(r, read[r].row)
      BY <1>0 DEF Entitles
    <3> QED
      BY <1>0, <1>1, <1>2, <2>1, <2>2, <3>1 DEF Claimed, ClaimOfRow
  <2>5. Sessions!Move(r, "denied", "refused")
    BY <1>2, <2>2, <2>3, MovedStage
  <2> QED
    BY <1>0, <1>2, <2>2, <2>4, <2>5, KeptLogins, KeptClaims
       DEF SessionStep, Sessions!Next, Sessions!Refuse
<1> QED
  BY <1>3, <1>4

LEMMA ReloadMapped ==
  ASSUME Typed, Held, NEW r \in Req, LoginFindByIdWithRoles(r)
  PROVE  SessionStep
<1>0. /\ TypeOK /\ HandlerStep(r) /\ UNCHANGED <<users, read, pair>> /\ req' = req
      /\ pc[r] = "login.findByIdWithRoles" /\ pc[r] \in Calls \ RegisterCalls /\ Returns(r)
  BY SessionShape DEF Login, LoginFindByIdWithRoles, Typed, Calls, LoginCalls, RegisterCalls,
     Reads, db, HandlerStep
<1>1. /\ pair[r] # None
      /\ ClaimOf(pair[r].access) = HeldClaim(r) /\ ClaimOf(pair[r].refresh) = HeldClaim(r)
  BY <1>0 DEF Held, RequestHolds
<1>2. pc'[r] = "done" /\ answer'[r] = IF found[r] = None
                                      THEN ErrorMiddleware(UnauthorizedError("INVALID_CREDENTIALS"))
                                      ELSE OkAnswer
  BY <1>0, FinishOthers DEF LoginFindByIdWithRoles, Throw, Return
<1>3. /\ Calling(r) /\ Calling(r)' /\ UNCHANGED Soughts /\ OthersUntouched(r)
      /\ Stage(r)' = Judgement(answer'[r])
  BY <1>0, <1>2, CallingStep
<1>4. Stage(r) = "settled" /\ Claimed(r) = {HeldClaim(r)} /\ Claimed(r)' = {HeldClaim(r)}
  BY <1>0, <1>1, <1>3 DEF Stage, Claimed, Deciding, ClaimOf
<1>5. CASE found[r] # None
  <2>1. Sessions!Move(r, "settled", "confirmed")
    BY <1>2, <1>3, <1>4, <1>5, JudgementOfAnswers, MovedStage
  <2> QED
    BY <1>0, <1>3, <1>4, <2>1, KeptLogins, KeptClaims
       DEF SessionStep, Sessions!Next, Sessions!Confirm
<1>6. CASE found[r] = None
  <2>1. Sessions!Move(r, "settled", "refused")
    BY <1>2, <1>3, <1>4, <1>6, JudgementOfAnswers, MovedStage
  <2>2. \A a \in LoginTable : a.id # read[r].id
    BY <1>0, <1>6 DEF Returns, Matching, FindById, LoginTable, LoginAccountAt, Stored
  <2>3. ClaimsGranted[r] = {HeldClaim(r)}
    BY <1>4 DEF ClaimsGranted
  <2>4. \A a \in LoginTable : \A c \in ClaimsGranted[r] : a.id # c.id
    BY <2>2, <2>3 DEF HeldClaim
  <2> QED
    BY <1>0, <1>3, <1>4, <2>1, <2>4, KeptLogins, KeptClaims
       DEF SessionStep, Sessions!Next, Sessions!Withdraw
<1> QED
  BY <1>5, <1>6

(***************************************************************************)
(* A refresh signs what its look-up has settled.                           *)
(***************************************************************************)
LEMMA RefreshFoundMapped ==
  ASSUME Typed, UniqueAccounts, Held, NEW r \in Req, RefreshFindByIdWithRoles(r)
  PROVE  SessionStep
<1>0. /\ TypeOK /\ HandlerStep(r) /\ UNCHANGED <<users, pair>> /\ req' = req
      /\ pc[r] = "refresh.findByIdWithRoles" /\ pc[r] \in Deciding
      /\ pc[r] \in Calls \ RegisterCalls
      /\ req[r] \in RefreshRequest /\ Returns(r) /\ found'[r] = None
  BY SessionShape DEF Refresh, RefreshFindByIdWithRoles, Take, Typed, TypeOK, RequestOK, Deciding,
     Calls, RefreshCalls, RegisterCalls, Reads, db, HandlerStep
<1>1. read[r] = None /\ pair[r] = None
  BY <1>0 DEF Held, RequestHolds
<1>2. ASSUME pc'[r] # "new"
      PROVE  Calling(r)' /\ (pc'[r] = "done" => Stage(r)' = Judgement(answer'[r]))
  BY <1>0, <1>2, CallingStep
<1>3. \A row : Entitles(r, row) <=> row.isActive
  BY <1>0 DEF Entitles, RefreshRequest
<1>4. CASE Refreshable(found[r])
  <2>0. found[r] # None /\ found[r].row.isActive
    BY <1>4 DEF Refreshable
  <2>1. pc'[r] = "refresh.generateTokens" /\ read' = [read EXCEPT ![r] = Account(found[r])]
    BY <1>0, <1>4, AwaitOthers DEF RefreshFindByIdWithRoles
  <2>2. /\ read'[r].id = found[r].id /\ read'[r].row = found[r].row /\ read'[r] # None
        /\ pair'[r] = None
    BY <1>0, <1>1, <2>0, <2>1, AccountType, NothingAssumption DEF Account
  <2>3. Stage(r)' = "settled"
    BY <1>2, <2>1 DEF Stage, Deciding
  <2>4. Entitles(r, read[r].row)' /\ Entitles(r, found[r].row)
    BY <1>0, <1>3, <2>0, <2>2 DEF Entitles, RefreshRequest
  <2>5. Claimed(r)' = {[id |-> found[r].id, roles |-> found[r].row.roles]}
    BY <1>2, <2>1, <2>2, <2>4 DEF Claimed, ClaimOfRow
  <2>6. pc'[r] # "new"
    BY <2>1
  <2> QED
    BY <1>0, <2>0, <2>3, <2>4, <2>5, <2>6, ReturnMapped
<1>5. CASE ~Refreshable(found[r])
  <2>1. Throw(r, RefreshCatch(UnauthorizedError("INVALID_CREDENTIALS"))) /\ read' = read
    BY <1>5 DEF RefreshFindByIdWithRoles
  <2>2. pc'[r] = "done" /\ Judgement(answer'[r]) = "refused"
    BY <1>0, <2>1, FinishOthers, JudgementOfAnswers DEF Throw
  <2>3. Stage(r)' = "refused" /\ Claimed(r)' = {}
    BY <1>0, <1>1, <1>2, <2>1, <2>2 DEF Claimed, ClaimOfRow
  <2>4. found[r] = None \/ ~Entitles(r, found[r].row)
    BY <1>3, <1>5 DEF Refreshable
  <2>5. pc'[r] # "new"
    BY <2>2
  <2> QED
    BY <1>0, <2>3, <2>4, <2>5, ReturnMapped
<1> QED
  BY <1>4, <1>5

LEMMA RefreshSignedMapped ==
  ASSUME Typed, Held, NEW r \in Req, RefreshGenerateTokens(r)
  PROVE  SessionStep
<1>0. /\ TypeOK /\ HandlerStep(r) /\ UNCHANGED <<users, read>> /\ req' = req
      /\ pc[r] = "refresh.generateTokens" /\ pc[r] \in Calls \ RegisterCalls
      /\ read[r] \in Snapshot /\ req[r] \in RefreshRequest
  BY SessionShape DEF Refresh, RefreshGenerateTokens, Typed, RequestOK, Holding, Calls,
     RefreshCalls, RegisterCalls, Reads, db, HandlerStep
<1>1. read[r] # None /\ pair[r] = None /\ Entitles(r, read[r].row)
  BY <1>0, NothingAssumption DEF Held, RequestHolds, Entitles, RefreshRequest
<1>2. /\ pc'[r] = "done" /\ answer'[r] = OkAnswer
      /\ pair' = [pair EXCEPT ![r] = GenerateTokens(read[r].id, read[r].row.roles, now)]
  BY <1>0, FinishOthers DEF RefreshGenerateTokens, Return
<1>3. /\ Calling(r) /\ Calling(r)' /\ UNCHANGED Soughts /\ OthersUntouched(r)
      /\ Stage(r)' = "confirmed"
  BY <1>0, <1>2, CallingStep, JudgementOfAnswers
<1>4. /\ pair'[r] # None
      /\ ClaimOf(pair'[r].access) = HeldClaim(r) /\ ClaimOf(pair'[r].refresh) = HeldClaim(r)
  BY <1>0, <1>2, SignedClaims
<1>5. Stage(r) = "settled" /\ Claimed(r) = {HeldClaim(r)}
  BY <1>0, <1>1, <1>3 DEF Stage, Claimed, Deciding, ClaimOfRow, HeldClaim
<1>6. Claimed(r)' = {HeldClaim(r)}
  BY <1>3, <1>4 DEF Claimed, ClaimOf
<1>7. Sessions!Move(r, "settled", "confirmed")
  BY <1>3, <1>5, MovedStage
<1> QED
  BY <1>0, <1>3, <1>5, <1>6, <1>7, KeptLogins, KeptClaims
     DEF SessionStep, Sessions!Next, Sessions!Confirm

LEMMA MeMapped ==
  ASSUME Typed, UniqueAccounts, Held, NEW r \in Req, MeFindByIdWithRoles(r)
  PROVE  SessionStep
<1>0. /\ TypeOK /\ HandlerStep(r) /\ UNCHANGED <<users, pair>> /\ req' = req
      /\ pc[r] = "me.findByIdWithRoles" /\ pc[r] \in Deciding
      /\ pc[r] \in Calls \ RegisterCalls
      /\ req[r] \in MeRequest /\ Returns(r) /\ found'[r] = None
  BY SessionShape DEF MeFindByIdWithRoles, Take, Typed, TypeOK, RequestOK, Deciding,
     Calls, MeCalls, RegisterCalls, Reads, db, HandlerStep
<1>1. read[r] = None /\ pair[r] = None
  BY <1>0 DEF Held, RequestHolds
<1>2. pc'[r] = "done" /\ pc'[r] # "new"
  BY <1>0, FinishOthers DEF MeFindByIdWithRoles, Throw, Return
<1>3. Calling(r)' /\ Stage(r)' = Judgement(answer'[r])
  BY <1>0, <1>2, CallingStep
<1>4. \A row : Entitles(r, row)
  BY <1>0 DEF Entitles, MeRequest
<1>5. CASE found[r] # None
  <2>1. read' = [read EXCEPT ![r] = Account(found[r])] /\ answer'[r] = OkAnswer
    BY <1>0, <1>5, FinishOthers DEF MeFindByIdWithRoles, Return
  <2>2. /\ read'[r].id = found[r].id /\ read'[r].row = found[r].row /\ read'[r] # None
        /\ pair'[r] = None
    BY <1>0, <1>1, <1>5, <2>1, AccountType, NothingAssumption DEF Account
  <2>3. Entitles(r, read[r].row)'
    BY <1>0 DEF Entitles, MeRequest
  <2>4. Stage(r)' = "confirmed" /\ Claimed(r)' = {[id |-> found[r].id, roles |-> found[r].row.roles]}
    BY <1>3, <2>1, <2>2, <2>3, JudgementOfAnswers DEF Claimed, ClaimOfRow
  <2> QED
    BY <1>0, <1>2, <1>4, <1>5, <2>4, ReturnMapped
<1>6. CASE found[r] = None
  <2>1. Throw(r, UnauthorizedError("USER_NOT_FOUND")) /\ read' = read
    BY <1>6 DEF MeFindByIdWithRoles
  <2>2. Stage(r)' = "refused" /\ Claimed(r)' = {}
    BY <1>0, <1>1, <1>3, <2>1, FinishOthers, JudgementOfAnswers DEF Throw, Claimed, ClaimOfRow
  <2> QED
    BY <1>0, <1>2, <1>6, <2>2, ReturnMapped
<1> QED
  BY <1>5, <1>6

----------------------------------------------------------------------------
(* The other steps.                                                        *)

(***************************************************************************)
(* Accounts come, go and change, but keep their names and passwords.       *)
(***************************************************************************)
LEMMA ManageMapped ==
  ASSUME DbTypeOK', UniqueAccounts', UNCHANGED <<Soughts, Stages, ClaimsGranted>>,
         \A u \in UserId : users[u] # NoUser /\ users'[u] # NoUser =>
           users'[u].username = users[u].username /\ users'[u].password = users[u].password
  PROVE  Sessions!Manage
<1>1. LoginTable' \subseteq Sessions!Account
  BY DEF DbTypeOK, LoginTable, LoginAccountAt, Stored, Sessions!Account, UserRow
<1>2. Sessions!Distinct(LoginTable')
  <2>1. ASSUME NEW u \in Stored(users'), NEW v \in Stored(users'),
               LoginAccountAt(u)'.id = LoginAccountAt(v)'.id
                 \/ LoginAccountAt(u)'.name = LoginAccountAt(v)'.name
        PROVE  LoginAccountAt(u)' = LoginAccountAt(v)'
    <3>1. u = v
      BY <2>1 DEF UniqueAccounts, LoginAccountAt
    <3> QED
      BY <3>1
  <2> QED
    BY <2>1 DEF Sessions!Distinct, LoginTable
<1>3. ASSUME NEW a \in LoginTable, NEW b \in LoginTable', a.id = b.id
      PROVE  a.name = b.name /\ a.password = b.password
  <2>1. PICK u \in Stored(users) : a = LoginAccountAt(u)
    BY DEF LoginTable
  <2>2. PICK v \in Stored(users') : b = LoginAccountAt(v)'
    BY DEF LoginTable
  <2>3. u = v
    BY <1>3, <2>1, <2>2 DEF LoginAccountAt
  <2> QED
    BY <2>1, <2>2, <2>3 DEF LoginAccountAt, Stored
<1> QED
  BY <1>1, <1>2, <1>3 DEF Sessions!Manage

(***************************************************************************)
(* A step of a registration is seen by sessions only as an account that is *)
(* new.                                                                    *)
(***************************************************************************)
LEMMA InsertManages ==
  ASSUME Typed, Typed', UniqueAccounts', UNCHANGED <<Soughts, Stages, ClaimsGranted>>,
         NEW r \in Req, users[r] = NoUser, InsertUser(r, RegisteredRow(r))
  PROVE  SessionStep
<1>1. \A u \in UserId : users[u] # NoUser => users'[u] = users[u]
  BY DEF InsertUser, Typed, TypeOK, DbTypeOK
<1>2. Sessions!Manage
  BY <1>1, ManageMapped DEF Typed, TypeOK
<1> QED
  BY <1>2 DEF SessionStep, Sessions!Next

LEMMA NewAccountMapped ==
  ASSUME Typed, Fresh, Typed', UniqueAccounts', NEW r \in Req, HandlerStep(r),
         pc[r] \in RegisterCalls, pc'[r] # "new"
  PROVE  SessionStep
<1>1. req[r].op = "register" /\ req' = req /\ OthersUntouched(r)
  BY DEF Typed, RequestOK, RegisterRequest, HandlerStep
<1>2. Soughts'[r] = Soughts[r] /\ Stage(r)' = Stage(r) /\ Claimed(r)' = Claimed(r)
  BY <1>1 DEF Soughts, Stage, Claimed, Calling
<1>3. CASE users' = users
  BY <1>1, <1>2, <1>3, StillMapped
<1>4. CASE Stores(r)
  <2>1. InsertUser(r, RegisteredRow(r)) /\ users[r] = NoUser
    BY <1>4 DEF Stores, Fresh, RequestFresh, Settled
  <2>2. Stages' = Stages
    BY <1>1, <1>2, OthersKept DEF Stages
  <2> QED
    BY <1>1, <1>2, <2>1, <2>2, KeptSoughts, KeptClaims, InsertManages
<1> QED
  BY <1>3, <1>4 DEF HandlerStep

LEMMA RegisterStays ==
  ASSUME Typed, NEW r \in Req, Register(r)
  PROVE  pc[r] \in RegisterCalls /\ pc'[r] # "new"
<1>1. (\E call \in RegisterCalls : Await(r, call)) \/ (\E a : Finish(r, a))
  BY DEF Register, RegisterFindByUsername, RegisterFindByEmail, RegisterFindRoleByName,
     RegisterCreateUser, RegisterGenerateTokens, RegisterSendWelcomeEmail, Throw, Return,
     RegisterCalls
<1>2. pc[r] \in RegisterCalls
  BY DEF Register, RegisterFindByUsername, RegisterFindByEmail, RegisterFindRoleByName,
     RegisterCreateUser, RegisterGenerateTokens, RegisterSendWelcomeEmail, RegisterCalls
<1> QED
  BY <1>1, <1>2, AwaitOthers, FinishOthers DEF Typed, RegisterCalls

(***************************************************************************)
(* An insert that lands when nobody waits for it is a new account, too.    *)
(***************************************************************************)
LEMMA LateInsertMapped ==
  ASSUME Typed, Fresh, Typed', UniqueAccounts', NEW r \in Req, Land(r)
  PROVE  SessionStep
<1>1. /\ UNCHANGED <<req, pc, found, read, pair, answer>> /\ r \in adrift
      /\ users' = users \/ InsertUser(r, RegisteredRow(r))
  BY LandShape DEF LateStep
<1>2. UNCHANGED <<Soughts, Stages, ClaimsGranted>>
  BY <1>1, KeptSession DEF Soughts, Stages, ClaimsGranted
<1>3. CASE users' = users
  BY <1>2, <1>3, KeptLogins DEF SessionStep, Sessions!vars
<1>4. CASE InsertUser(r, RegisteredRow(r))
  BY <1>1, <1>2, <1>4, InsertManages DEF Fresh, RequestFresh
<1> QED
  BY <1>1, <1>3, <1>4

LEMMA FailedCallMapped ==
  ASSUME Typed, Held, NEW r \in Req, DbFails(r), pc[r] \notin RegisterCalls
  PROVE  SessionStep
<1>1. HandlerStep(r) /\ UNCHANGED <<read, pair>>
  BY DbFailsShape DEF locals
<1>2. UNCHANGED users /\ pc[r] \in DbCalls \ RegisterCalls /\ Reject(r)
  BY DEF DbFails, RegisterCalls, db
<1>3. found'[r] = None
  BY DEF DbFails, Take, Typed, TypeOK
<1> QED
  BY <1>1, <1>2, <1>3, RejectMapped

(***************************************************************************)
(* A request that arrives asks for somebody, or has nothing to show.       *)
(***************************************************************************)
LEMMA AskMapped ==
  ASSUME Typed, Held, NEW r \in Req, Arrival(r)
  PROVE  SessionStep
<1>0. /\ TypeOK /\ pc[r] = "new" /\ UNCHANGED users /\ OthersUntouched(r)
      /\ UNCHANGED <<found, read, pair>> /\ found[r] = None
  BY ArrivalShape DEF Typed
<1>1. /\ Stage(r) = "idle" /\ Claimed(r) = {} /\ Claimed(r)' = {} /\ Soughts[r] = None
  BY <1>0 DEF Held, RequestHolds, Stage, Calling, Claimed, ClaimOfRow, Soughts
<1>2. UNCHANGED ClaimsGranted /\ UNCHANGED LoginTable
  BY <1>0, <1>1, KeptClaims, KeptLogins
<1>3. ASSUME NEW wish \in Sessions!Wish, Soughts'[r] = wish, Stage(r)' \in {"pending", "failed"}
      PROVE  SessionStep
  <2>1. \A q \in Req : q # r => Soughts'[q] = Soughts[q]
    BY <1>0, OthersKept
  <2>2. Soughts' = [Soughts EXCEPT ![r] = wish]
    BY <1>3, <2>1 DEF Soughts
  <2>3. Sessions!Move(r, "idle", "pending") \/ Sessions!Move(r, "idle", "failed")
    BY <1>0, <1>1, <1>3, MovedStage
  <2> QED
    BY <1>2, <2>2, <2>3 DEF SessionStep, Sessions!Next, Sessions!Ask
<1>4. ASSUME NEW request, Arrive(r, request)
      PROVE  req'[r] = request
  BY <1>0, <1>4 DEF Arrive, TypeOK
<1>5. ASSUME NEW call \in Deciding, Await(r, call), req'[r].op # "register"
      PROVE  Stage(r)' = "pending" /\ Soughts'[r] = Sought(req'[r])
  <2>1. pc'[r] = call
    BY <1>0, <1>5, AwaitOthers
  <2> QED
    BY <1>0, <1>5, <2>1 DEF Stage, LookUpStage, Soughts, Calling, Deciding
<1>6. ASSUME NEW a, Finish(r, a), Judgement(a) = "failed", req'[r].op # "register"
      PROVE  Stage(r)' = "failed" /\ Soughts'[r] = Sought(req'[r])
  <2>1. pc'[r] = "done" /\ answer'[r] = a
    BY <1>0, <1>6, FinishOthers
  <2> QED
    BY <1>6, <2>1 DEF Stage, Soughts, Calling
<1>7. CASE ArriveRegister(r)
  <2>1. req'[r].op = "register"
    BY <1>4, <1>7 DEF ArriveRegister
  <2>2. Stage(r)' = "idle" /\ Soughts'[r] = None
    BY <2>1 DEF Stage, Soughts, Calling
  <2> QED
    BY <1>0, <1>1, <2>2, StillMapped
<1>8. CASE ArriveLogin(r)
  <2>1. PICK username \in Username, password \in Password :
          /\ Arrive(r, [op |-> "login", username |-> username, password |-> password])
          /\ Await(r, "login.findByUsername")
    BY <1>8 DEF ArriveLogin
  <2>2. req'[r] = [op |-> "login", username |-> username, password |-> password]
    BY <1>4, <2>1
  <2>3. Sought(req'[r]) = [op |-> "login", name |-> username, password |-> Hash(password)]
    BY <2>2 DEF Sought
  <2>4. Sought(req'[r]) \in Sessions!Wish
    BY <2>3 DEF Sessions!Wish, Hash
  <2> QED
    BY <1>3, <1>5, <2>1, <2>2, <2>4 DEF Deciding
\* What a token asks for.
<1>9. ASSUME NEW op \in {"refresh", "me"}, NEW token \in Token, req'[r] = [op |-> op, token |-> token]
      PROVE  Sought(req'[r]) \in Sessions!Wish
  <2>1. Sought(req'[r]) = [op |-> op, id |-> token.userId] /\ token.userId \in UserId
    BY <1>9, NothingAssumption DEF Sought, Token
  <2> QED
    BY <2>1 DEF Sessions!Wish
<1>10. CASE ArriveRefresh(r)
  <2>1. PICK token \in Token :
          /\ Arrive(r, [op |-> "refresh", token |-> token])
          /\ \/ Await(r, "refresh.findByIdWithRoles")
             \/ Throw(r, RefreshCatch(VerifyError(token, RefreshSecret)))
    BY <1>0, <1>10, PresentableType DEF ArriveRefresh
  <2>2. req'[r] = [op |-> "refresh", token |-> token]
    BY <1>4, <2>1
  <2>3. Stage(r)' \in {"pending", "failed"} /\ Soughts'[r] = Sought(req'[r])
    BY <1>5, <1>6, <2>1, <2>2, JudgementOfAnswers DEF Throw, Deciding
  <2> QED
    BY <1>3, <1>9, <2>2, <2>3
<1>11. CASE ArriveMe(r)
  <2>1. PICK token \in Token \cup {None} :
          /\ Arrive(r, [op |-> "me", token |-> token])
          /\ IF token = None THEN Throw(r, UnauthorizedError("UNAUTHORIZED"))
             ELSE \/ Await(r, "me.findByIdWithRoles")
                  \/ Throw(r, VerifyError(token, AccessSecret))
    BY <1>0, <1>11, PresentableType DEF ArriveMe
  <2>2. req'[r] = [op |-> "me", token |-> token]
    BY <1>4, <2>1
  <2>3. CASE token # None
    <3>1. Stage(r)' \in {"pending", "failed"} /\ Soughts'[r] = Sought(req'[r])
      BY <1>5, <1>6, <2>1, <2>2, <2>3, JudgementOfAnswers DEF Throw, Deciding
    <3> QED
      BY <1>3, <1>9, <2>1, <2>2, <2>3, <3>1
  <2>4. CASE token = None
    <3>1. Stage(r)' = "failed" /\ Soughts'[r] = Sought(req'[r])
      BY <1>6, <2>1, <2>2, <2>4, JudgementOfAnswers DEF Throw
    <3>2. Sought(req'[r]) = None
      BY <2>2, <2>4 DEF Sought
    <3>3. Sessions!Move(r, "idle", "failed") /\ UNCHANGED Soughts
      BY <1>0, <1>1, <3>1, <3>2, MovedStage, KeptSoughts
    <3> QED
      BY <1>2, <3>3 DEF SessionStep, Sessions!Next, Sessions!Dismiss
  <2> QED
    BY <2>3, <2>4
<1> QED
  BY <1>7, <1>8, <1>10, <1>11 DEF Arrival

(***************************************************************************)
(* A crash loses exactly the sessions that are open.                       *)
(***************************************************************************)
LEMMA DieMapped ==
  ASSUME Typed, Crash
  PROVE  SessionStep
<1>1. UNCHANGED <<users, req, answer, found, read, pair>>
  BY DEF Crash, db, locals
<1>2. ASSUME NEW q \in Req
      PROVE  /\ Calling(q)' <=> Calling(q)
             /\ Stage(q)' = IF Stage(q) \in Sessions!Open THEN "lost" ELSE Stage(q)
             /\ Claimed(q)' = Claimed(q)
  <2>1. /\ pc'[q] = IF pc[q] \in Calls THEN "lost" ELSE pc[q]
        /\ pc[q] \in Calls \cup {"new", "done", "lost"}
    BY DEF Crash, InFlight, Typed, TypeOK
  <2>2. pc[q] \in Calls => pc[q] \notin {"new", "done", "lost"}
    BY DEF Calls, RegisterCalls, LoginCalls, RefreshCalls, MeCalls
  <2>3. Calling(q)' <=> Calling(q)
    BY <1>1, <2>1, <2>2 DEF Calling
  <2>4. CASE ~Calling(q)
    BY <2>3, <2>4 DEF Stage, Claimed, Sessions!Open
  <2>5. CASE Calling(q) /\ pc[q] \in Calls
    <3>1. Stage(q) \in Sessions!Open
      BY <2>2, <2>5 DEF Stage, LookUpStage, Sessions!Open
    <3>2. Stage(q)' = "lost"
      BY <2>1, <2>3, <2>5 DEF Stage
    <3>3. Claimed(q)' = Claimed(q)
      BY <1>1, <2>3, <2>5 DEF Claimed, ClaimOf, ClaimOfRow, Entitles
    <3> QED
      BY <2>3, <3>1, <3>2, <3>3
  <2>6. CASE Calling(q) /\ pc[q] \notin Calls
    <3>1. pc'[q] = pc[q] /\ pc[q] \in {"done", "lost"}
      BY <2>1, <2>6 DEF Calling
    <3>2. Stage(q)' = Stage(q) /\ Claimed(q)' = Claimed(q)
      BY <1>1, <3>1, KeptSession
    <3>3. Stage(q) \notin Sessions!Open
      BY <2>6, <3>1 DEF Stage, Judgement, Sessions!Open
    <3> QED
      BY <2>3, <3>2, <3>3
  <2> QED
    BY <2>4, <2>5, <2>6
<1>3. Soughts' = Soughts /\ ClaimsGranted' = ClaimsGranted /\ LoginTable' = LoginTable
  BY <1>1, <1>2, KeptLogins DEF Soughts, ClaimsGranted
<1>4. Stages' = [r \in Req |-> IF Stages[r] \in Sessions!Open THEN "lost" ELSE Stages[r]]
  BY <1>2 DEF Stages
<1> QED
  BY <1>3, <1>4 DEF SessionStep, Sessions!Next, Sessions!Die

LEMMA OperatorMapped ==
  ASSUME Typed, Typed', UniqueAccounts', Edit
  PROVE  SessionStep
<1>1. /\ UNCHANGED <<req, pc, answer, found, read, pair>> /\ Administer
      /\ DbTypeOK /\ DbTypeOK'
  BY DEF Edit, Typed, TypeOK, locals
<1>2. UNCHANGED <<Soughts, Stages, ClaimsGranted>>
  BY <1>1, KeptSession DEF Soughts, Stages, ClaimsGranted
<1>3. Sessions!Manage
  BY <1>1, <1>2, AdministerRows, ManageMapped
<1> QED
  BY <1>3 DEF SessionStep, Sessions!Next

LEMMA InitSessions == Init => Sessions!Init
<1> SUFFICES ASSUME Init
             PROVE  Sessions!Init
  OBVIOUS
<1>1. DbTypeOK
  BY InitTyped DEF Typed, TypeOK
<1>2. LoginTable \subseteq Sessions!Account
  BY <1>1 DEF DbTypeOK, LoginTable, LoginAccountAt, Stored, Sessions!Account, UserRow
<1>3. Sessions!Distinct(LoginTable)
  <2>1. \A u, v \in Stored(users) : users[u].username = users[v].username => u = v
    BY AuthAssumption DEF Init, Stored, Seeded
  <2> QED
    BY <2>1 DEF LoginTable, LoginAccountAt, Sessions!Distinct
<1>4. /\ Soughts = [r \in Req |-> None] /\ Stages = [r \in Req |-> "idle"]
      /\ ClaimsGranted = [r \in Req |-> {}]
  BY DEF Init, Soughts, Stages, ClaimsGranted, Stage, Claimed, Calling
<1> QED
  BY <1>2, <1>3, <1>4 DEF Sessions!Init

LEMMA NextSessions ==
  /\ Typed /\ Fresh /\ UniqueAccounts /\ Held
  /\ Typed' /\ UniqueAccounts'
  /\ [Next]_vars
  => SessionStep
<1> SUFFICES ASSUME Typed, Fresh, UniqueAccounts, Held, Typed', UniqueAccounts', [Next]_vars
             PROVE  SessionStep
  OBVIOUS
<1>1. CASE UNCHANGED vars \/ Tick
  <2>1. UNCHANGED <<users, req, pc, answer, found, read, pair>>
    BY <1>1 DEF vars, Tick, db, locals
  <2>2. UNCHANGED <<Soughts, Stages, ClaimsGranted>>
    BY <2>1, KeptSession DEF Soughts, Stages, ClaimsGranted
  <2> QED
    BY <2>1, <2>2, KeptLogins DEF SessionStep, Sessions!vars
<1>2. ASSUME NEW r \in Req, Handle(r)
      PROVE  SessionStep
  <2>1. CASE Register(r)
    BY <2>1, RegisterShape, RegisterStays, NewAccountMapped
  <2> QED
    BY <1>2, <2>1, LookUpSessions, LoginFoundMapped, VerifyMapped, ReloadMapped,
       RefreshFoundMapped, RefreshSignedMapped, MeMapped DEF Handle, Login, Refresh
<1>3. ASSUME NEW r \in Req, DbFails(r)
      PROVE  SessionStep
  <2>1. CASE pc[r] \in RegisterCalls
    BY <1>3, <2>1, DbFailsShape, NewAccountMapped
  <2> QED
    BY <1>3, <2>1, FailedCallMapped
<1> QED
  BY <1>1, <1>2, <1>3, AskMapped, LateInsertMapped, DieMapped, OperatorMapped DEF Next

(***************************************************************************)
(* What log-ins, refreshes and /me are granted and told is what a registry *)
(* that decides each of them at one moment, and settles the roles at one   *)
(* later moment, would have granted and told them: for any number of       *)
(* requests at once, with registrations, failures, a crash and operators   *)
(* between any two awaits and any two SELECTs of a look-up.                *)
(***************************************************************************)
THEOREM SessionsDecidedOnce == Spec => SessionsDecideOnce
<1>1. Init => UniqueAccounts
  BY AuthAssumption DEF Init, UniqueAccounts, Stored, Seeded
<1>2. SessionStep => [Sessions!Next]_(Sessions!vars)
  BY DEF SessionStep
<1> QED
  BY InitTyped, NextTyped, InitFresh, NextFresh, <1>1, NextUnique, InitHeld, NextHeld,
     InitSessions, NextSessions, <1>2,
     PTL DEF Spec, SessionsDecideOnce, Sessions!Spec
=============================================================================
