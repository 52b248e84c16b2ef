---------------------------- MODULE AnswerProofs ----------------------------
(***************************************************************************)
(* What the answers of the authentication service mean: theorems about the *)
(* history of a request, for every set of requests, accounts and names.    *)
(***************************************************************************)
EXTENDS AuthRegistry, AuthProofs

----------------------------------------------------------------------------
(* What a step leaves alone.                                               *)

(***************************************************************************)
(* Request q keeps what it asked, where it stands, what its handler holds  *)
(* and what it was answered.                                               *)
(***************************************************************************)
Untouched(q) ==
  /\ pc'[q] = pc[q] /\ req'[q] = req[q] /\ answer'[q] = answer[q]
  /\ found'[q] = found[q] /\ read'[q] = read[q] /\ pair'[q] = pair[q]
  /\ q \in mailed' <=> q \in mailed
  /\ q \in adrift' <=> q \in adrift

(***************************************************************************)
(* The history of q only grows, by rows that are stored now, and only while*)
(* its handler runs.                                                       *)
(***************************************************************************)
Observes(q) ==
  /\ seen[q] \subseteq seen'[q]
  /\ seen'[q] \subseteq seen[q] \cup Rows(users')
  /\ pc[q] \notin Calls => seen'[q] = seen[q]

OthersUntouched(r) == \A q \in Req : q # r => Untouched(q)

LEMMA FinishOthers ==
  ASSUME TypeOK, NEW r \in Req, NEW a, Finish(r, a)
  PROVE  /\ pc'[r] = "done" /\ answer'[r] = a
         /\ \A q \in Req : q # r => pc'[q] = pc[q] /\ answer'[q] = answer[q]
  BY DEF TypeOK, Finish

LEMMA AwaitOthers ==
  ASSUME TypeOK, NEW r \in Req, NEW call, Await(r, call)
  PROVE  /\ pc'[r] = call /\ answer' = answer
         /\ \A q \in Req : q # r => pc'[q] = pc[q]
  BY DEF TypeOK, Await

LEMMA ReadsOthers ==
  ASSUME Reads, NEW r \in Req,
         \A q \in Req : q # r => /\ pc'[q] = pc[q] /\ answer'[q] = answer[q]
                                 /\ found'[q] = found[q] /\ read'[q] = read[q]
                                 /\ pair'[q] = pair[q]
  PROVE  OthersUntouched(r) /\ req' = req /\ users' = users /\ \A q \in Req : Observes(q)
  BY DEF Reads, OthersUntouched, Untouched, Observes, db

LEMMA WitnessObserves ==
  ASSUME TypeOK, Witness, NEW q \in Req
  PROVE  Observes(q)
  BY DEF TypeOK, Witness, Observes, InFlight

(***************************************************************************)
(* A request that arrives.                                                 *)
(***************************************************************************)
LEMMA ArrivalShape ==
  ASSUME Typed, NEW r \in Req, Arrival(r)
  PROVE  /\ OthersUntouched(r) /\ users' = users /\ pc[r] = "new"
         /\ pc'[r] \in (Calls \ Holding) \cup {"done"}
         /\ pc'[r] = "done" \/ answer'[r] = answer[r]
         /\ seen'[r] = Rows(users) /\ \A q \in Req : q # r => seen'[q] = seen[q]
         /\ UNCHANGED <<found, read, pair, mailed, adrift>>
         /\ found[r] = None /\ r \notin adrift
<1>0. TypeOK /\ RequestOK(r)
  BY DEF Typed
<1>1. PICK request : Arrive(r, request)
  BY DEF Arrival, ArriveRegister, ArriveLogin, ArriveRefresh, ArriveMe
<1>2. \/ \E call \in Calls \ Holding : Await(r, call)
      \/ \E a : Finish(r, a)
  BY DEF Arrival, ArriveRegister, ArriveLogin, ArriveRefresh, ArriveMe, Throw, Calls,
         RegisterCalls, LoginCalls, RefreshCalls, MeCalls, Holding
<1>3. /\ pc'[r] \in (Calls \ Holding) \cup {"done"}
      /\ pc'[r] = "done" \/ answer'[r] = answer[r]
      /\ \A q \in Req : q # r => pc'[q] = pc[q] /\ answer'[q] = answer[q]
  BY <1>0, <1>2, FinishOthers, AwaitOthers
<1>4. /\ pc[r] = "new" /\ users' = users /\ UNCHANGED <<found, read, pair, mailed, adrift>>
      /\ seen'[r] = Rows(users) /\ \A q \in Req : q # r => seen'[q] = seen[q] /\ req'[q] = req[q]
  BY <1>0, <1>1 DEF Arrive, TypeOK, db, locals
<1>5. found[r] = None /\ r \notin adrift
  BY <1>0, <1>4 DEF RequestOK, LookUps, DbCalls, Calls, RegisterCalls, LoginCalls, RefreshCalls, MeCalls
<1> QED
  BY <1>3, <1>4, <1>5 DEF OthersUntouched, Untouched

(***************************************************************************)
(* A step of a handler, or a failed call of it: only createUser stores, and*)
(* only the account of its own request; when its connection breaks, the    *)
(* database may be left to store it.                                       *)
(***************************************************************************)
Settled == {"register.generateTokens", "register.sendWelcomeEmail", "done", "lost"}

Stores(r) ==
  /\ pc[r] = "register.createUser" /\ Storable(r) /\ InsertUser(r, RegisteredRow(r))
  /\ pc'[r] \in Settled

HandlerStep(r) ==
  /\ OthersUntouched(r) /\ req' = req /\ pc[r] \in Calls
  /\ \A q \in Req : Observes(q)
  /\ users' = users \/ Stores(r)
  /\ pc'[r] = "done" \/ answer'[r] = answer[r]
  /\ pc[r] \in Settled => pc'[r] \in Settled
  /\ r \in adrift' => pc[r] = "register.createUser" /\ pc'[r] = "done" /\ users' = users

LEMMA NotAdrift ==
  ASSUME Typed, NEW r \in Req, pc[r] \in Calls
  PROVE  r \notin adrift
  BY DEF Typed, RequestOK, Calls, RegisterCalls, LoginCalls, RefreshCalls, MeCalls

LEMMA RegisterShape ==
  ASSUME Typed, NEW r \in Req, Register(r)
  PROVE  HandlerStep(r)
<1>0. TypeOK
  BY DEF Typed
<1> USE DEF HandlerStep, Calls, RegisterCalls, Settled
<1>1. CASE RegisterFindByUsername(r) \/ RegisterFindByEmail(r)
  <2>1. /\ Reads /\ UNCHANGED <<read, pair>> /\ pc[r] \in Calls \ Settled /\ Take(r)
        /\ (\E call : Await(r, call)) \/ (\E a : Finish(r, a))
    BY <1>1 DEF RegisterFindByUsername, RegisterFindByEmail, Throw
  <2>2. Emptied(r) /\ r \notin adrift
    BY <2>1, Empties, NotAdrift
  <2> QED
    BY <1>0, <2>1, <2>2, ReadsOthers, FinishOthers, AwaitOthers DEF Emptied, Reads
<1>2. CASE RegisterFindRoleByName(r)
  <2>1. r \notin adrift
    BY <1>2, NotAdrift DEF RegisterFindRoleByName
  <2> QED
    BY <1>0, <1>2, <2>1, ReadsOthers, FinishOthers, AwaitOthers
       DEF RegisterFindRoleByName, Throw, Reads
<1>3. CASE RegisterCreateUser(r)
  <2>1. \A q \in Req : Observes(q)
    BY <1>0, <1>3, WitnessObserves DEF RegisterCreateUser
  <2>2. \A q \in Req : q # r => read'[q] = read[q]
    BY <1>0, <1>3 DEF RegisterCreateUser, TypeOK
  <2>3. /\ \A q \in Req : q # r => pc'[q] = pc[q] /\ answer'[q] = answer[q]
        /\ users' = users \/ Stores(r)
        /\ pc'[r] = "done" \/ answer'[r] = answer[r]
    BY <1>0, <1>3, FinishOthers, AwaitOthers DEF RegisterCreateUser, Throw, Stores, db
  <2>4. r \notin adrift
    BY <1>3, NotAdrift DEF RegisterCreateUser
  <2> QED
    BY <1>3, <2>1, <2>2, <2>3, <2>4 DEF RegisterCreateUser, OthersUntouched, Untouched
<1>4. CASE RegisterGenerateTokens(r)
  <2>1. r \notin adrift /\ \A q \in Req : q # r => pair'[q] = pair[q]
    BY <1>0, <1>4, NotAdrift DEF RegisterGenerateTokens, TypeOK
  <2> QED
    BY <1>0, <1>4, <2>1, ReadsOthers, AwaitOthers DEF RegisterGenerateTokens, Reads
<1>5. CASE RegisterSendWelcomeEmail(r)
  <2>1. \A q \in Req : q # r => (q \in mailed' <=> q \in mailed)
    BY <1>0, <1>5 DEF RegisterSendWelcomeEmail, TypeOK
  <2>2. pc'[r] = "done" /\ \A q \in Req : q # r => pc'[q] = pc[q] /\ answer'[q] = answer[q]
    BY <1>0, <1>5, FinishOthers DEF RegisterSendWelcomeEmail, Throw, Return
  <2>3. r \notin adrift
    BY <1>5, NotAdrift DEF RegisterSendWelcomeEmail
  <2> QED
    BY <1>5, <2>1, <2>2, <2>3
       DEF RegisterSendWelcomeEmail, OthersUntouched, Untouched, Observes, db
<1> QED
  BY <1>1, <1>2, <1>3, <1>4, <1>5 DEF Register

(***************************************************************************)
(* Any other step that only reads.                                         *)
(***************************************************************************)
LEMMA ReadsShape ==
  ASSUME Typed, NEW r \in Req, Reads, pc[r] \in Calls \ Settled,
         \A q \in Req : q # r => /\ pc'[q] = pc[q] /\ answer'[q] = answer[q]
                                 /\ found'[q] = found[q] /\ read'[q] = read[q]
                                 /\ pair'[q] = pair[q],
         pc'[r] = "done" \/ answer'[r] = answer[r]
  PROVE  HandlerStep(r)
<1>1. r \notin adrift'
  BY NotAdrift DEF Reads
<1> QED
  BY <1>1, ReadsOthers DEF HandlerStep

LEMMA SessionShape ==
  ASSUME Typed, NEW r \in Req, Login(r) \/ Refresh(r) \/ MeFindByIdWithRoles(r)
  PROVE  HandlerStep(r) /\ Reads
<1> DEFINE Looked == \/ LoginFindByUsername(r) \/ LoginFindByIdWithRoles(r)
                     \/ RefreshFindByIdWithRoles(r) \/ MeFindByIdWithRoles(r)
<1>0. TypeOK
  BY DEF Typed
<1>1. Reads /\ pc[r] \in Calls \ Settled
  BY DEF Login, Refresh, MeFindByIdWithRoles, LoginFindByUsername, LoginVerifyPassword,
         LoginFindByIdWithRoles, RefreshFindByIdWithRoles, RefreshGenerateTokens, Calls,
         LoginCalls, RefreshCalls, MeCalls, Settled
<1>2. \A q \in Req : q # r => read'[q] = read[q] /\ pair'[q] = pair[q]
  BY <1>0 DEF Login, Refresh, MeFindByIdWithRoles, LoginFindByUsername, LoginVerifyPassword,
         LoginFindByIdWithRoles, RefreshFindByIdWithRoles, RefreshGenerateTokens, TypeOK
<1>3. (\E call : Await(r, call)) \/ (\E a : Finish(r, a))
  BY DEF Login, Refresh, MeFindByIdWithRoles, LoginFindByUsername, LoginVerifyPassword,
         LoginFindByIdWithRoles, RefreshFindByIdWithRoles, RefreshGenerateTokens, Throw, Return
<1>4. /\ pc'[r] = "done" \/ answer'[r] = answer[r]
      /\ \A q \in Req : q # r => pc'[q] = pc[q] /\ answer'[q] = answer[q]
  BY <1>0, <1>3, FinishOthers, AwaitOthers
<1>5. Take(r) \/ found' = found
  BY DEF Login, Refresh, MeFindByIdWithRoles, LoginFindByUsername, LoginVerifyPassword,
         LoginFindByIdWithRoles, RefreshFindByIdWithRoles, RefreshGenerateTokens
<1>6. \A q \in Req : q # r => found'[q] = found[q]
  BY <1>0, <1>5 DEF Take, TypeOK
<1> QED
  BY <1>1, <1>2, <1>4, <1>6, ReadsShape

LEMMA LookUpShape ==
  ASSUME Typed, NEW r \in Req, LookUp(r)
  PROVE  /\ HandlerStep(r) /\ Reads /\ UNCHANGED <<read, roleId, pair>>
         /\ RoleIsLost(r) \/ UNCHANGED <<pc, answer>>
<1>0. TypeOK
  BY DEF Typed
<1>1. /\ Reads /\ pc[r] \in LookUps /\ UNCHANGED <<read, roleId, pair>>
  BY DEF LookUp, FindUser, FindUserRoles, RoleIsLost
<1>2. pc[r] \in Calls \ Settled
  BY <1>1 DEF LookUps, DbCalls, Settled, Calls, RegisterCalls, LoginCalls, RefreshCalls, MeCalls
<1>3. CASE FindUser(r) \/ FindUserRoles(r)
  <2>1. UNCHANGED <<pc, answer>> /\ \A q \in Req : q # r => found'[q] = found[q]
    BY <1>0, <1>3, FindUserStep, FindUserRolesStep DEF FindUser, FindUserRoles
  <2> QED
    BY <1>1, <1>2, <2>1, ReadsShape
<1>4. CASE RoleIsLost(r)
  <2>1. Emptied(r) /\ \E a \in AnswerSet : Finish(r, a)
    BY <1>4, Empties, RejectType DEF RoleIsLost
  <2>2. pc'[r] = "done" /\ \A q \in Req : q # r => pc'[q] = pc[q] /\ answer'[q] = answer[q]
    BY <1>0, <2>1, FinishOthers
  <2> QED
    BY <1>1, <1>4, <1>2, <2>1, <2>2, ReadsShape DEF Emptied
<1> QED
  BY <1>3, <1>4 DEF LookUp

LEMMA DbFailsShape ==
  ASSUME Typed, NEW r \in Req, DbFails(r)
  PROVE  HandlerStep(r) /\ pc'[r] = "done" /\ UNCHANGED locals
<1>0. TypeOK /\ Emptied(r)
  BY Empties DEF Typed, DbFails
<1>1. \E a \in AnswerSet : Finish(r, a)
  BY RejectType DEF DbFails
<1>2. pc'[r] = "done" /\ \A q \in Req : q # r => pc'[q] = pc[q] /\ answer'[q] = answer[q]
  BY <1>0, <1>1, FinishOthers
<1>3. /\ pc[r] \in Calls /\ Witness /\ UNCHANGED <<req, locals>>
      /\ users' = users \/ Stores(r)
  BY <1>2 DEF DbFails, DbCalls, Stores, Settled, db
<1>4. /\ \A q \in Req : q # r => (q \in adrift' <=> q \in adrift)
      /\ r \in adrift' => pc[r] = "register.createUser" /\ users' = users
  <2>1. r \notin adrift
    BY <1>3, NotAdrift
  <2>2. \/ adrift' = adrift
        \/ pc[r] = "register.createUser" /\ adrift' = adrift \cup {r} /\ users' = users
    BY SMT DEF DbFails, db
  <2> QED
    BY <2>1, <2>2
<1> QED
  BY <1>0, <1>2, <1>3, <1>4, WitnessObserves
     DEF HandlerStep, OthersUntouched, Untouched, locals, Emptied, Settled

LEMMA HandlerShape ==
  ASSUME Typed, NEW r \in Req, Handle(r) \/ DbFails(r)
  PROVE  HandlerStep(r)
  BY RegisterShape, SessionShape, DbFailsShape, LookUpShape DEF Handle

(***************************************************************************)
(* The database ends an insert nobody waits for: no request sees a change, *)
(* and at most the account of r is stored.                                 *)
(***************************************************************************)
LateStep(r) ==
  /\ r \in adrift /\ adrift' = adrift \ {r}
  /\ UNCHANGED <<req, pc, found, read, pair, answer, mailed>>
  /\ \A q \in Req : Observes(q)
  /\ users' = users \/ (Storable(r) /\ InsertUser(r, RegisteredRow(r)))

LEMMA LandShape ==
  ASSUME Typed, NEW r \in Req, Land(r)
  PROVE  LateStep(r)
  BY WitnessObserves DEF Land, LateStep, Typed, locals, db

(***************************************************************************)
(* A crash, an operator, the clock: nothing is asked, signed or answered;  *)
(* a request may be lost, an account may go, none comes and none is        *)
(* renamed.                                                                *)
(***************************************************************************)
LEMMA AdministerRows ==
  ASSUME DbTypeOK, Administer
  PROVE  \A u \in UserId : users'[u] # NoUser =>
           /\ users[u] # NoUser
           /\ users'[u].username = users[u].username /\ users'[u].email = users[u].email
           /\ users'[u].password = users[u].password
<1> USE DEF DbTypeOK, Stored, UserRow
<1>1. CASE \E u \in Stored(users) : SetActive(u) \/ DeleteUser(u)
  BY <1>1 DEF SetActive, DeleteUser
<1>2. CASE \E u \in Stored(users) : \E role \in RoleName : GrantRole(u, role) \/ RevokeRole(u, role)
  BY <1>2 DEF GrantRole, RevokeRole
<1>3. CASE DropUserRole \/ SeedUserRole
  BY <1>3 DEF DropUserRole, SeedUserRole
<1> QED
  BY <1>1, <1>2, <1>3 DEF Administer

EnvironmentStep ==
  /\ UNCHANGED <<req, found, read, pair, answer, mailed>>
  /\ \A q \in Req : q \in adrift' => q \in adrift \/ pc[q] = "register.createUser"
  /\ \A q \in Req : Observes(q) /\ (pc'[q] = pc[q] \/ (pc[q] \in Calls /\ pc'[q] = "lost"))
  /\ \A u \in UserId : users'[u] # NoUser =>
       /\ users[u] # NoUser
       /\ users'[u].username = users[u].username /\ users'[u].email = users[u].email

LEMMA EnvironmentShape ==
  ASSUME Typed, Crash \/ Edit \/ Tick
  PROVE  EnvironmentStep
<1>0. TypeOK /\ DbTypeOK
  BY DEF Typed, TypeOK
<1>1. CASE Crash
  <2>1. /\ users' = users /\ seen' = seen /\ UNCHANGED <<req, found, read, pair, answer, mailed>>
        /\ adrift' = adrift \cup {q \in Req : pc[q] = "register.createUser"}
    BY <1>1 DEF Crash, db, locals
  <2>2. \A q \in Req : pc'[q] = pc[q] \/ (pc[q] \in Calls /\ pc'[q] = "lost")
    BY <1>1 DEF Crash, InFlight
  <2> QED
    BY <2>1, <2>2 DEF EnvironmentStep, Observes
<1>2. CASE Edit
  <2>1. UNCHANGED <<req, pc, found, read, pair, answer, mailed, adrift>> /\ Witness /\ Administer
    BY <1>2 DEF Edit, locals
  <2> QED
    BY <1>0, <2>1, AdministerRows, WitnessObserves DEF EnvironmentStep
<1>3. CASE Tick
  <2>1. /\ users' = users /\ seen' = seen
        /\ UNCHANGED <<req, pc, found, read, pair, answer, mailed, adrift>>
    BY <1>3 DEF Tick, db, locals
  <2> QED
    BY <2>1 DEF EnvironmentStep, Observes
<1> QED
  BY <1>1, <1>2, <1>3

----------------------------------------------------------------------------
(* The account of a request is there, and is seen, only once its own       *)
(* createUser has stored it; and only a finished request has an answer.    *)

RequestFresh(q) ==
  /\ pc[q] # "done" => answer[q] = None
  /\ users[q] # NoUser => pc[q] \in Settled
  /\ \A s \in seen[q] : s.id = q => pc[q] \in Settled
  /\ q \in adrift => users[q] = NoUser

Fresh == \A q \in Req : RequestFresh(q)

(***************************************************************************)
(* A request no step touches stays fresh if its account does not appear.   *)
(***************************************************************************)
LEMMA StaysFresh ==
  ASSUME NEW q \in Req, RequestFresh(q), Observes(q), answer'[q] = answer[q],
         pc'[q] = pc[q] \/ (pc[q] \in Calls /\ pc'[q] = "lost"),
         users'[q] # NoUser => users[q] # NoUser,
         q \in adrift' => q \in adrift \/ pc[q] = "register.createUser"
  PROVE  RequestFresh(q)'
<1>1. \A s \in seen'[q] : s.id = q => s \in seen[q] \/ users[q] # NoUser
  BY DEF Observes, Rows, Stored
<1> QED
  BY <1>1 DEF RequestFresh, Calls, RegisterCalls, LoginCalls, RefreshCalls, MeCalls, Settled

LEMMA HandlerFresh ==
  ASSUME Typed, Fresh, NEW r \in Req, HandlerStep(r)
  PROVE  Fresh'
<1>1. ASSUME NEW q \in Req, q # r
      PROVE  RequestFresh(q)'
  <2>1. users'[q] = users[q]
    BY <1>1, AuthAssumption DEF HandlerStep, Stores, InsertUser, Typed, TypeOK, DbTypeOK
  <2> QED
    BY <1>1, <2>1, StaysFresh DEF Fresh, HandlerStep, OthersUntouched, Untouched
<1>2. RequestFresh(r)'
  <2>1. RequestFresh(r) /\ Observes(r) /\ pc[r] \in Calls
    BY DEF Fresh, HandlerStep
  <2>2. pc'[r] # "done" => answer'[r] = None
    BY <2>1 DEF RequestFresh, HandlerStep, Calls, RegisterCalls, LoginCalls, RefreshCalls, MeCalls
  <2>3. r \in adrift' => users'[r] = NoUser
    BY <2>1 DEF HandlerStep, RequestFresh, Settled
  <2>4. CASE pc'[r] \in Settled
    BY <2>2, <2>4, <2>3 DEF RequestFresh
  <2>5. CASE pc'[r] \notin Settled
    <3>1. users' = users /\ pc[r] \notin Settled
      BY <2>5 DEF HandlerStep, Stores
    <3>3. users[r] = NoUser /\ \A s \in seen[r] : s.id # r
      BY <2>1, <3>1 DEF RequestFresh
    <3>4. \A s \in seen'[r] : s.id # r
      BY <2>1, <3>1, <3>3 DEF Observes, Rows, Stored
    <3> QED
      BY <2>2, <2>3, <3>1, <3>3, <3>4 DEF RequestFresh
  <2> QED
    BY <2>4, <2>5
<1> QED
  BY <1>1, <1>2 DEF Fresh

LEMMA ArrivalFresh ==
  ASSUME Typed, Fresh, NEW r \in Req, Arrival(r)
  PROVE  Fresh'
<1>1. ASSUME NEW q \in Req, q # r
      PROVE  RequestFresh(q)'
  BY <1>1, ArrivalShape DEF Fresh, RequestFresh, OthersUntouched, Untouched
<1>2. RequestFresh(r)'
  <2>1. pc[r] = "new" /\ users[r] = NoUser /\ users' = users /\ seen'[r] = Rows(users)
    BY ArrivalShape DEF Fresh, RequestFresh, Settled
  <2>2. \A s \in seen'[r] : s.id # r
    BY <2>1 DEF Rows, Stored
  <2>3. pc'[r] # "done" => answer'[r] = None
    BY <2>1, ArrivalShape DEF Fresh, RequestFresh
  <2> QED
    BY <2>1, <2>2, <2>3 DEF RequestFresh
<1> QED
  BY <1>1, <1>2 DEF Fresh

(***************************************************************************)
(* An account that is stored late belongs to a request that is over.       *)
(***************************************************************************)
LEMMA LateFresh ==
  ASSUME Typed, Fresh, NEW r \in Req, LateStep(r)
  PROVE  Fresh'
<1>1. pc[r] \in {"done", "lost"} /\ r \notin adrift'
  BY DEF Typed, RequestOK, LateStep
<1>2. ASSUME NEW q \in Req, q # r
      PROVE  RequestFresh(q)'
  <2>1. users'[q] = users[q]
    BY <1>2, AuthAssumption DEF LateStep, InsertUser, Typed, TypeOK, DbTypeOK
  <2> QED
    BY <1>2, <2>1, StaysFresh DEF Fresh, LateStep
<1>3. RequestFresh(r)'
  BY <1>1 DEF Fresh, RequestFresh, LateStep, Settled
<1> QED
  BY <1>2, <1>3 DEF Fresh

LEMMA InitFresh == Init => Fresh
  BY AuthAssumption DEF Init, Fresh, RequestFresh, Seeded

LEMMA NextFresh == Typed /\ Fresh /\ [Next]_vars => Fresh'
<1> SUFFICES ASSUME Typed, Fresh, [Next]_vars
             PROVE  Fresh'
  OBVIOUS
<1>1. CASE UNCHANGED vars
  BY <1>1 DEF Fresh, RequestFresh, vars
<1>2. CASE Crash \/ Edit \/ Tick
  <2>1. EnvironmentStep
    BY <1>2, EnvironmentShape
  <2> QED
    BY <2>1, StaysFresh, AuthAssumption DEF Fresh, EnvironmentStep
<1>3. CASE \E r \in Req : Arrival(r)
  BY <1>3, ArrivalFresh
<1>4. CASE \E r \in Req : Handle(r) \/ DbFails(r)
  BY <1>4, HandlerShape, HandlerFresh
<1>5. CASE \E r \in Req : Land(r)
  BY <1>5, LandShape, LateFresh
<1> QED
  BY <1>1, <1>2, <1>3, <1>4, <1>5 DEF Next

----------------------------------------------------------------------------
(* What the clients are told.                                              *)

(***************************************************************************)
(* A 200 confirms, "already exists" refuses, every other error of the      *)
(* handlers is neither.                                                    *)
(***************************************************************************)
LEMMA VerdictOfAnswers ==
  /\ Verdict(OkAnswer) = "confirmed"
  /\ Verdict(ErrorMiddleware(ConflictError("RECORD_CONFLICT"))) = "refused"
  /\ Verdict(ErrorMiddleware(UniqueConstraintFailed)) = "refused"
  /\ Verdict(ErrorMiddleware(ForeignKeyFailed)) = "failed"
  /\ Verdict(ErrorMiddleware(InternalServerError("INTERNAL_ERROR"))) = "failed"
  /\ Verdict(ErrorMiddleware(MailError)) = "failed"
  /\ \A e \in DbErrors : Verdict(ErrorMiddleware(e)) = "failed"
  /\ \A code \in {"UNAUTHORIZED", "INVALID_TOKEN", "INVALID_CREDENTIALS", "USER_NOT_FOUND"} :
       Verdict(ErrorMiddleware(UnauthorizedError(code))) = "failed"
  /\ \A token, secret : Verdict(ErrorMiddleware(VerifyError(token, secret))) = "failed"
<1> USE DEF Verdict, ErrorMiddleware, OkAnswer, AnswerOf, Answer
<1>1. Verdict(OkAnswer) = "confirmed"
  OBVIOUS
<1>2. Verdict(ErrorMiddleware(ConflictError("RECORD_CONFLICT"))) = "refused"
  BY DEF ConflictError, AppError, AppErrorWith
<1>3. Verdict(ErrorMiddleware(InternalServerError("INTERNAL_ERROR"))) = "failed"
  BY DEF InternalServerError, AppError, AppErrorWith
<1>9. ASSUME NEW code \in {"UNAUTHORIZED", "INVALID_TOKEN", "INVALID_CREDENTIALS", "USER_NOT_FOUND"}
      PROVE  Verdict(ErrorMiddleware(UnauthorizedError(code))) = "failed"
  BY DEF UnauthorizedError, AppError, AppErrorWith
<1> USE DEF IsPrismaError, HandlePrismaError, IsKnownRequestError, KnownRequestCodes,
            HandleKnownPrismaError, CodedError
<1>4. Verdict(ErrorMiddleware(UniqueConstraintFailed)) = "refused"
  BY DEF UniqueConstraintFailed, ConflictError, AppError, AppErrorWith
<1>5. Verdict(ErrorMiddleware(ForeignKeyFailed)) = "failed"
  BY DEF ForeignKeyFailed, ConflictError, AppError, AppErrorWith
<1>6. Verdict(ErrorMiddleware(MailError)) = "failed"
  BY DEF MailError, IsPrismaValidationError, InternalServerError, AppError, AppErrorWith
<1>7. Verdict(ErrorMiddleware(CodedError("PrismaClientKnownRequestError", "P1001", "invalid")))
        = "failed"
  BY DEF IsPrismaValidationError, ValidationError, AppError, AppErrorWith
<1>11. Verdict(ErrorMiddleware(CodedError("PrismaClientKnownRequestError", "P2024", "invalid")))
         = "failed"
  BY DEF InternalServerError, ValidationError, IsPrismaValidationError, AppError, AppErrorWith
<1>10. ASSUME NEW name \in {"JsonWebTokenError", "TokenExpiredError"}
       PROVE  Verdict(ErrorMiddleware(LibraryError(name, "plain"))) = "failed"
  BY DEF LibraryError, IsPrismaValidationError, InternalServerError, AppError, AppErrorWith
<1> HIDE DEF Verdict, ErrorMiddleware, OkAnswer, AnswerOf, Answer, IsPrismaError,
             HandlePrismaError, IsKnownRequestError, KnownRequestCodes, HandleKnownPrismaError,
             CodedError
<1>8. \A e \in DbErrors : Verdict(ErrorMiddleware(e)) = "failed"
  BY <1>7, <1>11 DEF DbErrors
<1> QED
  BY <1>1, <1>2, <1>3, <1>4, <1>5, <1>6, <1>8, <1>9, <1>10
     DEF VerifyError, JsonWebTokenError, TokenExpiredError


LEMMA RefreshCatchFails ==
  ASSUME NEW e, e.app = FALSE \/ e = UnauthorizedError("INVALID_CREDENTIALS")
  PROVE  Verdict(ErrorMiddleware(RefreshCatch(e))) = "failed"
<1>1. RefreshCatch(e) = UnauthorizedError("INVALID_TOKEN")
        \/ RefreshCatch(e) = UnauthorizedError("INVALID_CREDENTIALS")
  BY DEF RefreshCatch
<1> QED
  BY <1>1, VerdictOfAnswers

(***************************************************************************)
(* A log-in, a refresh and /me never claim that an account exists.         *)
(***************************************************************************)
LEMMA SessionOutcome ==
  ASSUME Typed, NEW r \in Req, Login(r) \/ Refresh(r) \/ MeFindByIdWithRoles(r)
  PROVE  /\ req[r].op # "register"
         /\ pc'[r] \notin {"register.generateTokens", "register.sendWelcomeEmail"}
         /\ pc'[r] # "done" \/ Verdict(answer'[r]) \in {"failed", "confirmed"}
<1>0. TypeOK /\ RequestOK(r)
  BY DEF Typed
<1>1. req[r].op # "register"
  BY <1>0 DEF Login, Refresh, MeFindByIdWithRoles, LoginFindByUsername, LoginVerifyPassword,
         LoginFindByIdWithRoles, RefreshFindByIdWithRoles, RefreshGenerateTokens, RequestOK,
         LoginCalls, RefreshCalls, MeCalls, LoginRequest, RefreshRequest, MeRequest
<1>2. \/ \E call \in Calls \ RegisterCalls : Await(r, call)
      \/ Finish(r, OkAnswer)
      \/ Finish(r, ErrorMiddleware(UnauthorizedError("INVALID_CREDENTIALS")))
      \/ Finish(r, ErrorMiddleware(UnauthorizedError("USER_NOT_FOUND")))
      \/ Finish(r, ErrorMiddleware(RefreshCatch(UnauthorizedError("INVALID_CREDENTIALS"))))
  BY DEF Login, Refresh, MeFindByIdWithRoles, LoginFindByUsername, LoginVerifyPassword,
         LoginFindByIdWithRoles, RefreshFindByIdWithRoles, RefreshGenerateTokens, Throw, Return,
         Calls, LoginCalls, RefreshCalls, RegisterCalls
<1>3. \A call \in Calls : Await(r, call) => pc'[r] # "done"
  BY <1>0, AwaitOthers DEF Calls, RegisterCalls, LoginCalls, RefreshCalls, MeCalls
<1>4. \/ \E call \in Calls \ RegisterCalls : Await(r, call)
      \/ \E a : Finish(r, a) /\ Verdict(a) \in {"failed", "confirmed"}
  BY <1>2, VerdictOfAnswers, RefreshCatchFails
<1> QED
  BY <1>0, <1>1, <1>3, <1>4, FinishOthers, AwaitOthers DEF RegisterCalls

LEMMA RejectOutcome ==
  ASSUME Typed, NEW r \in Req, Reject(r)
  PROVE  pc'[r] = "done" /\ Verdict(answer'[r]) = "failed"
<1>1. PICK e \in DbErrors : Throw(r, IF req[r].op = "refresh" THEN RefreshCatch(e) ELSE e)
  BY DEF Reject
<1>2. e.app = FALSE
  BY DEF DbErrors, CodedError
<1>3. Verdict(ErrorMiddleware(IF req[r].op = "refresh" THEN RefreshCatch(e) ELSE e)) = "failed"
  BY <1>2, VerdictOfAnswers, RefreshCatchFails
<1> QED
  BY <1>1, <1>3, FinishOthers DEF Typed, Throw

LEMMA ArrivalOutcome ==
  ASSUME Typed, NEW r \in Req, Arrival(r), pc'[r] = "done"
  PROVE  Verdict(answer'[r]) = "failed"
<1>0. TypeOK
  BY DEF Typed
<1>1. \/ \E call \in Calls : Await(r, call)
      \/ Finish(r, ErrorMiddleware(UnauthorizedError("UNAUTHORIZED")))
      \/ \E token, secret : \/ Finish(r, ErrorMiddleware(VerifyError(token, secret)))
                            \/ Finish(r, ErrorMiddleware(RefreshCatch(VerifyError(token, secret))))
  BY DEF Arrival, ArriveRegister, ArriveLogin, ArriveRefresh, ArriveMe, Throw, Calls,
         RegisterCalls, LoginCalls, RefreshCalls, MeCalls
<1>2. \A call \in Calls : ~Await(r, call)
  BY <1>0, AwaitOthers DEF Calls, RegisterCalls, LoginCalls, RefreshCalls, MeCalls
<1>3. \A token, secret : VerifyError(token, secret).app = FALSE
  BY DEF VerifyError, JsonWebTokenError, TokenExpiredError, LibraryError
<1>4. \E a : Finish(r, a) /\ Verdict(a) = "failed"
  BY <1>1, <1>2, <1>3, VerdictOfAnswers, RefreshCatchFails
<1> QED
  BY <1>0, <1>4, FinishOthers

----------------------------------------------------------------------------
(* The answers of register.  A handler that has stored the account holds   *)
(* the row it stored; what it answers is then fixed, with what it has seen.*)

Matches(s, q) == s.row.username = req[q].username \/ s.row.email = req[q].email

Completed(q) ==
  /\ [id |-> q, row |-> RegisteredRow(q)] \in seen[q]
  /\ pair[q].access.userId = q /\ pair[q].access.roles = {"USER"}

Created == {"register.generateTokens", "register.sendWelcomeEmail"}

RequestHonest(q) ==
  /\ pc[q] \in Created =>
       read[q] = [id |-> q, row |-> RegisteredRow(q)] /\ read[q] \in seen[q]
  /\ pc[q] = "register.sendWelcomeEmail" => Completed(q)
  /\ q \in mailed => [id |-> q, row |-> RegisteredRow(q)] \in seen[q]
  /\ q \in adrift /\ pc[q] = "done" => Verdict(answer[q]) = "failed"
  /\ answer[q] # None /\ Verdict(answer[q]) = "refused" =>
       (\A s \in seen[q] : s.id # q) /\ (\E s \in seen[q] : Matches(s, q))
  /\ answer[q] # None /\ Verdict(answer[q]) = "confirmed" /\ req[q].op = "register" => Completed(q)

Honest == \A q \in Req : RequestHonest(q)

LEMMA StaysHonest ==
  ASSUME NEW q \in Req, RequestFresh(q), RequestHonest(q), Observes(q),
         answer'[q] = answer[q], req'[q] = req[q], read'[q] = read[q], pair'[q] = pair[q],
         q \in mailed' <=> q \in mailed,
         q \in adrift' => q \in adrift \/ pc[q] = "register.createUser",
         pc'[q] = pc[q] \/ (pc[q] \in Calls /\ pc'[q] = "lost")
  PROVE  RequestHonest(q)'
<1>1. answer[q] # None => seen'[q] = seen[q]
  BY DEF RequestFresh, Observes, Calls, RegisterCalls, LoginCalls, RefreshCalls, MeCalls
<1>2. RegisteredRow(q)' = RegisteredRow(q)
  BY DEF RegisteredRow
<1>3. \A s : Matches(s, q)' <=> Matches(s, q)
  BY DEF Matches
<1>4. Completed(q) => Completed(q)'
  BY <1>2 DEF Completed, Observes
<1>5. q \in adrift' /\ pc'[q] = "done" => q \in adrift /\ pc[q] = "done"
  OBVIOUS
<1> QED
  BY <1>1, <1>2, <1>3, <1>4, <1>5 DEF RequestHonest, Created, Observes

(***************************************************************************)
(* A step that gives r no answer, or one that is neither of the two.       *)
(***************************************************************************)
LEMMA QuietHonest ==
  ASSUME Fresh, Honest, NEW r \in Req, OthersUntouched(r), \A q \in Req : Observes(q),
         pc'[r] \notin Created,
         req'[r] = req[r] /\ (r \in mailed' => r \in mailed),
         r \in adrift' => Verdict(answer'[r]) = "failed",
         \/ answer'[r] = None
         \/ Verdict(answer'[r]) = "failed"
         \/ Verdict(answer'[r]) = "confirmed" /\ req[r].op # "register"
  PROVE  Honest'
<1>1. \A q \in Req : q # r => RequestHonest(q)'
  BY StaysHonest DEF Fresh, Honest, OthersUntouched, Untouched
<1>2. RegisteredRow(r)' = RegisteredRow(r)
  BY DEF RegisteredRow
<1>3. r \in mailed' => [id |-> r, row |-> RegisteredRow(r)] \in seen'[r]
  BY DEF Honest, RequestHonest, Observes
<1>4. RequestHonest(r)'
  BY <1>2, <1>3 DEF RequestHonest, Created
<1> QED
  BY <1>1, <1>4 DEF Honest

(***************************************************************************)
(* A handler that answers "already exists", when it has seen whom.         *)
(***************************************************************************)
LEMMA RefusedHonest ==
  ASSUME Typed, Fresh, Honest, NEW r \in Req, HandlerStep(r), pc[r] \notin Settled,
         users' = users, Rows(users) \subseteq seen[r],
         r \notin adrift', r \in mailed' => r \in mailed,
         \E s \in seen[r] : Matches(s, r),
         pc'[r] = "done", Verdict(answer'[r]) = "refused"
  PROVE  Honest'
<1>1. \A q \in Req : q # r => RequestHonest(q)'
  BY StaysHonest DEF Fresh, Honest, OthersUntouched, Untouched, HandlerStep
<1>2. seen'[r] = seen[r] /\ req' = req
  BY DEF HandlerStep, Observes
<1>3. \A s \in seen[r] : s.id # r
  BY DEF Fresh, RequestFresh
<1>4. /\ \A s : Matches(s, r)' <=> Matches(s, r)
      /\ RegisteredRow(r)' = RegisteredRow(r)
  BY <1>2 DEF Matches, RegisteredRow
<1>5. r \in mailed' => [id |-> r, row |-> RegisteredRow(r)] \in seen[r]
  BY DEF Honest, RequestHonest
<1>6. RequestHonest(r)'
  BY <1>2, <1>3, <1>4, <1>5, VerdictOfAnswers DEF RequestHonest, Created
<1> QED
  BY <1>1, <1>6 DEF Honest

(***************************************************************************)
(* Whom the look-up found, and whom the indexes found.                     *)
(***************************************************************************)
LEMMA FoundMatches ==
  ASSUME Typed, Warranted, NEW r \in Req, found[r] # None,
         pc[r] \in {"register.findByUsername", "register.findByEmail"}
  PROVE  \E s \in seen[r] : Matches(s, r)
<1>1. FoundWarranted(r)
  BY DEF Warranted, RequestWarranted, Calls, RegisterCalls
<1>2. PICK s \in seen[r] : Roleless(s.row) = Roleless(found[r].row)
  BY <1>1 DEF FoundWarranted, Glimpsed
<1>3. s.row \in UserRow /\ found[r].row \in UserRow
  BY DEF Typed, TypeOK, Snapshot, Partial
<1>4. s.row.username = found[r].row.username /\ s.row.email = found[r].row.email
  BY <1>2, <1>3, RolelessFacts
<1> QED
  BY <1>1, <1>4 DEF FoundWarranted, Named, Matches

LEMMA TakenMatches ==
  ASSUME NEW r \in Req, Rows(users) \subseteq seen[r],
         ViolatesUnique(req[r].username, req[r].email)
  PROVE  \E s \in seen[r] : Matches(s, r)
<1>1. PICK u \in Stored(users) : \/ users[u].username = req[r].username
                                \/ users[u].email = req[r].email
  BY DEF ViolatesUnique, FindByUsername, FindByEmail
<1>2. [id |-> u, row |-> users[u]] \in seen[r]
  BY DEF Rows
<1> QED
  BY <1>1, <1>2 DEF Matches

LEMMA RegisterHonest ==
  ASSUME Typed, Fresh, Warranted, Honest, NEW r \in Req, Register(r)
  PROVE  Honest'
<1>0. /\ TypeOK /\ HandlerStep(r) /\ RequestWarranted(r) /\ RequestHonest(r) /\ pc[r] \in Calls
      /\ Rows(users) \subseteq seen[r] /\ answer[r] = None /\ r \notin adrift /\ req' = req
  BY RegisterShape, NotAdrift DEF Typed, Warranted, RequestWarranted, HandlerStep, Honest, Fresh,
     RequestFresh, Calls, RegisterCalls, LoginCalls, RefreshCalls, MeCalls
<1>a. ASSUME NEW call, call \notin Created, Await(r, call), Reads
      PROVE  Honest'
  BY <1>0, <1>a, AwaitOthers, QuietHonest DEF HandlerStep, Reads
<1>b. ASSUME NEW a, Finish(r, a), Verdict(a) = "failed", r \in mailed' => r \in mailed
      PROVE  Honest'
  BY <1>0, <1>b, FinishOthers, QuietHonest DEF HandlerStep, Created
<1>c. ASSUME NEW a, Finish(r, a), Verdict(a) = "refused", pc[r] \notin Settled, users' = users,
             \E s \in seen[r] : Matches(s, r), mailed' = mailed, adrift' = adrift
      PROVE  Honest'
  BY <1>0, <1>c, FinishOthers, RefusedHonest
<1>1. CASE RegisterFindByUsername(r)
  BY <1>0, <1>1, <1>a, <1>c, VerdictOfAnswers, FoundMatches
     DEF RegisterFindByUsername, Throw, Settled, Created, Reads, db
<1>2. CASE RegisterFindByEmail(r)
  BY <1>0, <1>2, <1>a, <1>c, VerdictOfAnswers, FoundMatches
     DEF RegisterFindByEmail, Throw, Settled, Created, Reads, db
<1>3. CASE RegisterFindRoleByName(r)
  <2>1. Reads /\ mailed' = mailed
    BY <1>3 DEF RegisterFindRoleByName, Reads
  <2> QED
    BY <1>0, <1>3, <2>1, <1>a, <1>b, VerdictOfAnswers DEF RegisterFindRoleByName, Throw, Created
<1>4. CASE RegisterCreateUser(r)
  <2>0. UNCHANGED <<mailed, adrift>> /\ pc[r] = "register.createUser"
    BY <1>4 DEF RegisterCreateUser
  <2>1. CASE /\ read' = [read EXCEPT ![r] = [id |-> r, row |-> RegisteredRow(r)]]
             /\ Await(r, "register.generateTokens")
    <3>1. read'[r] = [id |-> r, row |-> RegisteredRow(r)]
      BY <1>0, <2>1 DEF TypeOK
    <3>2. RegisteredRow(r)' = RegisteredRow(r)
      BY <1>0 DEF RegisteredRow
    <3>3. answer'[r] = None /\ pc'[r] = "register.generateTokens"
      BY <1>0, <2>1, AwaitOthers
    <3>4. InsertUser(r, RegisteredRow(r)) /\ Witness
      BY <1>0, <1>4, <2>1, AwaitOthers, FinishOthers DEF RegisterCreateUser, Throw
    <3>5. users'[r] = RegisteredRow(r) /\ RegisteredRow(r) # NoUser /\ r \in UserId
      <4>1. req[r] \in RegisterRequest
        BY <2>0 DEF Typed, RequestOK, RegisterCalls
      <4> QED
        BY <1>0, <3>4, <4>1, RegisteredRowType, NoUserAssumption, AuthAssumption
           DEF TypeOK, DbTypeOK, InsertUser
    <3>6. read'[r] \in Rows(users')
      BY <3>1, <3>5 DEF Rows, Stored
    <3>7. read'[r] \in seen'[r]
      BY <1>0, <3>4, <3>6, WitnessWindow
    <3>8. RequestHonest(r)'
      BY <1>0, <2>0, <3>1, <3>2, <3>3, <3>7
         DEF RequestHonest, HandlerStep, Observes, Created
    <3>9. \A q \in Req : q # r => RequestHonest(q)'
      BY <1>0, StaysHonest DEF Fresh, Honest, HandlerStep, OthersUntouched, Untouched
    <3> QED
      BY <3>8, <3>9 DEF Honest
  <2>2. CASE ~Storable(r) /\ Throw(r, Rejection(r)) /\ UNCHANGED db
    <3>1. pc[r] \notin Settled /\ users' = users
      BY <2>0, <2>2 DEF Settled, db
    <3>2. CASE ViolatesUnique(req[r].username, req[r].email)
      BY <1>0, <2>0, <2>2, <3>1, <3>2, <1>c, VerdictOfAnswers, TakenMatches DEF Throw, Rejection
    <3>3. CASE ~ViolatesUnique(req[r].username, req[r].email)
      BY <2>0, <2>2, <3>3, <1>b, VerdictOfAnswers DEF Throw, Rejection
    <3> QED
      BY <3>2, <3>3
  <2> QED
    BY <1>4, <2>1, <2>2 DEF RegisterCreateUser
<1>5. CASE RegisterGenerateTokens(r)
  <2>1. /\ read[r] = [id |-> r, row |-> RegisteredRow(r)] /\ read[r] \in seen[r]
        /\ UNCHANGED <<read, req, seen, mailed, adrift>>
    BY <1>0, <1>5 DEF RegisterGenerateTokens, RequestHonest, Created, Reads
  <2>2. pair'[r] = GenerateTokens(r, {"USER"}, now)
    <3>1. pair'[r] = GenerateTokens(read[r].id, read[r].row.roles, now)
      BY <1>0, <1>5 DEF RegisterGenerateTokens, TypeOK
    <3>2. read[r].id = r /\ read[r].row.roles = {"USER"}
      BY <2>1 DEF RegisteredRow, NewRow
    <3> QED
      BY <3>1, <3>2
  <2>3. RegisteredRow(r)' = RegisteredRow(r)
    BY <2>1 DEF RegisteredRow
  <2>4. Completed(r)'
    BY <2>1, <2>2, <2>3 DEF Completed, GenerateTokens, Sign
  <2>5. answer'[r] = None
    BY <1>0, <1>5, AwaitOthers DEF RegisterGenerateTokens
  <2>6. RequestHonest(r)'
    BY <1>0, <2>1, <2>3, <2>4, <2>5 DEF RequestHonest
  <2>7. \A q \in Req : q # r => RequestHonest(q)'
    BY <1>0, StaysHonest DEF Fresh, Honest, HandlerStep, OthersUntouched, Untouched
  <2> QED
    BY <2>6, <2>7 DEF Honest
<1>6. CASE RegisterSendWelcomeEmail(r)
  <2>1. /\ Completed(r) /\ UNCHANGED <<pair, req, seen, adrift>>
        /\ RegisteredRow(r)' = RegisteredRow(r)
    BY <1>0, <1>6 DEF RegisterSendWelcomeEmail, RequestHonest, RegisteredRow
  <2>2. Completed(r)'
    BY <2>1 DEF Completed
  <2>3. pc'[r] = "done" /\ Verdict(answer'[r]) \in {"confirmed", "failed"}
    <3>1. Finish(r, OkAnswer) \/ Finish(r, ErrorMiddleware(MailError))
      BY <1>6 DEF RegisterSendWelcomeEmail, Throw, Return
    <3> QED
      BY <1>0, <3>1, FinishOthers, VerdictOfAnswers
  <2>4. RequestHonest(r)'
    BY <1>0, <2>1, <2>2, <2>3 DEF RequestHonest, Completed, Created
  <2>5. \A q \in Req : q # r => RequestHonest(q)'
    BY <1>0, StaysHonest DEF Fresh, Honest, HandlerStep, OthersUntouched, Untouched
  <2> QED
    BY <2>4, <2>5 DEF Honest
<1> QED
  BY <1>1, <1>2, <1>3, <1>4, <1>5, <1>6 DEF Register

LEMMA InitHonest == Init => Honest
  BY DEF Init, Honest, RequestHonest, Created

LEMMA NextHonest == Typed /\ Fresh /\ Warranted /\ Honest /\ [Next]_vars => Honest'
<1> SUFFICES ASSUME Typed, Fresh, Warranted, Honest, [Next]_vars
             PROVE  Honest'
  OBVIOUS
<1>1. CASE UNCHANGED vars
  BY <1>1 DEF Honest, RequestHonest, Completed, Created, Matches, RegisteredRow, vars
<1>2. CASE Crash \/ Edit \/ Tick
  <2>1. EnvironmentStep
    BY <1>2, EnvironmentShape
  <2> QED
    BY <2>1, StaysHonest DEF Fresh, Honest, EnvironmentStep
<1>3. ASSUME NEW r \in Req, Arrival(r)
      PROVE  Honest'
  <2>1. /\ OthersUntouched(r) /\ pc'[r] \notin Created
        /\ r \notin adrift' /\ r \notin mailed'
        /\ answer'[r] = None \/ Verdict(answer'[r]) = "failed"
    <3>1. r \notin mailed
      BY <1>3, ArrivalShape DEF Fresh, RequestFresh, Honest, RequestHonest, Settled
    <3> QED
      BY <1>3, <3>1, ArrivalShape, ArrivalOutcome DEF Fresh, RequestFresh, Holding, Created
  <2>2. \A q \in Req : q # r => RequestHonest(q)'
    <3>1. \A q \in Req : q # r => seen'[q] = seen[q]
      BY <1>3, ArrivalShape
    <3> QED
      BY <2>1, <3>1, StaysHonest DEF Fresh, Honest, OthersUntouched, Untouched, Observes
  <2>3. RequestHonest(r)'
    BY <2>1, VerdictOfAnswers DEF RequestHonest, Created
  <2> QED
    BY <2>2, <2>3 DEF Honest
<1>4. ASSUME NEW r \in Req, Login(r) \/ Refresh(r) \/ MeFindByIdWithRoles(r)
      PROVE  Honest'
  <2>1. HandlerStep(r) /\ Reads /\ pc[r] \in Calls /\ r \notin adrift
    BY <1>4, SessionShape, NotAdrift DEF HandlerStep
  <2>2. answer'[r] = None \/ Verdict(answer'[r]) = "failed"
          \/ (Verdict(answer'[r]) = "confirmed" /\ req[r].op # "register")
    BY <1>4, <2>1, SessionOutcome DEF HandlerStep, Fresh, RequestFresh, Calls, RegisterCalls,
       LoginCalls, RefreshCalls, MeCalls
  <2> QED
    BY <1>4, <2>1, <2>2, SessionOutcome, QuietHonest DEF HandlerStep, Reads, Created
<1>5. ASSUME NEW r \in Req, DbFails(r)
      PROVE  Honest'
  <2>1. HandlerStep(r) /\ pc'[r] = "done" /\ UNCHANGED <<req, mailed>>
    BY <1>5, DbFailsShape DEF HandlerStep, locals
  <2>2. Verdict(answer'[r]) = "failed"
    BY <1>5, RejectOutcome DEF DbFails
  <2> QED
    BY <2>1, <2>2, QuietHonest DEF HandlerStep, Created
<1>6. ASSUME NEW r \in Req, LookUp(r)
      PROVE  Honest'
  <2>1. /\ HandlerStep(r) /\ Reads /\ r \notin adrift
        /\ RoleIsLost(r) \/ UNCHANGED <<pc, answer>>
    BY <1>6, LookUpShape, NotAdrift DEF HandlerStep
  <2>2. CASE RoleIsLost(r)
    <3>1. pc'[r] = "done" /\ Verdict(answer'[r]) = "failed"
      BY <2>2, RejectOutcome DEF RoleIsLost
    <3> QED
      BY <2>1, <3>1, QuietHonest DEF HandlerStep, Reads, Created
  <2>3. CASE UNCHANGED <<pc, answer>>
    <3>1. pc'[r] \notin Created /\ answer'[r] = None
      BY <1>6, <2>3
         DEF LookUp, FindUser, FindUserRoles, RoleIsLost, LookUps, DbCalls, Created, Fresh,
             RequestFresh, Calls, RegisterCalls, LoginCalls, RefreshCalls, MeCalls
    <3> QED
      BY <2>1, <3>1, QuietHonest DEF HandlerStep, Reads
  <2> QED
    BY <2>1, <2>2, <2>3
<1>7. ASSUME NEW r \in Req, Land(r)
      PROVE  Honest'
  BY <1>7, LandShape, StaysHonest DEF LateStep, Fresh, Honest
<1> QED
  BY <1>1, <1>2, <1>3, <1>4, <1>5, <1>6, <1>7, RegisterHonest DEF Next, Handle

(***************************************************************************)
(* "Already exists" is never said of an account that was not there, nor to *)
(* the request that created it: the look-ups, the insert and the two       *)
(* constraints answer about other accounts, seen while the request ran.    *)
(***************************************************************************)
THEOREM ConflictsStayHonest == Spec => []ConflictIsHonest
<1>1. Honest => ConflictIsHonest
  <2>1. \A r \in Req : Refused(r, "RECORD_CONFLICT") \/ Refused(r, "DB_UNIQUE_CONSTRAINT") =>
          answer[r] # None /\ Verdict(answer[r]) = "refused"
    BY DEF Refused, Verdict, OkAnswer, Answer
  <2> QED
    BY <2>1 DEF Honest, RequestHonest, ConflictIsHonest, Matches
<1> QED
  BY InitTyped, NextTyped, InitFresh, NextFresh, InitWarranted, NextWarranted, InitHonest,
     NextHonest, <1>1, PTL DEF Spec

(***************************************************************************)
(* A 200 to a registration has the account and its tokens behind it, and a *)
(* welcome mail has the account, whatever fails, crashes or is edited      *)
(* around it.                                                              *)
(***************************************************************************)
THEOREM RegistrationsStayComplete == Spec => []RegistrationComplete
<1>1. Honest => RegistrationComplete
  <2>1. \A r \in Req : RequestHonest(r) /\ answer[r] = OkAnswer /\ req[r].op = "register" => Completed(r)
    BY VerdictOfAnswers, OkAnswerType, NoneAssumption DEF RequestHonest
  <2> QED
    BY <2>1 DEF Honest, RequestHonest, RegistrationComplete, Completed
<1> QED
  BY InitTyped, NextTyped, InitFresh, NextFresh, InitWarranted, NextWarranted, InitHonest,
     NextHonest, <1>1, PTL DEF Spec

----------------------------------------------------------------------------
(* Where sessions come from.  The two secrets are settings, and nothing    *)
(* compares them: what follows holds of a deployment that keeps them apart.*)

SecretsDiffer ==
  AccessSecret # RefreshSecret /\ ForeignSecret # AccessSecret /\ ForeignSecret # RefreshSecret

ByToken == {"refresh.findByIdWithRoles", "me.findByIdWithRoles"}

RequestLineage(q) ==
  /\ pair[q] # None =>
       pair[q].access.secret = AccessSecret /\ pair[q].refresh.secret = RefreshSecret
  /\ pc[q] \in RefreshCalls => \E d \in Delivered : pair[d].refresh = req[q].token
  /\ pc[q] = "refresh.generateTokens" => read[q].id = req[q].token.userId
  /\ pc[q] \in ByToken /\ found[q] # None => found[q].id = req[q].token.userId
  /\ pc[q] \in MeCalls => \E d \in Delivered : pair[d].access = req[q].token
  /\ pair[q] # None /\ req[q].op = "refresh" =>
       \E d \in Delivered : /\ pair[d].refresh = req[q].token
                           /\ pair[d].refresh.userId = pair[q].refresh.userId
  /\ answer[q] = OkAnswer /\ req[q].op = "me" =>
       \E d \in Delivered : /\ pair[d].access = req[q].token
                           /\ pair[d].access.userId = read[q].id

Lineage == \A q \in Req : RequestLineage(q)

(***************************************************************************)
(* An answer with tokens stays as it was given.                            *)
(***************************************************************************)
DeliveredStays == \A d \in Delivered : d \in Delivered' /\ pair'[d] = pair[d]

LEMMA DeliveredGrows ==
  ASSUME Fresh,
         \A q \in Req : pc[q] = "done" => answer'[q] = answer[q] /\ pair'[q] = pair[q]
  PROVE  DeliveredStays
<1>1. OkAnswer # None
  BY OkAnswerType, NoneAssumption
<1> QED
  BY <1>1 DEF Fresh, RequestFresh, Delivered, DeliveredStays

LEMMA StaysLineage ==
  ASSUME NEW q \in Req, RequestLineage(q), DeliveredStays,
         req'[q] = req[q], found'[q] = found[q], read'[q] = read[q], pair'[q] = pair[q],
         answer'[q] = answer[q],
         pc'[q] = pc[q] \/ (pc[q] \in Calls /\ pc'[q] = "lost")
  PROVE  RequestLineage(q)'
<1>1. pc'[q] = pc[q] \/ pc'[q] = "lost"
  OBVIOUS
<1>2. /\ pc'[q] \in RefreshCalls => \E d \in Delivered' : pair'[d].refresh = req'[q].token
      /\ pc'[q] \in MeCalls => \E d \in Delivered' : pair'[d].access = req'[q].token
  BY <1>1 DEF RequestLineage, DeliveredStays, RefreshCalls, MeCalls
<1>3. pair'[q] # None /\ req'[q].op = "refresh" =>
        \E d \in Delivered' : /\ pair'[d].refresh = req'[q].token
                             /\ pair'[d].refresh.userId = pair'[q].refresh.userId
  BY DEF RequestLineage, DeliveredStays
<1>4. answer'[q] = OkAnswer /\ req'[q].op = "me" =>
        \E d \in Delivered' : /\ pair'[d].access = req'[q].token
                             /\ pair'[d].access.userId = read'[q].id
  BY DEF RequestLineage, DeliveredStays
<1> QED
  BY <1>1, <1>2, <1>3, <1>4 DEF RequestLineage, ByToken

LEMMA OthersLineage ==
  ASSUME Fresh, Lineage, NEW r \in Req, OthersUntouched(r), pc[r] # "done"
  PROVE  DeliveredStays /\ \A q \in Req : q # r => RequestLineage(q)'
<1>1. \A q \in Req : pc[q] = "done" => answer'[q] = answer[q] /\ pair'[q] = pair[q]
  BY DEF OthersUntouched, Untouched
<1>2. DeliveredStays
  BY <1>1, DeliveredGrows
<1> QED
  BY <1>2, StaysLineage DEF Lineage, OthersUntouched, Untouched

(***************************************************************************)
(* The handlers keep the secrets of a pair and the account of a refresh.   *)
(***************************************************************************)
LEMMA SignedSecrets ==
  ASSUME TypeOK, NEW r \in Req,
         pair' = [pair EXCEPT ![r] = GenerateTokens(read[r].id, read[r].row.roles, now)]
  PROVE  /\ pair'[r].access.secret = AccessSecret /\ pair'[r].refresh.secret = RefreshSecret
         /\ pair'[r].refresh.userId = read[r].id
<1>1. pair'[r] = GenerateTokens(read[r].id, read[r].row.roles, now)
  BY DEF TypeOK
<1> QED
  BY <1>1 DEF GenerateTokens, Sign

(***************************************************************************)
(* A token that passes a check of its signature was sent in an answer.     *)
(***************************************************************************)
LEMMA PresentedWasDelivered ==
  ASSUME SecretsDiffer, Lineage, NEW token \in Presentable
  PROVE  /\ VerifiesRefresh(token, now) => \E d \in Delivered : pair[d].refresh = token
         /\ VerifiesAccess(token, now) => \E d \in Delivered : pair[d].access = token
<1>1. \A d \in Delivered : /\ pair[d].access.secret = AccessSecret
                          /\ pair[d].refresh.secret = RefreshSecret
  BY DEF Lineage, RequestLineage, Delivered
<1>2. CASE \E d \in Delivered : token = pair[d].access
  BY <1>1, <1>2 DEF SecretsDiffer, VerifiesRefresh, VerifiesAccess, Verifies
<1>3. CASE \E d \in Delivered : token = pair[d].refresh
  BY <1>1, <1>3 DEF SecretsDiffer, VerifiesRefresh, VerifiesAccess, Verifies
<1>4. CASE token.secret = ForeignSecret
  BY <1>4 DEF SecretsDiffer, VerifiesRefresh, VerifiesAccess, Verifies
<1>5. \A u \in Seeded : Sign(u, RoleName, ForeignSecret, 0, AccessLife).secret = ForeignSecret
  BY DEF Sign
<1> QED
  BY <1>2, <1>3, <1>4, <1>5 DEF Presentable

LEMMA ArrivalLineage ==
  ASSUME SecretsDiffer, Typed, Fresh, Warranted, Lineage, NEW r \in Req, Arrival(r)
  PROVE  Lineage'
<1> USE DEF RegisterCalls, LoginCalls, RefreshCalls, MeCalls
<1>0. TypeOK /\ DeliveredStays /\ (\A q \in Req : q # r => RequestLineage(q)')
  BY ArrivalShape, OthersLineage DEF Typed
<1>1. pair'[r] = None
  BY ArrivalShape DEF Warranted, RequestWarranted
<1>2. answer'[r] # OkAnswer
  <2>1. OkAnswer # None
    BY OkAnswerType, NoneAssumption
  <2>2. pc'[r] = "done" \/ answer'[r] = None
    BY ArrivalShape DEF Fresh, RequestFresh
  <2> QED
    BY <2>1, <2>2, ArrivalOutcome, VerdictOfAnswers
<1>3. ASSUME pc'[r] \in RefreshCalls
      PROVE  /\ pc'[r] # "refresh.generateTokens"
             /\ \E d \in Delivered : pair[d].refresh = req'[r].token
  <2>1. CASE ArriveRegister(r) \/ ArriveLogin(r)
    <3>1. Await(r, "register.findByUsername") \/ Await(r, "login.findByUsername")
      BY <2>1 DEF ArriveRegister, ArriveLogin
    <3> QED
      BY <1>0, <1>3, <3>1, AwaitOthers
  <2>2. CASE ArriveRefresh(r)
    <3>1. PICK token \in Presentable :
            /\ Arrive(r, [op |-> "refresh", token |-> token])
            /\ IF VerifiesRefresh(token, now)
               THEN Await(r, "refresh.findByIdWithRoles")
               ELSE Throw(r, RefreshCatch(VerifyError(token, RefreshSecret)))
      BY <2>2 DEF ArriveRefresh
    <3>2. VerifiesRefresh(token, now) /\ pc'[r] = "refresh.findByIdWithRoles"
      BY <1>0, <1>3, <3>1, AwaitOthers, FinishOthers DEF Throw
    <3>3. req'[r].token = token
      BY <1>0, <3>1 DEF Arrive, TypeOK
    <3>4. token \in Presentable
      BY <3>1
    <3>5. \E d \in Delivered : pair[d].refresh = token
      BY <3>2, <3>4, PresentedWasDelivered
    <3> QED
      BY <3>2, <3>3, <3>5
  <2>3. CASE ArriveMe(r)
    BY <1>0, <1>3, <2>3, AwaitOthers, FinishOthers DEF ArriveMe, Throw
  <2> QED
    BY <2>1, <2>2, <2>3 DEF Arrival
<1>4. ASSUME pc'[r] \in MeCalls
      PROVE  \E d \in Delivered : pair[d].access = req'[r].token
  <2>1. CASE ArriveRegister(r) \/ ArriveLogin(r) \/ ArriveRefresh(r)
    <3>1. \/ Await(r, "register.findByUsername") \/ Await(r, "login.findByUsername")
          \/ Await(r, "refresh.findByIdWithRoles") \/ \E a : Finish(r, a)
      BY <2>1 DEF ArriveRegister, ArriveLogin, ArriveRefresh, Throw
    <3> QED
      BY <1>0, <1>4, <3>1, AwaitOthers, FinishOthers
  <2>2. CASE ArriveMe(r)
    <3>1. PICK token \in Presentable \cup {None} :
            /\ Arrive(r, [op |-> "me", token |-> token])
            /\ IF token = None THEN Throw(r, UnauthorizedError("UNAUTHORIZED"))
               ELSE IF VerifiesAccess(token, now) THEN Await(r, "me.findByIdWithRoles")
               ELSE Throw(r, VerifyError(token, AccessSecret))
      BY <2>2 DEF ArriveMe
    <3>2. token \in Presentable /\ VerifiesAccess(token, now)
      BY <1>0, <1>4, <3>1, AwaitOthers, FinishOthers DEF Throw
    <3>3. req'[r].token = token
      BY <1>0, <3>1 DEF Arrive, TypeOK
    <3>4. \E d \in Delivered : pair[d].access = token
      BY <3>2, PresentedWasDelivered
    <3> QED
      BY <3>3, <3>4
  <2> QED
    BY <2>1, <2>2 DEF Arrival
<1>5. RequestLineage(r)'
  BY <1>0, <1>1, <1>2, <1>3, <1>4, ArrivalShape DEF RequestLineage, DeliveredStays
<1> QED
  BY <1>0, <1>5 DEF Lineage

(***************************************************************************)
(* A step that signs nothing, answers no /me and goes to no call of refresh*)
(* or /me.                                                                 *)
(***************************************************************************)
LEMMA QuietLineage ==
  ASSUME Fresh, Lineage, NEW r \in Req, HandlerStep(r), pair'[r] = pair[r],
         pc'[r] \notin RefreshCalls \cup MeCalls,
         answer'[r] # OkAnswer \/ req[r].op # "me"
  PROVE  Lineage'
<1>1. DeliveredStays /\ \A q \in Req : q # r => RequestLineage(q)'
  BY OthersLineage DEF HandlerStep, Calls, RegisterCalls, LoginCalls, RefreshCalls, MeCalls
<1>2. req' = req
  BY DEF HandlerStep
<1>3. RequestLineage(r)'
  BY <1>1, <1>2 DEF Lineage, RequestLineage, DeliveredStays, RefreshCalls, MeCalls, ByToken
<1> QED
  BY <1>1, <1>3 DEF Lineage

(***************************************************************************)
(* A step of register or login that signs tokens.                          *)
(***************************************************************************)
LEMMA SignsLineage ==
  ASSUME Typed, Fresh, Lineage, NEW r \in Req, HandlerStep(r),
         pair' = [pair EXCEPT ![r] = GenerateTokens(read[r].id, read[r].row.roles, now)],
         pc'[r] \notin RefreshCalls \cup MeCalls, req[r].op \in {"register", "login"}
  PROVE  Lineage'
<1>1. DeliveredStays /\ \A q \in Req : q # r => RequestLineage(q)'
  BY OthersLineage DEF HandlerStep, Calls, RegisterCalls, LoginCalls, RefreshCalls, MeCalls
<1>2. req' = req
  BY DEF HandlerStep
<1>3. RequestLineage(r)'
  BY <1>1, <1>2, SignedSecrets DEF Typed, RequestLineage, RefreshCalls, MeCalls, ByToken
<1> QED
  BY <1>1, <1>3 DEF Lineage

LEMMA RegisterLineage ==
  ASSUME Typed, Fresh, Lineage, NEW r \in Req, Register(r)
  PROVE  Lineage'
<1> USE DEF RegisterCalls, LoginCalls, RefreshCalls, MeCalls
<1>0. TypeOK /\ HandlerStep(r) /\ RequestOK(r)
  BY RegisterShape DEF Typed
<1>1. req[r].op = "register"
  BY <1>0 DEF Register, RegisterFindByUsername, RegisterFindByEmail, RegisterFindRoleByName,
     RegisterCreateUser, RegisterGenerateTokens, RegisterSendWelcomeEmail, RequestOK,
     RegisterRequest
<1>2. pc'[r] \notin RefreshCalls \cup MeCalls
  BY <1>0, FinishOthers, AwaitOthers
     DEF Register, RegisterFindByUsername, RegisterFindByEmail, RegisterFindRoleByName,
         RegisterCreateUser, RegisterGenerateTokens, RegisterSendWelcomeEmail, Throw, Return
<1>3. CASE RegisterGenerateTokens(r)
  BY <1>0, <1>1, <1>2, <1>3, SignsLineage DEF RegisterGenerateTokens
<1>4. CASE ~RegisterGenerateTokens(r)
  <2>1. pair' = pair
    BY <1>4 DEF Register, RegisterFindByUsername, RegisterFindByEmail, RegisterFindRoleByName,
       RegisterCreateUser, RegisterSendWelcomeEmail
  <2> QED
    BY <1>0, <1>1, <1>2, <2>1, QuietLineage
<1> QED
  BY <1>3, <1>4

LEMMA LoginLineage ==
  ASSUME Typed, Fresh, Lineage, NEW r \in Req, Login(r)
  PROVE  Lineage'
<1> USE DEF RegisterCalls, LoginCalls, RefreshCalls, MeCalls
<1>0. TypeOK /\ HandlerStep(r) /\ RequestOK(r)
  BY SessionShape DEF Typed
<1>1. req[r].op = "login"
  BY <1>0 DEF Login, LoginFindByUsername, LoginVerifyPassword, LoginFindByIdWithRoles, RequestOK,
     LoginRequest
<1>2. pc'[r] \notin RefreshCalls \cup MeCalls
  BY <1>0, FinishOthers, AwaitOthers
     DEF Login, LoginFindByUsername, LoginVerifyPassword, LoginFindByIdWithRoles, Throw, Return
<1>3. \/ pair' = pair
      \/ pair' = [pair EXCEPT ![r] = GenerateTokens(read[r].id, read[r].row.roles, now)]
  BY DEF Login, LoginFindByUsername, LoginVerifyPassword, LoginFindByIdWithRoles
<1> QED
  BY <1>0, <1>1, <1>2, <1>3, SignsLineage, QuietLineage

LEMMA LookUpLineage ==
  ASSUME Typed, Fresh, Lineage, NEW r \in Req, LookUp(r)
  PROVE  Lineage'
<1>0. /\ TypeOK /\ HandlerStep(r) /\ UNCHANGED <<read, pair, req>> /\ RequestLineage(r)
  BY LookUpShape DEF Typed, HandlerStep, Lineage
<1>1. CASE RoleIsLost(r)
  <2>1. pc'[r] = "done" /\ answer'[r] # OkAnswer
    BY <1>1, RejectOutcome, VerdictOfAnswers DEF RoleIsLost
  <2> QED
    BY <1>0, <2>1, QuietLineage DEF RefreshCalls, MeCalls
<1>2. CASE FindUser(r) \/ FindUserRoles(r)
  <2>1. DeliveredStays /\ \A q \in Req : q # r => RequestLineage(q)'
    BY <1>0, OthersLineage DEF HandlerStep, Calls, RegisterCalls, LoginCalls, RefreshCalls, MeCalls
  <2>2. UNCHANGED <<pc, answer>>
    BY <1>2 DEF FindUser, FindUserRoles
  <2>3. pc[r] \in ByToken => found'[r].id = req[r].token.userId
    <3>1. CASE FindUser(r)
      <4>1. PICK u \in UserId : u \in Matching(r) /\ found'[r] = SelectUser(u)
        BY <1>0, <3>1, FindUserStep
      <4>2. pc[r] \in ByToken => Matching(r) = FindById(req[r].token.userId)
        BY DEF Matching, ByToken
      <4> QED
        BY <4>1, <4>2 DEF FindById, SelectUser
    <3>2. CASE FindUserRoles(r)
      <4>1. found'[r].id = found[r].id /\ found[r] # None
        BY <1>0, <3>2, FindUserRolesStep DEF FindUserRoles
      <4> QED
        BY <1>0, <4>1 DEF RequestLineage
    <3> QED
      BY <1>2, <3>1, <3>2
  <2>4. RequestLineage(r)'
    BY <1>0, <2>1, <2>2, <2>3 DEF RequestLineage, DeliveredStays
  <2> QED
    BY <2>1, <2>4 DEF Lineage
<1> QED
  BY <1>1, <1>2 DEF LookUp

LEMMA RefreshLineage ==
  ASSUME Typed, Fresh, Lineage, NEW r \in Req, Refresh(r)
  PROVE  Lineage'
<1> USE DEF RefreshCalls, MeCalls
<1>0. TypeOK /\ HandlerStep(r) /\ RequestOK(r) /\ RequestLineage(r) /\ req' = req
  BY SessionShape DEF Typed, Lineage, HandlerStep
<1>1. DeliveredStays /\ \A q \in Req : q # r => RequestLineage(q)'
  BY <1>0, OthersLineage DEF HandlerStep, Calls, RegisterCalls, LoginCalls
<1>2. pc[r] \in RefreshCalls /\ req[r].op = "refresh"
  BY <1>0 DEF Refresh, RefreshFindByIdWithRoles, RefreshGenerateTokens, RequestOK, RefreshRequest
<1>3. PICK d \in Delivered : pair[d].refresh = req[r].token
  BY <1>0, <1>2 DEF RequestLineage
<1>4. d \in Delivered' /\ pair'[d].refresh = req'[r].token
  BY <1>0, <1>1, <1>3 DEF DeliveredStays
<1>5. CASE RefreshFindByIdWithRoles(r)
  <2>1. UNCHANGED pair /\ pc'[r] \in {"refresh.generateTokens", "done"}
    BY <1>0, <1>5, AwaitOthers, FinishOthers DEF RefreshFindByIdWithRoles, Throw
  <2>2. pc'[r] = "refresh.generateTokens" => read'[r].id = req'[r].token.userId
    <3>1. CASE Refreshable(found[r]) /\ read' = [read EXCEPT ![r] = Account(found[r])]
      <4>1. read'[r].id = found[r].id
        BY <1>0, <3>1, AccountType DEF Account, Refreshable
      <4> QED
        BY <1>0, <1>5, <3>1, <4>1
           DEF RefreshFindByIdWithRoles, RequestLineage, ByToken, Refreshable
    <3>2. CASE ~Refreshable(found[r])
      BY <1>0, <1>5, <3>2, FinishOthers DEF RefreshFindByIdWithRoles, Throw
    <3> QED
      BY <1>5, <3>1, <3>2 DEF RefreshFindByIdWithRoles
  <2>3. pc'[r] \notin ByToken
    BY <2>1 DEF ByToken
  <2>4. RequestLineage(r)'
    BY <1>0, <1>1, <1>2, <1>4, <2>1, <2>2, <2>3 DEF RequestLineage, DeliveredStays
  <2> QED
    BY <1>1, <2>4 DEF Lineage
<1>6. CASE RefreshGenerateTokens(r)
  <2>1. pair' = [pair EXCEPT ![r] = GenerateTokens(read[r].id, read[r].row.roles, now)]
    BY <1>6 DEF RefreshGenerateTokens
  <2>2. pc'[r] = "done" /\ read[r].id = req[r].token.userId
    BY <1>0, <1>6, FinishOthers DEF RefreshGenerateTokens, Return, RequestLineage
  <2>3. pair'[d].refresh.userId = pair'[r].refresh.userId
    BY <1>0, <1>4, <2>1, <2>2, SignedSecrets
  <2>4. RequestLineage(r)'
    BY <1>0, <1>2, <1>4, <2>1, <2>2, <2>3, SignedSecrets DEF RequestLineage, ByToken
  <2> QED
    BY <1>1, <2>4 DEF Lineage
<1> QED
  BY <1>5, <1>6 DEF Refresh

LEMMA MeLineage ==
  ASSUME Typed, Fresh, Lineage, NEW r \in Req, MeFindByIdWithRoles(r)
  PROVE  Lineage'
<1> USE DEF RefreshCalls, MeCalls
<1>0. TypeOK /\ HandlerStep(r) /\ RequestOK(r) /\ RequestLineage(r) /\ req' = req
  BY SessionShape DEF Typed, Lineage, HandlerStep
<1>1. DeliveredStays /\ \A q \in Req : q # r => RequestLineage(q)'
  BY <1>0, OthersLineage DEF HandlerStep, Calls, RegisterCalls, LoginCalls
<1>2. pc[r] \in MeCalls /\ req[r].op = "me" /\ pair' = pair /\ req[r].token \in Token
  BY <1>0 DEF MeFindByIdWithRoles, RequestOK, MeRequest
<1>3. pc'[r] = "done"
  BY <1>0, FinishOthers DEF MeFindByIdWithRoles, Throw, Return
<1>4. ASSUME answer'[r] = OkAnswer
      PROVE  read'[r].id = req[r].token.userId
  <2>1. found[r] # None /\ read' = [read EXCEPT ![r] = Account(found[r])]
    BY <1>0, <1>4, FinishOthers, VerdictOfAnswers DEF MeFindByIdWithRoles, Throw
  <2>2. read'[r].id = found[r].id
    BY <1>0, <2>1, AccountType DEF Account
  <2> QED
    BY <1>0, <2>1, <2>2 DEF MeFindByIdWithRoles, RequestLineage, ByToken
<1>5. PICK d \in Delivered : pair[d].access = req[r].token
  BY <1>0, <1>2 DEF RequestLineage
<1>6. d \in Delivered' /\ pair'[d].access = req'[r].token
  BY <1>0, <1>1, <1>5 DEF DeliveredStays
<1>7. RequestLineage(r)'
  BY <1>0, <1>2, <1>3, <1>4, <1>6 DEF RequestLineage, ByToken
<1> QED
  BY <1>1, <1>7 DEF Lineage

LEMMA InitLineage == Init => Lineage
<1>1. OkAnswer # None
  BY OkAnswerType, NoneAssumption
<1> QED
  BY <1>1 DEF Init, Lineage, RequestLineage, RefreshCalls, MeCalls, ByToken

LEMMA NextLineage ==
  ASSUME SecretsDiffer
  PROVE  Typed /\ Fresh /\ Warranted /\ Lineage /\ [Next]_vars => Lineage'
<1> SUFFICES ASSUME Typed, Fresh, Warranted, Lineage, [Next]_vars
             PROVE  Lineage'
  OBVIOUS
<1>1. CASE UNCHANGED vars
  BY <1>1 DEF Lineage, RequestLineage, Delivered, vars
<1>2. CASE Crash \/ Edit \/ Tick
  <2>1. EnvironmentStep
    BY <1>2, EnvironmentShape
  <2>2. DeliveredStays
    BY <2>1, DeliveredGrows DEF EnvironmentStep
  <2> QED
    BY <2>1, <2>2, StaysLineage DEF Lineage, EnvironmentStep
<1>3. ASSUME NEW r \in Req, DbFails(r)
      PROVE  Lineage'
  <2>1. answer'[r] # OkAnswer
    BY <1>3, RejectOutcome, VerdictOfAnswers DEF DbFails
  <2>2. pair' = pair /\ pc'[r] \notin RefreshCalls \cup MeCalls
    BY <1>3, DbFailsShape DEF locals, RefreshCalls, MeCalls
  <2> QED
    BY <1>3, <2>1, <2>2, DbFailsShape, QuietLineage
<1>4. ASSUME NEW r \in Req, LookUp(r)
      PROVE  Lineage'
  BY <1>4, LookUpLineage
<1>5. ASSUME NEW r \in Req, Land(r)
      PROVE  Lineage'
  <2>1. LateStep(r)
    BY <1>5, LandShape
  <2>2. DeliveredStays
    BY <2>1, DeliveredGrows DEF LateStep
  <2> QED
    BY <2>1, <2>2, StaysLineage DEF Lineage, LateStep
<1> QED
  BY <1>1, <1>2, <1>3, <1>4, <1>5, ArrivalLineage, RegisterLineage, LoginLineage, RefreshLineage, MeLineage
     DEF Next, Handle

(***************************************************************************)
(* Every session descends from a log-in or a registration of its account:  *)
(* with the two secrets apart, a refresh is only done for a refresh token  *)
(* the server sent, and /me only for an access token it sent.              *)
(***************************************************************************)
THEOREM SessionsDescend == SecretsDiffer => (Spec => []SessionLineage)
<1> SUFFICES ASSUME SecretsDiffer
             PROVE  Spec => []SessionLineage
  OBVIOUS
<1>1. Lineage => SessionLineage
  BY DEF Lineage, RequestLineage, SessionLineage
<1>2. Typed /\ Fresh /\ Warranted /\ Lineage /\ [Next]_vars => Lineage'
  BY NextLineage
<1> QED
  BY InitTyped, NextTyped, InitFresh, NextFresh, InitWarranted, NextWarranted, InitLineage, <1>2,
     <1>1, PTL DEF Spec
=============================================================================
