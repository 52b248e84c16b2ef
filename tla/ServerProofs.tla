---------------------------- MODULE ServerProofs ----------------------------
(***************************************************************************)
(* Theorems about Server, for every set of requests and clients, every     *)
(* size of the pool, every limit and every value of the bounds.            *)
(***************************************************************************)
EXTENDS Server, ErrorsProofs, FiniteSetTheorems

(***************************************************************************)
(* No error is answered with 200.                                          *)
(***************************************************************************)
LEMMA ErrorsAreNotOk ==
  /\ \A e \in DbErrors : ErrorMiddleware(e) \in AnswerSet \ {OkAnswer}
  /\ ErrorMiddleware(LibraryError("SyntaxError", "plain")) \in AnswerSet \ {OkAnswer}
  /\ ErrorMiddleware(RateLimitError) \in AnswerSet \ {OkAnswer}
  /\ ErrorMiddleware(NotFoundError("RESOURCE_NOT_FOUND")) \in AnswerSet \ {OkAnswer}
  /\ ErrorMiddleware(ValidationError("VALIDATION_ERROR")) \in AnswerSet \ {OkAnswer}
<1>1. \A e : e.app = FALSE => ErrorMiddleware(e).statusCode # 200
  BY DEF ErrorMiddleware, HandlePrismaError, HandleKnownPrismaError, ConflictError,
         NotFoundError, ValidationError, InternalServerError, AppError, AppErrorWith,
         AnswerOf, Answer
<1>2. /\ ErrorMiddleware(RateLimitError).statusCode # 200
      /\ ErrorMiddleware(NotFoundError("RESOURCE_NOT_FOUND")).statusCode # 200
      /\ ErrorMiddleware(ValidationError("VALIDATION_ERROR")).statusCode # 200
  BY DEF ErrorMiddleware, RateLimitError, NotFoundError, ValidationError, AppError,
         AppErrorWith, AnswerOf, Answer
<1>3. OkAnswer.statusCode = 200
  BY DEF OkAnswer, Answer
<1>4. /\ \A e \in DbErrors : e.app = FALSE
      /\ LibraryError("SyntaxError", "plain").app = FALSE
  BY DEF DbErrors, CodedError, LibraryError
<1>5. "RESOURCE_NOT_FOUND" \in Codes /\ "VALIDATION_ERROR" \in Codes
  BY DEF Codes
<1>6. /\ \A e \in DbErrors : ErrorMiddleware(e) \in AnswerSet
      /\ ErrorMiddleware(LibraryError("SyntaxError", "plain")) \in AnswerSet
      /\ ErrorMiddleware(RateLimitError) \in AnswerSet
      /\ ErrorMiddleware(NotFoundError("RESOURCE_NOT_FOUND")) \in AnswerSet
      /\ ErrorMiddleware(ValidationError("VALIDATION_ERROR")) \in AnswerSet
  BY <1>4, <1>5, LibraryErrorAnswered, AppErrorAnswered, RateLimitAnswered
<1> QED
  BY <1>1, <1>2, <1>3, <1>4, <1>6

(***************************************************************************)
(* The queries of a handler are those that TypeOK allows; /health has none.*)
(***************************************************************************)
LEMMA PlanType ==
  /\ \A kind \in Served : Plan(kind) \subseteq Query
  /\ Plan("healthCheck") = {}
  BY DEF Plan, Served, Query

(***************************************************************************)
(* The inductive invariant.  A query that waits, runs or has returned is   *)
(* one that the handler of its request asked for: without this, a query    *)
(* that ends after the answer could add to what an answered 200 rests on.  *)
(* A request that has not come yet has no answer and no query, and one in  *)
(* its handler has no answer.                                              *)
(***************************************************************************)
Stage(r) ==
  /\ pc[r] = "new" => req[r] = None /\ answer[r] = None
  /\ pc[r] = "handler" => answer[r] = None /\ req[r] \in Request /\ req[r].kind \in Served

Planned(r) ==
  \A q \in waiting[r] \cup running[r] \cup got[r] :
    req[r] \in Request /\ req[r].kind \in Served /\ q \in Plan(req[r].kind)

Complete(r) ==
  answer[r] = OkAnswer => req[r].kind \in Served /\ got[r] = Plan(req[r].kind)

Sound(r) == Stage(r) /\ Planned(r) /\ Complete(r)

IInv == TypeOK /\ \A r \in Req : Sound(r)

LEMMA InitSound == Init => IInv
<1> SUFFICES ASSUME Init PROVE IInv
  OBVIOUS
<1>1. TypeOK
  BY DEF Init, TypeOK
<1>2. ASSUME NEW r \in Req PROVE Sound(r)
  BY <1>2, ServerAssumption, OkAnswerType DEF Init, Sound, Stage, Planned, Complete
<1> QED
  BY <1>1, <1>2 DEF IInv

(***************************************************************************)
(* A step that answers a new request r, from its middlewares: the other    *)
(* requests keep what they had.                                            *)
(***************************************************************************)
LEMMA AnswerAtOnce ==
  ASSUME IInv, NEW r \in Req, NEW request \in Request, NEW a \in AnswerSet,
         Receive(r, request), Reply(r, a), UNCHANGED waiting,
         hits' \in [Client -> Nat],
         a = OkAnswer => request.kind = "healthCheck"
  PROVE  IInv' /\ \A t \in Req : answer[t] # None => answer'[t] = answer[t]
<1>1. TypeOK'
  BY DEF IInv, TypeOK, Receive, Reply, process
<1>2. ASSUME NEW t \in Req, t # r
      PROVE  Sound(t)' /\ answer'[t] = answer[t]
  BY <1>2 DEF IInv, TypeOK, Sound, Stage, Planned, Complete, Receive, Reply
<1>3. Sound(r)' /\ answer[r] = None
  <2>1. req'[r] = request /\ pc'[r] = "done" /\ answer'[r] = a
    BY DEF IInv, TypeOK, Receive, Reply
  <2>2. pc[r] = "new" /\ req[r] = None /\ answer[r] = None
    BY DEF IInv, Sound, Stage, Receive
  <2>3. waiting[r] = {} /\ running[r] = {} /\ got[r] = {}
    BY <2>2, NoneAssumption DEF IInv, Sound, Planned
  <2>4. waiting'[r] = {} /\ running'[r] = {} /\ got'[r] = {}
    BY <2>3 DEF Receive
  <2>5. Stage(r)' /\ Planned(r)'
    BY <2>1, <2>4 DEF Stage, Planned
  <2>6. Complete(r)'
    BY <2>1, <2>4, PlanType DEF Complete, Served
  <2> QED
    BY <2>2, <2>5, <2>6 DEF Sound
<1> QED
  BY <1>1, <1>2, <1>3 DEF IInv

(***************************************************************************)
(* The middlewares answer, or hand the request to its handler.             *)
(***************************************************************************)
LEMMA ArrivalSound ==
  ASSUME IInv, NEW r \in Req, Arrival(r)
  PROVE  IInv' /\ \A t \in Req : answer[t] # None => answer'[t] = answer[t]
<1> DEFINE Keeps == \A t \in Req : answer[t] # None => answer'[t] = answer[t]
<1>0. ASSUME NEW c \in Client, NEW kind \in Kind
      PROVE  /\ [client |-> c, kind |-> kind] \in Request
             /\ [client |-> c, kind |-> kind].kind = kind
  BY <1>0 DEF Request
<1>1. hits \in [Client -> Nat]
  BY DEF IInv, TypeOK
<1>2. ASSUME NEW c \in Client, hits' = [hits EXCEPT ![c] = @ + 1]
      PROVE  hits' \in [Client -> Nat]
  BY <1>1, <1>2
<1>3. CASE MalformedBody(r)
  <2>1. PICK c \in Client :
          /\ Receive(r, [client |-> c, kind |-> "malformed"])
          /\ Throw(r, LibraryError("SyntaxError", "plain"))
          /\ UNCHANGED <<hits, waiting>>
    BY <1>3 DEF MalformedBody
  <2> QED
    BY <2>1, <1>0, <1>1, AnswerAtOnce, ErrorsAreNotOk DEF Throw, Kind
<1>4. CASE Preflight(r)
  <2>1. PICK c \in Client :
          /\ Receive(r, [client |-> c, kind |-> "preflight"])
          /\ Reply(r, Answer(204, "OK", "SUCCESS", TRUE, FALSE))
          /\ UNCHANGED <<hits, waiting>>
    BY <1>4 DEF Preflight
  <2>2. Answer(204, "OK", "SUCCESS", TRUE, FALSE) \in AnswerSet \ {OkAnswer}
    BY DEF Answer, OkAnswer, AnswerSet, Codes, Types
  <2> QED
    BY <2>1, <2>2, <1>0, <1>1, AnswerAtOnce DEF Kind
<1>5. CASE TooManyRequests(r)
  <2>1. PICK kind \in CountedKinds : Limited(r, kind)
    BY <1>5 DEF TooManyRequests
  <2>2. PICK c \in Client :
          /\ Receive(r, [client |-> c, kind |-> kind])
          /\ hits' = [hits EXCEPT ![c] = @ + 1]
          /\ Throw(r, RateLimitError)
          /\ UNCHANGED waiting
    BY <2>1 DEF Limited
  <2> QED
    BY <2>2, <1>0, <1>2, AnswerAtOnce, ErrorsAreNotOk DEF Throw, CountedKinds
<1>6. CASE NotFound(r)
  <2>1. PICK kind \in {"health", "unrouted"}, c \in Client :
          /\ Receive(r, [client |-> c, kind |-> kind])
          /\ hits' = [hits EXCEPT ![c] = @ + 1]
          /\ Throw(r, NotFoundError("RESOURCE_NOT_FOUND"))
          /\ UNCHANGED waiting
    BY <1>6 DEF NotFound, Passed
  <2> QED
    BY <2>1, <1>0, <1>2, AnswerAtOnce, ErrorsAreNotOk DEF Throw, Kind
<1>7. CASE Validate(r)
  <2>1. PICK c \in Client :
          /\ Receive(r, [client |-> c, kind |-> "badCode"])
          /\ hits' = [hits EXCEPT ![c] = @ + 1]
          /\ Throw(r, ValidationError("VALIDATION_ERROR"))
          /\ UNCHANGED waiting
    BY <1>7 DEF Validate, Passed
  <2> QED
    BY <2>1, <1>0, <1>2, AnswerAtOnce, ErrorsAreNotOk DEF Throw, Kind
<1>8. CASE CheckHealth(r)
  <2>1. PICK c \in Client :
          /\ Receive(r, [client |-> c, kind |-> "healthCheck"])
          /\ hits' = [hits EXCEPT ![c] = @ + 1]
          /\ Reply(r, OkAnswer)
          /\ UNCHANGED waiting
    BY <1>8 DEF CheckHealth, Passed
  <2> QED
    BY <2>1, <1>0, <1>2, AnswerAtOnce, OkAnswerType DEF Kind, Served
<1>9. CASE HandleCountries(r)
  <2>1. PICK kind \in {"countries", "countryByCode", "countryByCodeIso3"}, c \in Client :
          /\ Receive(r, [client |-> c, kind |-> kind])
          /\ hits' = [hits EXCEPT ![c] = @ + 1]
          /\ pc' = [pc EXCEPT ![r] = "handler"]
          /\ waiting' = [waiting EXCEPT ![r] = Plan(kind)]
          /\ answer' = answer
    BY <1>9 DEF HandleCountries, Passed
  <2>2. kind \in Served /\ kind \in Kind /\ Plan(kind) \subseteq Query
    BY PlanType DEF Served, Kind
  <2> DEFINE request == [client |-> c, kind |-> kind]
  <2>3. request \in Request /\ request.kind = kind
    BY <2>2, <1>0
  <2> HIDE DEF request
  <2>4. TypeOK'
    BY <2>1, <2>2, <2>3, <1>2 DEF IInv, TypeOK, Receive, process, request
  <2>5. ASSUME NEW t \in Req, t # r PROVE Sound(t)'
    BY <2>1, <2>5 DEF IInv, TypeOK, Sound, Stage, Planned, Complete, Receive
  <2>6. pc[r] = "new" /\ req[r] = None /\ answer[r] = None
    BY <2>1 DEF IInv, Sound, Stage, Receive
  <2>7. running[r] = {} /\ got[r] = {}
    BY <2>6, NoneAssumption DEF IInv, Sound, Planned
  <2>8. /\ req'[r] = request /\ pc'[r] = "handler" /\ answer'[r] = None
        /\ waiting'[r] = Plan(kind) /\ running'[r] = {} /\ got'[r] = {}
    BY <2>1, <2>6, <2>7 DEF IInv, TypeOK, Receive, request
  <2>9. Sound(r)'
    BY <2>2, <2>3, <2>8, ServerAssumption, OkAnswerType DEF Sound, Stage, Planned, Complete
  <2> QED
    BY <2>1, <2>4, <2>5, <2>9 DEF IInv
<1> QED
  BY <1>3, <1>4, <1>5, <1>6, <1>7, <1>8, <1>9 DEF Arrival

(***************************************************************************)
(* A query returns: it can only complete the answer of a handler that      *)
(* still waits, and adds nothing to what an earlier answer rests on.       *)
(***************************************************************************)
LEMMA ReturnSound ==
  ASSUME IInv, NEW r \in Req, NEW q \in Query, QueryReturns(r, q)
  PROVE  IInv' /\ \A t \in Req : answer[t] # None => answer'[t] = answer[t]
<1>1. /\ q \in running[r]
      /\ running' = [running EXCEPT ![r] = @ \ {q}]
      /\ got' = [got EXCEPT ![r] = @ \cup {q}]
      /\ IF pc[r] = "handler" /\ got'[r] = Plan(req[r].kind)
         THEN Reply(r, OkAnswer)
         ELSE UNCHANGED <<pc, answer>>
      /\ UNCHANGED <<process, hits, req, waiting, faults, starts>>
  BY DEF QueryReturns
<1>2. TypeOK'
  <2>1. pc' \in [Req -> {"new", "handler", "done", "lost"}]
    BY <1>1 DEF IInv, TypeOK, Reply
  <2>2. answer' \in [Req -> AnswerSet \cup {None}]
    BY <1>1, OkAnswerType DEF IInv, TypeOK, Reply
  <2>3. running' \in [Req -> SUBSET Query] /\ got' \in [Req -> SUBSET Query]
    BY <1>1 DEF IInv, TypeOK
  <2> QED
    BY <1>1, <2>1, <2>2, <2>3 DEF IInv, TypeOK, process
<1>3. ASSUME NEW t \in Req, t # r
      PROVE  Sound(t)' /\ answer'[t] = answer[t]
  BY <1>1, <1>3 DEF IInv, TypeOK, Sound, Stage, Planned, Complete, Reply
<1>4. /\ req[r] \in Request /\ req[r].kind \in Served
      /\ q \in Plan(req[r].kind) /\ pc[r] # "new"
  BY <1>1, NoneAssumption DEF IInv, Sound, Stage, Planned
<1>5. got'[r] = got[r] \cup {q} /\ running'[r] = running[r] \ {q}
  BY <1>1 DEF IInv, TypeOK
<1>6. Planned(r)'
  BY <1>1, <1>4, <1>5 DEF IInv, Sound, Planned
<1>7. CASE pc[r] = "handler" /\ got'[r] = Plan(req[r].kind)
  <2>1. pc'[r] = "done" /\ answer'[r] = OkAnswer
    BY <1>1, <1>7 DEF IInv, TypeOK, Reply
  <2>2. answer[r] = None
    BY <1>7 DEF IInv, Sound, Stage
  <2>3. Stage(r)' /\ Complete(r)'
    BY <1>1, <1>4, <1>7, <2>1 DEF Stage, Complete
  <2> QED
    BY <1>2, <1>3, <1>6, <2>2, <2>3 DEF IInv, Sound
<1>8. CASE ~(pc[r] = "handler" /\ got'[r] = Plan(req[r].kind))
  <2>1. UNCHANGED <<pc, answer, req>>
    BY <1>1, <1>8
  <2>2. Stage(r)'
    BY <2>1 DEF IInv, Sound, Stage
  <2>3. Complete(r)'
    BY <2>1, <1>4, <1>5 DEF IInv, Sound, Complete
  <2> QED
    BY <1>2, <1>3, <1>6, <2>1, <2>2, <2>3 DEF IInv, Sound
<1> QED
  BY <1>7, <1>8

(***************************************************************************)
(* A query fails: an error is answered if nothing was before.              *)
(***************************************************************************)
LEMMA FailureSound ==
  ASSUME IInv, NEW r \in Req, NEW q \in Query, QueryFails(r, q)
  PROVE  IInv' /\ \A t \in Req : answer[t] # None => answer'[t] = answer[t]
<1>1. /\ q \in running[r]
      /\ faults' = faults + 1
      /\ running' = [running EXCEPT ![r] = @ \ {q}]
      /\ IF pc[r] = "handler" THEN \E e \in DbErrors : Throw(r, e)
         ELSE UNCHANGED <<pc, answer>>
      /\ UNCHANGED <<process, hits, req, waiting, got, starts>>
  BY DEF QueryFails
<1>2. running' \in [Req -> SUBSET Query] /\ running'[r] = running[r] \ {q}
  BY <1>1 DEF IInv, TypeOK
<1>3. pc[r] # "new" /\ req[r] \in Request
  BY <1>1, NoneAssumption DEF IInv, Sound, Stage, Planned
<1>4. CASE pc[r] = "handler"
  <2>1. PICK a \in AnswerSet \ {OkAnswer} : Reply(r, a)
    <3>1. PICK e \in DbErrors : Throw(r, e)
      BY <1>1, <1>4
    <3> QED
      BY <3>1, ErrorsAreNotOk DEF Throw
  <2>2. TypeOK'
    BY <1>1, <1>2, <2>1 DEF IInv, TypeOK, process, Reply
  <2>3. ASSUME NEW t \in Req, t # r
        PROVE  Sound(t)' /\ answer'[t] = answer[t]
    BY <1>1, <2>1, <2>3 DEF IInv, TypeOK, Sound, Stage, Planned, Complete, Reply
  <2>4. pc'[r] = "done" /\ answer'[r] = a /\ answer[r] = None
    BY <1>4, <2>1 DEF IInv, TypeOK, Reply, Sound, Stage
  <2>5. Sound(r)'
    BY <1>1, <1>2, <2>1, <2>4 DEF IInv, Sound, Stage, Planned, Complete
  <2> QED
    BY <2>2, <2>3, <2>4, <2>5 DEF IInv
<1>5. CASE pc[r] # "handler"
  <2>1. UNCHANGED <<pc, answer, req, waiting, got>>
    BY <1>1, <1>5
  <2>2. TypeOK'
    BY <1>1, <1>2, <2>1 DEF IInv, TypeOK, process
  <2>3. ASSUME NEW t \in Req PROVE running'[t] \subseteq running[t]
    BY <1>1 DEF IInv, TypeOK
  <2>4. ASSUME NEW t \in Req PROVE Sound(t)'
    BY <2>1, <2>3 DEF IInv, Sound, Stage, Planned, Complete
  <2> QED
    BY <2>1, <2>2, <2>4 DEF IInv
<1> QED
  BY <1>4, <1>5

(***************************************************************************)
(* The process ends: nothing waits or runs any more, what was answered     *)
(* stays answered.                                                         *)
(***************************************************************************)
LEMMA ExitSound ==
  ASSUME IInv, NEW code \in {0, 1}, Exit(code), faults' \in Nat, UNCHANGED starts
  PROVE  IInv' /\ UNCHANGED answer
<1>1. TypeOK'
  BY DEF IInv, TypeOK, Exit
<1>2. ASSUME NEW t \in Req PROVE Sound(t)'
  <2>1. /\ waiting'[t] = {} /\ running'[t] = {}
        /\ pc'[t] = IF t \in InHandler THEN "lost" ELSE pc[t]
        /\ UNCHANGED <<req, got, answer>>
    BY <1>2 DEF Exit
  <2> QED
    BY <1>2, <2>1 DEF IInv, Sound, Stage, Planned, Complete, InHandler
<1> QED
  BY <1>1, <1>2 DEF IInv, Exit

LEMMA StepSound ==
  ASSUME IInv, [Next]_vars
  PROVE  IInv' /\ \A t \in Req : answer[t] # None => answer'[t] = answer[t]
<1>1. ASSUME NEW r \in Req, Arrival(r)
      PROVE  IInv' /\ \A t \in Req : answer[t] # None => answer'[t] = answer[t]
  BY <1>1, ArrivalSound
<1>2. ASSUME NEW r \in Req, NEW q \in Query, TakeConnection(r, q)
      PROVE  IInv' /\ UNCHANGED answer
  <2>1. TypeOK'
    BY <1>2 DEF IInv, TypeOK, TakeConnection, process
  <2>2. ASSUME NEW t \in Req
        PROVE  waiting'[t] \cup running'[t] \subseteq waiting[t] \cup running[t]
    BY <1>2, <2>2 DEF IInv, TypeOK, TakeConnection
  <2>3. ASSUME NEW t \in Req PROVE Sound(t)'
    BY <1>2, <2>2, <2>3 DEF IInv, Sound, Stage, Planned, Complete, TakeConnection
  <2> QED
    BY <1>2, <2>1, <2>3 DEF IInv, TakeConnection
<1>3. ASSUME NEW r \in Req, NEW q \in Query, QueryReturns(r, q)
      PROVE  IInv' /\ \A t \in Req : answer[t] # None => answer'[t] = answer[t]
  BY <1>3, ReturnSound
<1>4. ASSUME NEW r \in Req, NEW q \in Query, QueryFails(r, q)
      PROVE  IInv' /\ \A t \in Req : answer[t] # None => answer'[t] = answer[t]
  BY <1>4, FailureSound
<1>5. CASE UNCHANGED queries /\ UNCHANGED <<req, pc, answer>> /\ TypeOK'
  BY <1>5 DEF IInv, Sound, Stage, Planned, Complete, queries
<1>6. CASE WindowEnds
  BY <1>5, <1>6 DEF WindowEnds, IInv, TypeOK, process, queries
<1>7. CASE Listen
  BY <1>5, <1>7 DEF Listen, IInv, TypeOK, queries
<1>8. CASE Signal
  BY <1>5, <1>8 DEF Signal, IInv, TypeOK, queries, InHandler
<1>9. CASE Disconnected
  BY <1>9, ExitSound DEF Disconnected, IInv, TypeOK
<1>10. CASE Crash
  BY <1>10, ExitSound DEF Crash, IInv, TypeOK
<1>11. CASE RunsDry
  BY <1>11, ExitSound DEF RunsDry, IInv, TypeOK
<1>12. CASE Restart
  <2>1. phase' \in {"starting", "listening", "unbound", "exited"} /\ announced' \in BOOLEAN
    BY <1>12 DEF Restart
  <2>2. starts' \in Nat /\ exitCode' \in {0, 1, None}
    BY <1>12 DEF Restart, IInv, TypeOK
  <2>3. TypeOK'
    BY <1>12, <2>1, <2>2 DEF Restart, IInv, TypeOK, queries
  <2> QED
    BY <1>5, <1>12, <2>3 DEF Restart, queries
<1>13. CASE UNCHANGED vars
  BY <1>5, <1>13 DEF vars, IInv, TypeOK, queries
<1> QED
  BY <1>1, <1>2, <1>3, <1>4, <1>6, <1>7, <1>8, <1>9, <1>10, <1>11, <1>12, <1>13 DEF Next

(***************************************************************************)
(* In every reachable state the variables have the types of TypeOK: each   *)
(* request that is answered gets a complete answer of the enumerations,    *)
(* and a handler only runs queries that its repository has.                *)
(***************************************************************************)
THEOREM ServerTypeCorrect == Spec => []TypeOK
<1>1. Init => IInv
  BY InitSound
<1>2. IInv /\ [Next]_vars => IInv'
  BY StepSound
<1>3. IInv => TypeOK
  BY DEF IInv
<1> QED
  BY <1>1, <1>2, <1>3, PTL DEF Spec

(***************************************************************************)
(* A 200 of the countries rests on all the queries of its handler, for any *)
(* number of requests and connections and any order of their ends.         *)
(***************************************************************************)
THEOREM OkStaysComplete == Spec => []OkIsComplete
<1>1. Init => IInv
  BY InitSound
<1>2. IInv /\ [Next]_vars => IInv'
  BY StepSound
<1>3. IInv => OkIsComplete
  BY DEF IInv, Sound, Complete, OkIsComplete
<1> QED
  BY <1>1, <1>2, <1>3, PTL DEF Spec

(***************************************************************************)
(* An answer is never followed by another, whatever queries of the same    *)
(* handler return or fail after it.                                        *)
(***************************************************************************)
THEOREM AnswersAreFinal == Spec => AnsweredOnce
<1>1. Init => IInv
  BY InitSound
<1>2. IInv /\ [Next]_vars => IInv'
  BY StepSound
<1>3. IInv /\ [Next]_vars => [\A r \in Req : answer[r] # None => answer'[r] = answer[r]]_vars
  BY StepSound
<1> QED
  BY <1>1, <1>2, <1>3, PTL DEF Spec, AnsweredOnce
----------------------------------------------------------------------------
(* What the handlers wait for.                                             *)

(***************************************************************************)
(* The queries of a handler that has not answered, divided into those that *)
(* have returned, run and wait.                                            *)
(***************************************************************************)
Awaited(r) ==
  pc[r] = "handler" =>
    /\ got[r] \cup running[r] \cup waiting[r] = Plan(req[r].kind)
    /\ running[r] \cup waiting[r] # {}
    /\ running[r] \cap waiting[r] = {} /\ got[r] \cap (running[r] \cup waiting[r]) = {}

\* Before it listens and after it has ended the process has no query.
Quiet == phase # "listening" => \A r \in Req : waiting[r] = {} /\ running[r] = {}

Pooled == IsFiniteSet(Busy) /\ Cardinality(Busy) <= PoolSize

(***************************************************************************)
(* The inductive invariant.  HandlersAwaitQueries says nothing of queries  *)
(* that still wait when the process ends, which would take connections of  *)
(* the next one: Quiet does.  IInv adds that a query belongs to the plan   *)
(* of its request, and that a new request has none.                        *)
(***************************************************************************)
AInv == IInv /\ (\A r \in Req : Awaited(r)) /\ Quiet /\ Pooled

LEMMA InitAwaits == Init => AInv
<1> SUFFICES ASSUME Init PROVE AInv
  OBVIOUS
<1>1. \A r \in Req : Awaited(r)
  BY DEF Init, Awaited
<1>2. Quiet
  BY DEF Init, Quiet
<1>3. Busy = {}
  BY DEF Init, Busy
<1>4. Pooled
  BY <1>3, FS_EmptySet, ServerAssumption DEF Pooled
<1> QED
  BY <1>1, <1>2, <1>4, InitSound DEF AInv

(***************************************************************************)
(* A step that adds no query to those that run keeps within the pool.      *)
(***************************************************************************)
LEMMA PoolKept ==
  ASSUME Pooled, \A t \in Req : running'[t] \subseteq running[t]
  PROVE  Pooled'
<1>1. Busy' \in SUBSET Busy
  BY DEF Busy
<1>2. IsFiniteSet(Busy) /\ Cardinality(Busy) <= PoolSize
  BY DEF Pooled
<1>3. IsFiniteSet(Busy') /\ Cardinality(Busy') <= Cardinality(Busy)
  BY <1>1, <1>2, FS_Subset
<1>4. Cardinality(Busy) \in Nat /\ Cardinality(Busy') \in Nat
  BY <1>2, <1>3, FS_CardinalityType
<1> QED
  BY <1>2, <1>3, <1>4, ServerAssumption DEF Pooled

(***************************************************************************)
(* What is received is answered at once, or begins to wait for its plan.   *)
(***************************************************************************)
LEMMA ArrivalAwaits ==
  ASSUME AInv, NEW r \in Req, Arrival(r)
  PROVE  (\A t \in Req : Awaited(t)') /\ Quiet' /\ Pooled'
<1>1. PICK request : Receive(r, request)
  BY DEF Arrival, MalformedBody, Preflight, TooManyRequests, Limited, NotFound, Validate,
         CheckHealth, HandleCountries, Passed
<1>2. /\ phase' = "listening" /\ running' = running /\ got' = got
      /\ req' = [req EXCEPT ![r] = request]
  BY <1>1 DEF Receive, process
<1>3. Quiet' /\ Pooled'
  BY <1>2, PoolKept DEF Quiet, AInv
<1>4. CASE \E a : Reply(r, a) /\ UNCHANGED waiting
  <2>1. ASSUME NEW t \in Req PROVE Awaited(t)'
    BY <1>2, <1>4, <2>1 DEF Awaited, Reply, AInv, IInv, TypeOK
  <2> QED
    BY <2>1, <1>3
<1>5. CASE HandleCountries(r)
  <2>1. PICK kind \in {"countries", "countryByCode", "countryByCodeIso3"}, c \in Client :
          /\ Receive(r, [client |-> c, kind |-> kind])
          /\ pc' = [pc EXCEPT ![r] = "handler"]
          /\ waiting' = [waiting EXCEPT ![r] = Plan(kind)]
    BY <1>5 DEF HandleCountries, Passed
  <2>2. pc[r] = "new" /\ req' = [req EXCEPT ![r] = [client |-> c, kind |-> kind]]
    BY <2>1 DEF Receive
  <2>3. running[r] = {} /\ got[r] = {}
    BY <2>2, NoneAssumption DEF AInv, IInv, Sound, Stage, Planned
  <2>4. Plan(kind) # {}
    BY DEF Plan
  <2>5. req'[r].kind = kind /\ waiting'[r] = Plan(kind) /\ running'[r] = {} /\ got'[r] = {}
    BY <1>2, <2>1, <2>2, <2>3 DEF AInv, IInv, TypeOK
  <2>6. Awaited(r)'
    BY <2>4, <2>5 DEF Awaited
  <2>7. ASSUME NEW t \in Req, t # r PROVE Awaited(t)'
    BY <1>2, <2>1, <2>2, <2>7 DEF Awaited, AInv, IInv, TypeOK
  <2> QED
    BY <1>3, <2>6, <2>7
<1>6. HandleCountries(r) \/ \E a : Reply(r, a) /\ UNCHANGED waiting
  BY DEF Arrival, MalformedBody, Preflight, TooManyRequests, Limited, NotFound, Validate,
         CheckHealth, Throw
<1> QED
  BY <1>4, <1>5, <1>6

(***************************************************************************)
(* A query takes a connection only while there is one.                     *)
(***************************************************************************)
LEMMA TakingAwaits ==
  ASSUME AInv, NEW r \in Req, NEW q \in Query, TakeConnection(r, q)
  PROVE  (\A t \in Req : Awaited(t)') /\ Quiet' /\ Pooled'
<1>1. /\ q \in waiting[r] /\ Cardinality(Busy) < PoolSize
      /\ waiting' = [waiting EXCEPT ![r] = @ \ {q}]
      /\ running' = [running EXCEPT ![r] = @ \cup {q}]
      /\ UNCHANGED <<phase, req, pc, got>>
  BY DEF TakeConnection, process
<1>2. ASSUME NEW t \in Req PROVE Awaited(t)'
  <2>1. CASE t = r
    <3>1. waiting'[r] = waiting[r] \ {q} /\ running'[r] = running[r] \cup {q}
      BY <1>1 DEF AInv, IInv, TypeOK
    <3>2. Awaited(r)
      BY DEF AInv
    <3> QED
      BY <1>1, <2>1, <3>1, <3>2 DEF Awaited
  <2>2. CASE t # r
    BY <1>1, <2>2 DEF AInv, IInv, TypeOK, Awaited
  <2> QED
    BY <2>1, <2>2
<1>3. Quiet'
  BY <1>1 DEF AInv, Quiet
<1>4. Pooled'
  <2>1. Busy' = Busy \cup {<<r, q>>}
    BY <1>1 DEF Busy, AInv, IInv, TypeOK
  <2>2. IsFiniteSet(Busy) /\ Cardinality(Busy) \in Nat
    BY FS_CardinalityType DEF AInv, Pooled
  <2>3. /\ IsFiniteSet(Busy \cup {<<r, q>>})
        /\ Cardinality(Busy \cup {<<r, q>>}) \in {Cardinality(Busy), Cardinality(Busy) + 1}
    BY <2>2, FS_AddElement, Zenon
  <2>4. Cardinality(Busy') \in Nat
    BY <2>1, <2>3, FS_CardinalityType
  <2> QED
    BY <1>1, <2>1, <2>2, <2>3, <2>4, ServerAssumption DEF Pooled
<1> QED
  BY <1>2, <1>3, <1>4

(***************************************************************************)
(* The last query to return ends the wait; a failure ends it at once.      *)
(***************************************************************************)
LEMMA EndAwaits ==
  ASSUME AInv, NEW r \in Req, NEW q \in Query, QueryEnds(r, q)
  PROVE  (\A t \in Req : Awaited(t)') /\ Quiet' /\ Pooled'
<1>1. /\ q \in running[r]
      /\ running' = [running EXCEPT ![r] = @ \ {q}]
      /\ UNCHANGED <<phase, req, waiting>>
  BY DEF QueryEnds, QueryReturns, QueryFails, process
<1>2. running'[r] = running[r] \ {q}
  BY <1>1 DEF AInv, IInv, TypeOK
<1>3. \A t \in Req : running'[t] \subseteq running[t]
  BY <1>1 DEF AInv, IInv, TypeOK
<1>4. Quiet' /\ Pooled'
  BY <1>1, <1>3, PoolKept DEF AInv, Quiet
<1>5. ASSUME NEW t \in Req, t # r PROVE Awaited(t)'
  <2>1. pc'[t] = pc[t] /\ got'[t] = got[t] /\ running'[t] = running[t]
    BY <1>5 DEF QueryEnds, QueryReturns, QueryFails, Throw, Reply, AInv, IInv, TypeOK
  <2> QED
    BY <1>1, <1>5, <2>1 DEF AInv, Awaited
<1>6. ASSUME QueryReturns(r, q) PROVE Awaited(r)'
  <2>1. got'[r] = got[r] \cup {q}
    BY <1>6 DEF QueryReturns, AInv, IInv, TypeOK
  <2>2. CASE pc[r] = "handler" /\ got'[r] = Plan(req[r].kind)
    BY <1>6, <2>2 DEF QueryReturns, Reply, AInv, IInv, TypeOK, Awaited
  <2>3. CASE ~(pc[r] = "handler" /\ got'[r] = Plan(req[r].kind))
    <3>1. pc' = pc
      BY <1>6, <2>3 DEF QueryReturns
    <3>2. Awaited(r)
      BY DEF AInv
    <3> QED
      BY <1>1, <1>2, <2>1, <2>3, <3>1, <3>2 DEF Awaited
  <2> QED
    BY <2>2, <2>3
<1>7. ASSUME QueryFails(r, q) PROVE Awaited(r)'
  BY <1>7 DEF QueryFails, Throw, Reply, AInv, IInv, TypeOK, Awaited
<1>8. Awaited(r)'
  BY <1>6, <1>7 DEF QueryEnds
<1> QED
  BY <1>4, <1>5, <1>8

LEMMA ExitAwaits ==
  ASSUME AInv, NEW code, Exit(code)
  PROVE  (\A t \in Req : Awaited(t)') /\ Quiet' /\ Pooled'
<1>1. \A t \in Req : waiting'[t] = {} /\ running'[t] = {} /\ pc'[t] # "handler"
  BY DEF Exit, InHandler
<1> QED
  BY <1>1, PoolKept DEF AInv, Awaited, Quiet

LEMMA StepAwaits ==
  ASSUME AInv, [Next]_vars
  PROVE  AInv'
<1> DEFINE Kept == (\A t \in Req : Awaited(t)') /\ Quiet' /\ Pooled'
<1> SUFFICES Kept
  BY StepSound DEF AInv
<1>1. ASSUME NEW r \in Req, Arrival(r) PROVE Kept
  BY <1>1, ArrivalAwaits
<1>2. ASSUME NEW r \in Req, NEW q \in Query, TakeConnection(r, q) PROVE Kept
  BY <1>2, TakingAwaits
<1>3. ASSUME NEW r \in Req, NEW q \in Query, QueryReturns(r, q) \/ QueryFails(r, q) PROVE Kept
  BY <1>3, EndAwaits DEF QueryEnds
<1>4. CASE UNCHANGED <<queries, req, pc>> /\ (phase' = phase \/ phase # "listening")
  <2>1. (\A t \in Req : Awaited(t)') /\ Quiet'
    BY <1>4 DEF AInv, Awaited, Quiet, queries
  <2>2. Pooled'
    BY <1>4, PoolKept DEF AInv, queries
  <2> QED
    BY <2>1, <2>2
<1>5. CASE Disconnected \/ Crash \/ RunsDry
  BY <1>5, ExitAwaits DEF Disconnected, Crash, RunsDry
<1>6. CASE WindowEnds
  BY <1>4, <1>6 DEF WindowEnds, process
<1>7. CASE Listen
  BY <1>4, <1>7 DEF Listen
<1>8. CASE Signal
  BY <1>4, <1>8 DEF Signal
<1>9. CASE Restart
  BY <1>4, <1>9 DEF Restart
<1>10. CASE UNCHANGED vars
  BY <1>4, <1>10 DEF vars, queries
<1> QED
  BY <1>1, <1>2, <1>3, <1>5, <1>6, <1>7, <1>8, <1>9, <1>10 DEF Next

(***************************************************************************)
(* For any number of requests and connections: a handler that has not      *)
(* answered has a query that waits or runs and has lost none, no more      *)
(* connections are in use than there are, and a process that has ended     *)
(* leaves none in use to the next.                                         *)
(***************************************************************************)
THEOREM HandlersStayAwaited == Spec => []HandlersAwaitQueries
<1>1. Init => AInv
  BY InitAwaits
<1>2. AInv /\ [Next]_vars => AInv'
  BY StepAwaits
<1>3. AInv => HandlersAwaitQueries
  <2> SUFFICES ASSUME AInv PROVE HandlersAwaitQueries
    OBVIOUS
  <2>1. phase \in {"starting", "exited"} => Busy = {}
    BY DEF AInv, Quiet, Busy
  <2> QED
    BY <2>1 DEF AInv, Awaited, Pooled, HandlersAwaitQueries, InHandler
<1> QED
  BY <1>1, <1>2, <1>3, PTL DEF Spec
=============================================================================
