------------------------------- MODULE Server -------------------------------
(***************************************************************************)
(* The server process around the handlers: src/server.ts starts it, takes  *)
(* the signals and ends it, docker-compose.yml starts it again, app.ts     *)
(* leads each request through its middlewares, and the handlers that Auth  *)
(* leaves out, health and countries, run on a pool of connections.         *)
(*                                                                         *)
(* From the reading of a request's body to its handler nothing waits for   *)
(* anything outside the process (the limiter counts in memory), so the     *)
(* middlewares are one step.  A handler then waits for its queries; each   *)
(* query waits for a connection of the pool of its repository.             *)
(*                                                                         *)
(* The container is asked for a PrismaService by each repository and by    *)
(* server.ts, and makes a new one each time: gracefulShutdown disconnects  *)
(* a client that never ran a query.                                        *)
(***************************************************************************)
EXTENDS Errors, FiniteSets

CONSTANTS
  Req,          \* requests
  Client,       \* addresses, as the limiter tells clients apart
  None,
  Limit,        \* requests of one client in one window (100 in the code)
  PoolSize,     \* connections of a pool (10 in node-postgres)
  MaxFaults,    \* bound on failed calls and crashes
  MaxSignals,   \* bound on SIGINT and SIGTERM to one process
  MaxStarts     \* bound on restarts

ASSUME ServerAssumption ==
  /\ Limit \in Nat /\ PoolSize \in Nat \ {0}
  /\ MaxFaults \in Nat /\ MaxSignals \in Nat /\ MaxStarts \in Nat
  /\ None \notin AnswerSet

VARIABLES
  phase,      \* of the process
  announced,  \* it has logged 'Server is running'
  exitCode,
  signals,    \* calls of gracefulShutdown that wait for $disconnect
  owed,       \* history: the requests in handlers when the first signal came
  hits,       \* client -> what the limiter counted in this window
  req,        \* request -> what was asked, by whom
  pc,         \* request -> where it is
  waiting,    \* request -> its queries that wait for a connection
  running,    \* request -> its queries that hold one
  got,        \* request -> its queries that have returned
  answer,     \* request -> the answer of the server
  faults, starts

process == <<phase, announced, exitCode, signals, owed>>
queries == <<waiting, running, got>>
vars    == <<phase, announced, exitCode, signals, owed, hits, req, pc, waiting, running, got,
             answer, faults, starts>>

\* The queries of each handler; those of one handler run at the same time.
Served == {"healthCheck", "countries", "countryByCode", "countryByCodeIso3"}

Plan(kind) ==
  CASE kind = "healthCheck"       -> {}
    [] kind = "countries"         -> {"findMany", "count"}
    [] kind = "countryByCode"     -> {"findByCode"}
    [] kind = "countryByCodeIso3" -> {"findByCodeIso3"}

Query == {"findMany", "count", "findByCode", "findByCodeIso3"}

\* badCode: a country code that has not the length its schema asks for.
\* health: GET /api/health, which no router serves; unrouted: any other path.
\* malformed: a body that is not JSON; preflight: an OPTIONS request.
Kind == Served \cup {"badCode", "health", "unrouted", "malformed", "preflight"}

Request == [client : Client, kind : Kind]

ASSUME NoneAssumption == None \notin Request

TypeOK ==
  /\ phase \in {"starting", "listening", "unbound", "exited"}
  /\ announced \in BOOLEAN
  /\ exitCode \in {0, 1, None}
  /\ signals \in Nat /\ owed \subseteq Req
  /\ hits \in [Client -> Nat]
  /\ req \in [Req -> Request \cup {None}]
  /\ pc \in [Req -> {"new", "handler", "done", "lost"}]
  /\ waiting \in [Req -> SUBSET Query]
  /\ running \in [Req -> SUBSET Query]
  /\ got \in [Req -> SUBSET Query]
  /\ answer \in [Req -> AnswerSet \cup {None}]
  /\ faults \in Nat /\ starts \in Nat

InHandler == {r \in Req : pc[r] = "handler"}

Init ==
  /\ phase = "starting" /\ announced = FALSE /\ exitCode = None /\ signals = 0
  /\ owed = {}
  /\ hits = [c \in Client |-> 0]
  /\ req = [r \in Req |-> None]
  /\ pc = [r \in Req |-> "new"]
  /\ waiting = [r \in Req |-> {}]
  /\ running = [r \in Req |-> {}]
  /\ got = [r \in Req |-> {}]
  /\ answer = [r \in Req |-> None]
  /\ faults = 0 /\ starts = 0

Reply(r, a) == pc' = [pc EXCEPT ![r] = "done"] /\ answer' = [answer EXCEPT ![r] = a]

Throw(r, e) == Reply(r, ErrorMiddleware(e))

----------------------------------------------------------------------------
(* app.ts: the middlewares, in their order.                                *)

Receive(r, request) ==
  /\ phase = "listening"
  /\ pc[r] = "new"
  /\ req' = [req EXCEPT ![r] = request]
  /\ UNCHANGED <<process, running, got, faults, starts>>

\* body-parser comes before the limiter: such a request is not counted.
MalformedBody(r) ==
  \E c \in Client :
    /\ Receive(r, [client |-> c, kind |-> "malformed"])
    /\ Throw(r, LibraryError("SyntaxError", "plain"))
    /\ UNCHANGED <<hits, waiting>>

\* cors answers OPTIONS itself, also before the limiter.
Preflight(r) ==
  \E c \in Client :
    /\ Receive(r, [client |-> c, kind |-> "preflight"])
    /\ Reply(r, Answer(204, "OK", "SUCCESS", TRUE, FALSE))
    /\ UNCHANGED <<hits, waiting>>

\* A request that got as far as the limiter is counted.
Limited(r, kind) ==
  \E c \in Client :
    /\ Receive(r, [client |-> c, kind |-> kind])
    /\ hits' = [hits EXCEPT ![c] = @ + 1]
    /\ hits[c] >= Limit
    /\ Throw(r, RateLimitError)
    /\ UNCHANGED waiting

Passed(r, kind) ==
  \E c \in Client :
    /\ Receive(r, [client |-> c, kind |-> kind])
    /\ hits' = [hits EXCEPT ![c] = @ + 1]
    /\ hits[c] < Limit

CountedKinds == Kind \ {"malformed", "preflight"}

TooManyRequests(r) == \E kind \in CountedKinds : Limited(r, kind)

NotFound(r) ==
  \E kind \in {"health", "unrouted"} :
    Passed(r, kind) /\ Throw(r, NotFoundError("RESOURCE_NOT_FOUND")) /\ UNCHANGED waiting

Validate(r) ==
  Passed(r, "badCode") /\ Throw(r, ValidationError("VALIDATION_ERROR")) /\ UNCHANGED waiting

CheckHealth(r) ==
  Passed(r, "healthCheck") /\ Reply(r, OkAnswer) /\ UNCHANGED waiting

\* The handlers of countries ask for all their queries at once.
HandleCountries(r) ==
  \E kind \in {"countries", "countryByCode", "countryByCodeIso3"} :
    /\ Passed(r, kind)
    /\ pc' = [pc EXCEPT ![r] = "handler"]
    /\ waiting' = [waiting EXCEPT ![r] = Plan(kind)]
    /\ UNCHANGED answer

Arrival(r) ==
  \/ MalformedBody(r) \/ Preflight(r) \/ TooManyRequests(r)
  \/ NotFound(r) \/ Validate(r) \/ CheckHealth(r) \/ HandleCountries(r)

\* The limiter's window of a client ends.
WindowEnds ==
  \E c \in Client :
    /\ phase # "exited" /\ hits[c] > 0
    /\ hits' = [hits EXCEPT ![c] = 0]
    /\ UNCHANGED <<process, req, pc, queries, answer, faults, starts>>

----------------------------------------------------------------------------
(* The queries.                                                            *)

\* Mutant: a transaction, that keeps its connection until the handler ends.
BusyUntilAnswered ==
  {h \in Req \X Query : \/ h[2] \in running[h[1]]
                        \/ pc[h[1]] = "handler" /\ h[2] \in got[h[1]]}

Busy == {h \in Req \X Query : h[2] \in running[h[1]]}

TakeConnection(r, q) ==
  /\ q \in waiting[r]
  /\ Cardinality(Busy) < PoolSize
  /\ waiting' = [waiting EXCEPT ![r] = @ \ {q}]
  /\ running' = [running EXCEPT ![r] = @ \cup {q}]
  /\ UNCHANGED <<process, hits, req, pc, got, answer, faults, starts>>

\* Mutant: Promise.race for Promise.all.
QueryReturnsRace(r, q) ==
  /\ q \in running[r]
  /\ running' = [running EXCEPT ![r] = @ \ {q}]
  /\ got' = [got EXCEPT ![r] = @ \cup {q}]
  /\ IF pc[r] = "handler" THEN Reply(r, OkAnswer) ELSE UNCHANGED <<pc, answer>>
  /\ UNCHANGED <<process, hits, req, waiting, faults, starts>>

\* Promise.all is there when the last of them is.
QueryReturns(r, q) ==
  /\ q \in running[r]
  /\ running' = [running EXCEPT ![r] = @ \ {q}]
  /\ got' = [got EXCEPT ![r] = @ \cup {q}]
  /\ IF pc[r] = "handler" /\ got'[r] = Plan(req[r].kind)
     THEN Reply(r, OkAnswer)
     ELSE UNCHANGED <<pc, answer>>
  /\ UNCHANGED <<process, hits, req, waiting, faults, starts>>

\* Mutant: each failure is passed on.
QueryFailsAlways(r, q) ==
  /\ q \in running[r]
  /\ faults < MaxFaults
  /\ faults' = faults + 1
  /\ running' = [running EXCEPT ![r] = @ \ {q}]
  /\ \E e \in DbErrors : Throw(r, e)
  /\ UNCHANGED <<process, hits, req, waiting, got, starts>>

\* Mutant: a failure is logged, and the handler waits on.
QueryFailsQuietly(r, q) ==
  /\ q \in running[r]
  /\ faults < MaxFaults
  /\ faults' = faults + 1
  /\ running' = [running EXCEPT ![r] = @ \ {q}]
  /\ UNCHANGED <<process, hits, req, pc, waiting, got, answer, starts>>

\* The first failure rejects Promise.all and is answered; the other query
\* goes on, and its end, good or bad, is not looked at.
QueryFails(r, q) ==
  /\ q \in running[r]
  /\ faults < MaxFaults
  /\ faults' = faults + 1
  /\ running' = [running EXCEPT ![r] = @ \ {q}]
  /\ IF pc[r] = "handler" THEN \E e \in DbErrors : Throw(r, e) ELSE UNCHANGED <<pc, answer>>
  /\ UNCHANGED <<process, hits, req, waiting, got, starts>>

QueryEnds(r, q) == QueryReturns(r, q) \/ QueryFails(r, q)

----------------------------------------------------------------------------
(* server.ts: the life of the process.                                     *)

Up == phase # "exited"

\* app.listen: express calls the callback when the server listens, and also
\* with the error when the port cannot be had.
Listen ==
  /\ phase = "starting"
  /\ phase' \in {"listening", "unbound"}
  /\ announced' = TRUE
  /\ UNCHANGED <<exitCode, signals, owed, hits, req, pc, queries, answer, faults, starts>>

\* The process ends: its memory, its connections and the requests in its
\* handlers are gone.
Exit(code) ==
  /\ phase' = "exited"
  /\ exitCode' = code
  /\ signals' = 0 /\ owed' = {}
  /\ hits' = [c \in Client |-> 0]
  /\ pc' = [r \in Req |-> IF r \in InHandler THEN "lost" ELSE pc[r]]
  /\ waiting' = [r \in Req |-> {}]
  /\ running' = [r \in Req |-> {}]
  /\ UNCHANGED <<announced, req, got, answer>>

\* SIGINT or SIGTERM: gracefulShutdown begins.  It does not stop listening.
Signal ==
  /\ Up
  /\ signals < MaxSignals
  /\ signals' = signals + 1
  /\ owed' = IF signals = 0 THEN InHandler ELSE owed
  /\ UNCHANGED <<phase, announced, exitCode, hits, req, pc, queries, answer, faults, starts>>

\* Mutant: process.exit is forgotten.
DisconnectedOnly ==
  /\ Up /\ signals > 0
  /\ signals' \in 1 .. signals
  /\ UNCHANGED <<phase, announced, exitCode, owed, hits, req, pc, queries, answer, faults, starts>>

\* $disconnect has returned, or failed: process.exit.
Disconnected ==
  /\ Up /\ signals > 0
  /\ \/ Exit(0) /\ UNCHANGED faults
     \/ /\ faults < MaxFaults
        /\ faults' = faults + 1
        /\ Exit(1)
  /\ UNCHANGED starts

\* An uncaught exception or an unhandled rejection.
Crash ==
  /\ Up
  /\ faults < MaxFaults
  /\ faults' = faults + 1
  /\ Exit(1)
  /\ UNCHANGED starts

\* Without a socket nothing keeps the event loop going.
RunsDry ==
  /\ phase = "unbound" /\ signals = 0
  /\ Exit(0)
  /\ UNCHANGED <<faults, starts>>

\* restart: unless-stopped
Restart ==
  /\ phase = "exited"
  /\ starts < MaxStarts
  /\ starts' = starts + 1
  /\ phase' = "starting" /\ announced' = FALSE /\ exitCode' = None
  /\ UNCHANGED <<signals, owed, hits, req, pc, queries, answer, faults>>

----------------------------------------------------------------------------
Next ==
  \/ \E r \in Req :
       \/ Arrival(r)
       \/ \E q \in Query : TakeConnection(r, q) \/ QueryReturns(r, q) \/ QueryFails(r, q)
  \/ WindowEnds
  \/ Listen \/ Signal \/ Disconnected \/ Crash \/ RunsDry \/ Restart

Spec == Init /\ [][Next]_vars

\* The pool hands its connections out in the order they were asked for, a
\* query comes to an end, and $disconnect of an idle client returns.
FairSpec ==
  /\ Spec
  /\ \A r \in Req : /\ WF_vars(\E q \in Query : TakeConnection(r, q))
                    /\ WF_vars(\E q \in Query : QueryEnds(r, q))
  /\ WF_vars(Disconnected)

----------------------------------------------------------------------------
(* Properties.                                                             *)

\* A request is answered once.  The two queries of getAllCountries may both
\* fail, or one may fail after the other has already failed the request: what
\* comes after the answer changes nothing.
AnsweredOnce == [][\A r \in Req : answer[r] # None => answer'[r] = answer[r]]_vars

\* A list of countries is only sent when the rows and their count are both
\* there: no failed or outstanding query hides behind a 200.
OkIsComplete ==
  \A r \in Req :
    answer[r] = OkAnswer => req[r].kind \in Served /\ got[r] = Plan(req[r].kind)

\* A handler waits for nothing that does not come: as long as it has not
\* answered, each of its queries has returned, holds a connection or is in the
\* queue for one, and at least one of them is still to return.  If none can
\* have a connection, it is because others hold them all: what the answered,
\* failed and lost requests held comes back, and a new process starts with a
\* whole pool.
HandlersAwaitQueries ==
  /\ \A r \in InHandler :
       /\ got[r] \cup running[r] \cup waiting[r] = Plan(req[r].kind)
       /\ running[r] \cup waiting[r] # {}
       /\ running[r] \cap waiting[r] = {} /\ got[r] \cap (running[r] \cup waiting[r]) = {}
  /\ Cardinality(Busy) <= PoolSize
  /\ phase \in {"starting", "exited"} => Busy = {}

\* Every request that has reached its handler is answered, unless the process
\* ends, however few connections there are: a handler asks for two at once
\* and never waits for one while it keeps another, and a request that failed
\* gives back what it held.
RequestsSettle == \A r \in Req : pc[r] = "handler" ~> pc[r] # "handler"

\* A shutdown that has begun ends the process, whatever requests and queries
\* are under way and however many signals follow.
ShutdownEnds == signals > 0 ~> phase = "exited"

\* README.md: 'graceful shutdown'.  A process that ends with 0 after a signal
\* has answered the requests that its handlers held when the signal came.
GracefulShutdown == [][exitCode = None /\ exitCode' = 0 => owed \cap InHandler = {}]_vars

\* Dockerfile: the health check gets 200 from a server that serves (or is
\* told to come back later).
HealthCheckPasses ==
  \A r \in Req :
    answer[r] # None /\ req[r].kind = "health" => answer[r].statusCode \in {200, 429}

\* server.ts: a process that has logged 'Server is running on port' and has
\* not ended is listening there.
RunningMeansListening == announced /\ Up => phase = "listening"
=============================================================================
