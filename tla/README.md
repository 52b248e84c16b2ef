# TLA+ model of node-rag-system

The repository is an Express 5 / Prisma / PostgreSQL API server: accounts with JSON Web Tokens, a
table of countries, a health check, and adapters for mail, payments and uploads. This directory
holds a formal model of it: what the server does when requests interleave, calls fail, accounts
change under a handler, seeders fill the tables and the process is told to end; and what becomes of
a call to the mail, payment and storage services that fails before or after it took effect.

All paths below are relative to the repository. "Model-checked" means checked by TLC on the small
instance of a `.cfg`; "proved" means checked by TLAPS for every value of the constants.

## 1. Inventory

| Component | State | Operations | Hard behaviour | Makes it correct |
| --- | --- | --- | --- | --- |
| Authentication service (`src/modules/auth`) | none of its own; per request: the row read, the role id, the signed pair | `register`, `login`, `refreshToken`, `getCurrentUser` | two to five awaits per handler, three statements per look-up; other requests and operators change the rows in between | one account per name; no false conflict and no false refusal; tokens only for what was true during the request; every request answered; a registration is one step to its client, a log-in and a refresh are a decision and, later, its roles; a deactivated account is out in the life of a token |
| Account store (`auth.repository.ts`, `prisma/schema`) | tables `users`, `roles`, `user_role_mappings` | four look-ups, one nested create | check-then-insert races, look-ups torn between their statements, failures before and after the commit, cascades | unique indexes and foreign keys, and how their errors are reported |
| Tokens, passwords (`utils/auth`) | none (stateless tokens) | sign, verify, hash, compare | two secrets, two lives, a clock | access and refresh tokens are never taken for one another |
| Authentication middleware (`auth.middleware.ts`) | `req.user` | `authenticate` (also `optionalAuth`, `authorizeRoles`, unused) | synchronous throw against `next(error)` | bad token gives 401 |
| Error handling (`error.middleware.ts`, `prisma-error-handler.ts`, `utils/classes`) | none | error to answer | order of overlapping tests | own errors keep their status; an outage is not the client's fault |
| Server process (`server.ts`, `docker-compose.yml`) | the process | listen, SIGINT/SIGTERM, uncaught errors, restart | a shutdown among running requests; a port that is taken | shutdown ends; what it does to requests |
| Database client (`prisma.service.ts`, `ioc.config.ts`) | one connection pool per client | query, `$disconnect` | a bounded pool shared by concurrent queries | no request waits for ever, none for a query that does not come |
| Request pipeline (`app.ts`, `validate.middleware.ts`, `routes`) | none | static, body parser, cors, limiter, request id, routes, 404, errors | order | who is counted, who is answered what |
| Rate limiting (`rate-limit.middleware.ts`) | counters in memory | count, reset | lost with the process | - |
| Countries (`modules/country`) | none | list and count at once; two look-ups | `Promise.all` with one failure; a seeder between the list and its count | no partial 200, one answer; list and count of one time, no country of the file missing once seeded |
| Health (`modules/health`, `Dockerfile`) | none | `/check` | path agreed between two files | the container is healthy when it serves |
| Mail (`integrations/notification`) | none | `sendEmail`, `sendBulkEmails` (the latter has no caller) | failure before or after the mail was taken; a bulk call that stops half-way | a mail does not decide on a registration; a bulk call sends a prefix of its mails, in order and once each |
| Payments (`integrations/payment`) | none; money is at Stripe | `createPaymentIntent`, `refund`, `getPaymentIntent` (no caller) | units to hundredths, whatever the currency; an amount of 0; booked and reported failed | no text says; every failure is answered |
| Uploads (`integrations/upload`) | none; files are at Azure | `uploadFile`, `deleteFile`, `getSignedUrl` (no caller) | the container's name and the URL come from the same setting, one with a default and one without; an assigned domain | no text says; every failure is answered |
| Configuration (`config`) | read once | schema, secrets, lives, settings of the services | settings that may be absent | a service without its setting throws when it is made |
| Seeds (`prisma/seeds`) | the tables | look, then insert, row by row | two seeders at once, on a table the migration has filled; one that breaks or is killed half-way, its insert perhaps still under way, and is run again | exit 0 means seeded; somebody wins; a rerun mends |
| Common schemas, logging, API docs | none | - | - | - |

**How they interact.** `app.ts` leads each request through the middlewares to a router; the
router's handler is wrapped by `asyncHandler`, which hands a rejection to `errorMiddleware`.
Handlers call a service, services call a repository, repositories call Prisma. Requests share the
database, the limiter's counters, and the pool of their repository; they share no other memory.
`register` also waits for the mail server. Node runs one piece of JavaScript at a time, so all
interleaving happens at an `await`; the seeders are processes of their own on the same tables. The
container (`ioc.config.ts`) binds every class without a
scope: each `get()` makes a new object, so every repository has a Prisma client and pool of its
own, and `server.ts` another one that never runs a query.

## 2. Modules

| Module | Models | Extends |
| --- | --- | --- |
| `Errors` | error classes, `handlePrismaError`, `errorMiddleware` as a function from errors to answers | - |
| `ErrorHandling` | the middleware on every kind of error that can reach it | `Errors` |
| `Integrations` | the adapters for mail, payments and uploads, and the middleware on what they throw | `ErrorHandling` |
| `Jwt` | `generateTokens`, `verifyAccessToken`, `verifyRefreshToken` | `Errors` |
| `AuthRepository` | the tables, the repository's methods, the constraints, an operator's changes | `Errors` |
| `Auth` | the four handlers over the database, failures, crash, clock | `AuthRepository`, `Jwt` |
| `AccountRegistry` | abstract: what `register` promises, a registration as one step | - |
| `SessionRegistry` | abstract: what `login`, `refreshToken` and `/me` promise, a decision in one step and its roles in another | - |
| `AuthRegistry` | the refinement mappings from `Auth` to `AccountRegistry` and `SessionRegistry` | `Auth` |
| `Refusals` | `Auth` with a history of the accounts that lasted through a request | `Auth` |
| `Leases` | `Auth` with a history of when an account was last known to be active | `Auth` |
| `Server` | process, pipeline, limiter, countries, health, the pool | `Errors` |
| `Seed` | `prisma/seeds/seed-pg.js`, several runs of it | - |
| `CountryList` | the country service on the tables the seeders fill | `Seed`, `Errors` |
| `MCAuth`, `MCRefusals`, `MCLeases`, `MCSeed` | small instances | `AuthRegistry`, `Refusals`, `Leases`, `CountryList` |
| `ErrorsProofs` | which errors can be answered 200, and with what types | `Errors` |
| `AuthProofs` | `Auth`: types, unique accounts, warranted sessions | `Auth`, `ErrorsProofs` |
| `AnswerProofs` | `Auth`: honest conflicts, complete registrations, lineage of sessions | `AuthRegistry`, `AuthProofs` |
| `RegistryProofs` | `Auth` implements `AccountRegistry` and `SessionRegistry` | `AnswerProofs` |
| `HistoryProofs` | `Refusals`: honest refusals; `Leases`: the end of access | `Refusals`, `Leases`, `AnswerProofs` |
| `ServerProofs` | `Server`: types, whole lists, final answers, queries that are awaited | `Server`, `ErrorsProofs` |
| `IntegrationsProofs` | `Integrations`: the properties of the middleware and of the adapters | `Integrations`, `ErrorsProofs` |
| `SeedProofs` | `Seed` and `CountryList` | `CountryList`, `ErrorsProofs` |

Definitions named "Mutant" in a comment are wrong on purpose: each is a plausible mistake in the
code that the property it belongs to must notice. They take part in no specification.

### Auth: state and steps

`pc[r]` names the call that request `r` waits for: `"register.findByUsername"` is the `await` of
that name in `AuthService.register`, and so on. An action is the call taking effect plus the code
up to the next `await`. If that code signs tokens from a row, the signing is a step of its own
(`RegisterGenerateTokens`, `LoginVerifyPassword`, `RefreshGenerateTokens`), so that the row can change
between the read and the use.

`findByUsername`, `findByEmail` and `findByIdWithRoles` are three statements. They include
`userRoles` and their `role`; the schema does not turn on Prisma's relation joins, and the client opens
no transaction for a read, so it sends a SELECT to `users`, one to `user_role_mappings` and one to
`roles`, and anybody may write in between. `FindUser` is the first: `found[r]` is then the account
without roles. `FindUserRoles` is the second: the roles are added, as they are at that moment, and none
if the account has been deleted, with the id of the role USER. The third is part of the action that
goes on with the handler (`Returns`): it changes nothing if the role is there, and if the role was
dropped since, Prisma rejects the query (`RoleIsLost`). A row that is not there ends the look-up with
the first statement. So a row of one moment can come with the roles of another, and the properties
promise no more than that. The nested create of `createUser` is one transaction and one step.

| Action | Code |
| --- | --- |
| `ArriveX` | the controller up to the first await; for `/me` and `/refresh-token` with the verification of the token |
| `FindUser`, `FindUserRoles`, `RoleIsLost` | the SELECTs of a look-up, `auth.repository.ts:13-50` |
| `RegisterFindByUsername` ... `RegisterSendWelcomeEmail` | `auth.service.ts:42-84` |
| `LoginFindByUsername`, `LoginVerifyPassword`, `LoginFindByIdWithRoles` | `auth.service.ts:19-40`, `86-110` |
| `RefreshFindByIdWithRoles`, `RefreshGenerateTokens` | `auth.service.ts:153-179`, with its `catch` (`RefreshCatch`) |
| `MeFindByIdWithRoles` | `auth.service.ts:181-197` |
| `DbFails` | a rejected query; an insert may have taken effect before its reply was lost, or may still be under way (`adrift`) |
| `Crash` | `server.ts:27-40`; an insert that was sent is `adrift` |
| `Land` | the database ends an insert nobody waits for: it takes effect, or not |
| `Edit` | an operator: deactivate, delete, grant, revoke, drop the role USER, seed it again |
| `Tick` | time, for the expiry of tokens |

`seen[r]` is a history variable: every account row stored at some moment since `r` arrived. It lets
a property speak of what a handler *could* have known, without fixing when it looked.

### AccountRegistry, SessionRegistry and the refinements

`AccountRegistry` knows no look-ups and no awaits. A registration is asked for; in one step it is
created, if its name and address are free, or refused, if they are not; then it is confirmed, or the
refusal delivered. An error other than "already exists" promises nothing: the account may or may not
be there, or may be created later (`CreateLate`), and the code cannot do better (the reply to the insert
can be lost, the insert can outlive its connection, the mail can fail). `AuthRegistry` reads
the abstract state off the concrete one: the accounts are the rows of `users` without password and
roles (`AccountTable`), what a client asked for is in its request (`Wished`), and the status follows
from the call its handler waits for, what its look-up has found and its answer (`Progress`): `created`
from the insert to the end of the mail, `taken` when a look-up has found a row, `pending` before.
Log-ins, refreshes, `/me`, the clock, and an operator's change of roles or of `isActive` are stutters.
The step of a refusal is the SELECT that finds the name or the address, or the insert that violates
an index.

`SessionRegistry` is the same for the other three handlers, and there the accounts have passwords,
roles and `isActive`. A request is granted an account that is entitled at that moment (`Grant`), or
denied when no account is (`Deny`); the roles of the account are settled at one later moment (`Settle`),
as they are then, none if the account is gone. After that the accounts may change as they like, and what
is sent carries these claims. The SELECT from `users` of the first look-up decides, that from
`user_role_mappings` settles. `Confirm` and `Refuse` are the answer: of a log-in two awaits later, of a
refresh one step before or with the signing, of `/me` at once. `Withdraw` is what the second look-up of
a log-in adds: a 401 if the account is gone by then. The mapping reads the claims off the signed
tokens once there are any and off the held or half-read row before (`Claimed`), and the status off the
call, the look-up and the answer (`Stage`). A 401 with the code `INVALID_TOKEN` promises nothing
(`failed`): the `catch` of `refreshToken` gives it to failed calls too. That the decision and the roles
are one moment is *not* promised, and is false: an account can be deleted between the two statements,
and a refresh then signs no roles for an account that was active when it looked.

### Refusals

`lasting[r]` is the dual of `seen[r]`: the accounts stored unchanged at *every* moment since `r` arrived,
once with their roles and once without, so that a row whose roles changed has lasted without them.
`RefusalNext` conjoins its update to each step of `Auth` and constrains nothing. A 401 must not be given
to somebody whose account lasted. Two exceptions are in the code: the `catch` of `refreshToken` makes a
401 of a failed call, and of a role that was dropped between two statements of the look-up.

### Leases

`warm[u]` is the last moment at which the account `u` was stored and active, or a request then in
flight had seen it so (`seen`). Like the histories above it constrains nothing. `AccessEnds` measures
from it how long a token is of use: `authenticate` and `getCurrentUser` do not look at `isActive`, so
`/me` goes on to answer for an account that was deactivated, but for less than `AccessLife`, and a
refresh token is admitted for less than `RefreshLife`. The handlers in flight are part of the bound
because they have to be: one that read the row before the change signs tokens after it.

### Server: state and steps

From a request's body to its handler nothing waits for anything outside the process, so the
middlewares are one action per outcome (`MalformedBody`, `Preflight`, `TooManyRequests`,
`NotFound`, `Validate`, `CheckHealth`, `HandleCountries`), with the order of `app.ts` kept by what
each of them does before it answers: the body parser and cors answer before the limiter counts.
`waiting`, `running` and `got` hold the queries of a request that wait for a connection, hold one,
have returned. `phase`, `announced`, `exitCode`, `signals` are the process. `owed` is a history
variable: the requests in handlers when the first signal came.

### Integrations: state and steps

One call of one adapter, made by a handler that lets what it throws through to the middleware.
`env` is the set of settings that are given (an empty one counts as none, as the `||` and `!` of the
adapters do), `call` what was asked, `results` the results `sendBulkEmails` has pushed. The world
outside is kept apart from what the caller learns: `outbox` is what the mail server accepted,
`booked` what Stripe booked, `blobs` the containers of Azure; `reply`, `err` and `answer` are the
caller's side. `SendMail` is one turn of the loop of `smtp.adapter.ts`; `CreatePaymentIntent`,
`Refund`, `UploadFile` and `DeleteFile` take effect and then reply or throw, or throw alone. Amounts
are in thousandths of a unit of the currency. Stripe counts in the smallest coin, which is a hundredth
of a dollar but a whole yen: `Coins` is `Math.round(amount * 100)` whatever the currency is (either
neighbour half-way, where the binary fraction decides), `Worth` what those coins are worth in the
currency, `Told` the division by 100 of the reply. `Container` is where files are put, `UrlContainer`
where URLs lead: wherever the assigned domain points, or to a container of the default domain, or
nowhere.

### Seed and CountryList: state and steps

A run of the script walks `Walk`, the two roles and then the countries of its file. `Select` and
`Insert` are its two statements for a row; a row that came in between makes the insert fail on the
unique key, and the run exits with 1. `Break` rejects any call (an insert may have taken effect), `Kill`
ends the process; a statement that was sent may be under way still (`cut` after a broken connection,
`adrift` after a kill) until the server has done with it (`Land`). The table `countries` is not the
seeders' own: a migration of the repository puts 249 countries into it, and operators add others
(`Others`, `AddCountry`), so the tables hold anything at the start, and what a list promises is that no
country of the file is missing. `added`, `broken` and `alone` are history variables: the rows inserted
by seeders, the runs that met a failure, the runs that never shared their time with another. In
`CountryList` a request has its rows (`FindRows`) and their number (`CountRows`) from two statements in
either order, each from the table as it is then; `known` and `promised` record what was stored, and
whether some run had succeeded, when the request came.

### What the abstraction leaves out

- Messages and wording. Of an error message the code tests whether it contains "Invalid `"; that
  bit is kept.
- bcrypt is a hash equal to one password only (bcrypt itself looks at 72 bytes).
- The user and his role mappings are one row, which a look-up reads in two statements; an operator's
  edit changes the one or the other, and a deletion both, by the cascade. Of the table `roles` only the
  row USER comes and goes; a query that loses the role ADMIN is rejected the same way.
- Issuer, audience, `tokenId` and `username` of a token: the first two are equal on both sides,
  nothing compares the third, the fourth follows from the user id.
- The id of a new account is the id of the request, for a random uuid.
- Clients of `Auth` send requests that `validate()` has passed, tokens the server gave to some
  client, or tokens signed by somebody else for an account registered earlier.
- In `Auth` the pool of connections is not bounded; `Server` has the pool without the rows,
  `CountryList` the rows without the pool.
- A country's two codes go together: a row is its key. A seeder's row with one code taken and the
  other free would need a file that contradicts the table; the five rows of the file agree with the
  migration's. Nothing takes a country or, while seeders run, a role away.
- The keys of files, the bodies of mails and the text of a signature are left out of `Integrations`; a
  URL is the container it leads to, and two currencies stand for those with hundredths and those
  without.
- Static files, helmet headers, the request id and the docs router are left out of the pipeline.
- `RunsDry`: that a process without a socket ends is a fact of node's event loop (the limiter's
  timer does not keep it alive, no client has connected yet), not of the code.

## 3. Runs

| Run | Checks | Shows |
| --- | --- | --- |
| `errors` | `TypeOK`, `AppErrorsKeepTheirStatus`, `ConstraintErrorsAreClientErrors`, `BulkMailsInOrder` | the overlapping tests of the middleware are in an order that keeps the application's statuses and the constraints apart; what an adapter throws is answered, whatever had taken effect; a bulk call that stops has sent what came before |
| `errors_outage` | `OutageIsServerError` (fails) | an unreachable database is answered 400 |
| `auth_register` | `TypeOK`, `UniqueAccounts`, `ConflictIsHonest`, `RegistrationComplete`, `RegistersAtomically` | two requests of any kind at once, beside an account registered earlier, with a failure and two changes by an operator; `Auth` implements `AccountRegistry` |
| `auth_session` | `SessionsWarranted`, `SessionLineage`, `AccessEnds` | log-in, refresh, `/me` for an account that changes meanwhile: what is signed, for whom, and when it stops being of use |
| `auth_answered` | `RefusalsAreHonest`, `EveryRequestAnswered`, `SessionsDecideOnce` | no path of a handler ends without an answer, and none with a 401 for an account that was there all the time; `Auth` implements `SessionRegistry` |
| `auth_mail` | `MailIsOptional` (fails) | a failed mail turns a stored registration into a 500 |
| `auth_token` | `BadTokenIsUnauthorized` (fails) | a bad token at `/me` is a 500 |
| `server` | `TypeOK`, `OkIsComplete`, `HandlersAwaitQueries`, `AnsweredOnce`, `RequestsSettle`, `ShutdownEnds` | the countries on a pool, with failures, signals, crashes, a restart |
| `server_shutdown` | `GracefulShutdown` (fails) | exit 0 with a request in its handler |
| `server_health` | `HealthCheckPasses` (fails) | 404 to the container's health check |
| `server_listen` | `RunningMeansListening` (fails) | "Server is running" on a port that is taken |
| `seed` | `TypeOK`, `SuccessMeansSeeded`, `SomeRunSucceeds`, `RerunMends`, `RolesComeFirst`, `ListIsOfItsTime`, `SeededListIsComplete`, `SeedingCompletes` | two runs of the seeder and a request for countries, with broken and killed runs |

### Bounds, and why they are enough

- `auth_register` (3.8 million states): two requests and one account that both may run into. Two
  registrations make every race between look-up and insert; a registration and any other request make
  the rest. One fault and two edits: an insert that outlives its connection, and a name that is freed and
  taken, or a role that is dropped and seeded again, around it. All four handlers take part, and one tick,
  so that a registration is seen with a session of the account it makes.
- `auth_session` (0.6 million): one account with both roles, three requests: a log-in, a refresh with its
  token and a refresh or `/me` with that one's token is the chain `SessionLineage` speaks of. One edit, at
  any moment: between two statements of a look-up, between the look-up and the signing, before or after a
  token is used. The clock runs to 2 with lives 1 and 2, so that an access token expires before its
  refresh token, and both do: `AccessEnds` needs a token from before the deactivation to be sent after
  it, in time and too late. Without faults: a failed call signs nothing.
- `errors`: every error and every call, from every set of settings. Three mails make a first, a
  middle and a last one to fail; the amounts are nothing, less than half a coin, half a coin, less
  and more than a coin away from a boundary, the payment itself and more than it.
- `auth_answered` (0.8 million): two requests, every endpoint, one failure and one edit, no symmetry
  (one property is a liveness property). A refusal, and a decision that the answer must keep to, need
  one request and whoever changes the account meanwhile; passwords differ, so that a log-in can be
  denied. The clock stands still: `auth_session` has the expiry of tokens.
- `seed` (3.1 million): two runs, two roles, two countries of the file and one that is not in it, so
  that a run can lose on a role, on a country and on the last row; two faults, so that both can break;
  every contents of the tables at the start, which is what the migration and any number of earlier runs,
  finished or not, can have left.
- `server`: two requests and one connection, so that the four queries of two list requests compete;
  a limit of one request per window, so that the second one is refused or comes after the window;
  two faults for both queries of a handler; two signals; one restart.
- Requests are symmetric (no initial row belongs to one); symmetry is used for invariants, action
  properties and the refinement of `auth_register`, never for liveness.
- `CHECK_DEADLOCK FALSE` everywhere: a finite set of requests comes to an end.

### Fairness

`EveryRequestAnswered` assumes `WF(Handle(r))`: every awaited call comes back, with a result or an
error, and the event loop then runs the handler. nodemailer has time-outs of its own; **pg has none
as configured here** (`prisma.service.ts:10`), so for the database this is an assumption about the
environment. `RequestsSettle` assumes for each request that a query asking for a connection gets
one when one is free (`pg.Pool` serves its queue in order) and that a query ends. `ShutdownEnds`
assumes that `$disconnect` of a client that never connected returns. Nothing is assumed of
arrivals, failures, crashes, signals, operators, time or restarts. `SeedingCompletes` assumes
`WF(SeederStep(s))`: every statement of a seeder comes back. It does not assume that an operator
starts a run, nor that a broken one is run again.

## 4. Proofs

| Theorem | States |
| --- | --- |
| `AuthProofs!TypeCorrect` | `Spec => []TypeOK` |
| `AuthProofs!AccountsStayUnique` | `Spec => []UniqueAccounts` |
| `AuthProofs!SessionsStayWarranted` | `Spec => []SessionsWarranted` |
| `AnswerProofs!ConflictsStayHonest` | `Spec => []ConflictIsHonest` |
| `AnswerProofs!RegistrationsStayComplete` | `Spec => []RegistrationComplete` |
| `AnswerProofs!SessionsDescend` | `SecretsDiffer => (Spec => []SessionLineage)` |
| `RegistryProofs!RegisterIsAtomic` | `Spec => RegistersAtomically` |
| `RegistryProofs!SessionsDecidedOnce` | `Spec => SessionsDecideOnce` |
| `HistoryProofs!RefusalsStayHonest` | `RefusalSpec => []RefusalsAreHonest` |
| `HistoryProofs!AccessAlwaysEnds` | `SecretsDiffer => (LeaseSpec => AccessEnds)` |
| `ServerProofs!ServerTypeCorrect` | `Spec => []TypeOK` |
| `ServerProofs!OkStaysComplete` | `Spec => []OkIsComplete` |
| `ServerProofs!AnswersAreFinal` | `Spec => AnsweredOnce` |
| `ServerProofs!HandlersStayAwaited` | `Spec => []HandlersAwaitQueries` |
| `IntegrationsProofs!CallTypeCorrect` | `Spec => []TypeOK` |
| `IntegrationsProofs!AppErrorsAlwaysKeepTheirStatus` | `Spec => []AppErrorsKeepTheirStatus` |
| `IntegrationsProofs!ConstraintErrorsStayClientErrors` | `Spec => []ConstraintErrorsAreClientErrors` |
| `IntegrationsProofs!BulkMailsStayInOrder` | `Spec => []BulkMailsInOrder` |
| `SeedProofs!ListTypeCorrect` | `Spec => []TypeOK` |
| `SeedProofs!SuccessStaysSeeded` | `Spec => []SuccessMeansSeeded` |
| `SeedProofs!OneRunSucceeds` | `Spec => []SomeRunSucceeds` |
| `SeedProofs!RerunsMend` | `Spec => []RerunMends` |
| `SeedProofs!RolesStayFirst` | `Spec => []RolesComeFirst` |
| `SeedProofs!ListsStayOfTheirTime` | `Spec => []ListIsOfItsTime` |
| `SeedProofs!SeededListsStayComplete` | `Spec => []SeededListIsComplete` |

They hold for any set of requests, names, accounts and clients, any secrets, lives, limits and pool
sizes, any number of seeders and any file of countries without repetitions, any amounts and lengths of
bulk calls, under the named assumptions of the modules: the sets are what their comments say, `NoUser`
is no row, `None` is no answer, no request, no token, no pair of tokens and no row that was read or half
read (it stands for `undefined` and `null`), and the accounts that exist at the start are unique.

**Auth.** `TypeOK` is not inductive: a handler uses the fields of its request and the row it holds.
`Typed` adds `RequestOK`: the call a request waits for agrees with what it asked, where the code
signs or returns a row, it holds one, only a look-up is half done, and only a registration that has
ended is adrift. `UniqueAccounts` is inductive with that: the only step
that adds a row is guarded by the unique indexes, and an operator's changes never alter a name.
The look-ups of `register` play no part in the proof, which is the point: they cannot prevent a
duplicate. For `SessionsWarranted` the strengthening (`Warranted`) follows the two statements of a
look-up: the row without its roles is one of `seen`, and so are its roles if there are any, each in
its own (`Glimpsed`); the row a handler holds and signs from is active and, for a log-in, has the name;
and `seen` holds all that is stored, and only grows, while the request is in flight.

**Answers.** `Fresh` says that a request that has not arrived has left no trace, and that no row has the
id of a registration before its insert, so that a row with that id is the one it created. With it,
`Honest` ties a "409 already exists" to the row in `seen` it was found by, a registration past its
insert, and a mail that was taken, to its row in `seen`, and one past its signing to its pair. It also
says that a registration whose insert is adrift was told neither 200 nor 409. `Lineage` says that the
token a refresh or `/me` was admitted with is one the server has delivered, and that what is signed or
read for it belongs to the account of that token; its theorem alone assumes `SecretsDiffer` (access,
refresh and foreign secrets are three), because with one secret an access token passes for a refresh
token. `env.schema.ts` asks for two secrets and does not compare them.

**Registry.** The refinement is proved by step simulation: `Init` implies the abstract `Init` under
the mapping, and under `Typed`, `Fresh` and `Honest` every step of `Auth` is one abstract step or a
stutter. `RegisterMapped` has a case per call of the handler, `LookUpRegistering` one per statement of a
look-up: finding a row is `Refuse`, as the row has the name or the address asked for. The insert is
`Create` because the unique indexes are `~Taken`, and because `Fresh` says its id is in no row; a failed
insert that took effect is a `Fail` that inserts; one that lands later is `CreateLate`, as `Honest` says
that its client was told of a failure; a crash is `Die` for everybody at once.

**Sessions.** The second refinement is proved the same way, from `Typed`, `Fresh`, `UniqueAccounts` and
an invariant of its own, `Held`: until its deciding look-up has returned a handler holds neither row nor
tokens, so that its stage is that of the look-up (`DecidingStage`); before it signs it has no tokens and
an active row; and a log-in past its password has tokens with the claims of the row whose password was
compared. So signing and the last look-up of a log-in leave the claims of the mapping as they were
settled. `FindUserMapped` has the decision: the row found is the one account that can be entitled
(`EntitledByRow`, `OneMatches`), so it is `Grant` or, if its row says so, `Deny`; `FindUserRolesMapped`
has the settling. `UniqueAccounts` is needed for `Deny`: a row with another password says that *no*
account is entitled only if the name has one account. Registrations and operators are `Manage`; that
they never change a name or a password is a lemma of `AnswerProofs` (`AdministerRows`), and that a new
account has the id of nobody is `Fresh`.

**Refusals.** `lasting` is always part of what is stored, so if a lasting account is active with the
name of a log-in, each of its two look-ups meets a row of that name; by `UniqueAccounts` it is that
account's row, so what is found, and then held, has its id and password (`FoundLasts`, and the part of
`RequestRefusal` about `SessionChecks`), and no check can fail. For a refresh and `/me` the row is found
by its id. A query that rejects is not answered 401 (`StatusOfAnswers`, over the errors of `DbErrors`), except
that the `catch` of `refreshToken` makes a 401 of it. Two things reject: a failed call, which `faults`
counts, and a role lost between two statements. The latter cannot happen to an account that lasted with
its role USER: an account with that role keeps the role in its table (`RoleKept`, by the cascade), and
the role gets a new id only while it is missing (`RoleStep`), so the id that was read is still the id of
the role.

**Leases.** The inductive part is `Leased`: `warm` is never later than `now`, is `now` for the accounts
that are warm now, and each signed pair expires within its lives from the `warm` of its account
(`Expires`). The step that matters is a signing: the account must be warm at that moment whatever an
operator has done to its row, and it is, because by `Warranted` the row the handler holds is active
and in its own `seen` (`HeldIsWarm`); `TokensAreSigned` says that no other step signs. At the other
end (`AdmittedInTime`) a token that is admitted verifies, so it has not expired and, as the secrets
differ, is of the right kind in a pair the server has signed. With one secret a refresh token would
bring its longer life to `/me`.

**Server.** `IInv` adds to `TypeOK`, for each request: before it arrives it has no query and no
answer; in its handler it has no answer; a query that waits, runs or has returned is one its
handler asked for. The last part is what makes a query that ends after the answer harmless: it can
add nothing to a complete set. `AnsweredOnce` follows from the same invariant, because every step
that answers a request finds it new or in its handler. `HandlersAwaitQueries` is not inductive: it
says nothing of queries of answered requests, which hold connections, nor of those still waiting when
the process ends, which would take connections of the next one. `AInv` adds `IInv`, `Quiet` (no query
outside a listening process) and `Pooled` (`Busy` is finite and no larger than the pool). `TakeConnection`
is the only action that can make `Busy` larger, and it asks for a free connection. This is the safety
part of `RequestsSettle`: what is left to fairness is that queries come to their turn and end.

**Integrations.** `OutcomeInv` says that an error is one of those that can be thrown and an answer the
middleware's answer to it; the two properties of the middleware are then about one function, by cases
over the classes of errors. `WorldInv` relates the effects to the call: for mails, the outbox is
`1 .. results`, or one longer after a throw; of money and files it keeps the types: what is booked and told is
a natural number, and the reply names a container or says that there is none.

**Seeds.** `SeedInv` says that every row of `Walk` before a run's position is stored: nothing removes a
row, so exit 0 means all of them. `SomeRunSucceeds` needs a witness: as long as nothing is broken, some
run *leads* (`Led`): it has not failed and is past every row that was ever added. A run that inserts a
row becomes the leader: everything added before is behind it, since it found or inserted it. A leader is
never refused, because the row it is about to insert is not among those added and was not stored when it
looked; other countries, which operators add, are in nobody's walk. So when all have ended, the leader
has ended with 0. `Alone` says of a run without company that the row it is about to insert is still
missing. `ListInv` bounds the rows and the number of a list by what was stored at the arrival and what
is stored now; the two together, with `SuccessMeansSeeded`, give a list with every country of the file.
What is stored before the first run plays no part in any of these proofs.

**Errors.** `ErrorsProofs` shows that whatever is thrown gets an answer of the enumerations, and
`ErrorsAreNotOk` that none of the errors of the server is answered 200.

Only model-checked: the liveness properties `EveryRequestAnswered`, `RequestsSettle`, `ShutdownEnds`
and `SeedingCompletes`, which need fairness and are out of the prover's reach. The properties of the
failing runs are refuted, not proved.

## 5. Findings

1. **A mail decides on a registration** (`auth.service.ts:73`, run `auth_mail`). The welcome mail is
   awaited after the account is committed; if it fails, the client gets 500 and a retry gets 409.
   `.env.example:25` and `env.schema.ts:24` call SMTP optional.
2. **A bad token is a server error** (`error.middleware.ts:32`, run `auth_token`). `isPrismaError`
   accepts any error with a message, so the branches for `JsonWebTokenError` and
   `TokenExpiredError` (lines 49-60) are never reached.
3. **An outage is a bad request** (`prisma-error-handler.ts:34`, run `errors_outage`). The text of a
   failed query's message is tested before the names that mean a lost database.
4. **The graceful shutdown drops requests** (`server.ts:15`, run `server_shutdown`). It neither
   closes the listener nor waits, and disconnects a client nobody uses.
5. **The container is always unhealthy** (`health.routes.ts:11`, run `server_health`): the health
   check of the `Dockerfile` asks for `/api/health`, the router serves `/api/health/check`.
6. **A taken port is announced as running** (`server.ts:42`, run `server_listen`): express 5 passes
   the error to the listen callback, which ignores it.

Outside the runs, some things a reader of the code should know, on which no text of the repository says
what is meant. `azure.adapter.ts:23` puts files without a configured container into `uploads`, and line
24 then builds URLs with the name `undefined`; an assigned domain has to lead to the container by itself.
`stripe.adapter.ts:24` multiplies by 100 in every currency, a hundred times too much for one without
hundredths, and line 43 takes a refund of 0 for a refund of everything. `refreshToken` answers an outage
with 401. A look-up can combine an account with roles it never had at that moment, among them none.
`.env.example:33-34`, copied as `README.md:63` says, has two empty addresses that `env.schema.ts` does not
accept.

## 6. Not modelled, and why

- `optionalAuth`, `authorizeRoles`, `requireRole`, the two other limiters, `decodeToken`,
  `sendLoginNotification`, the pagination and other common schemas: nothing calls them, so there is
  no state or request they act on.
- `parseJwtExpiry`: its number is put into an answer that nothing in the repository reads, and no
  text says how it is counted.
- The check of the environment at the start: one pure test of a constant input that ends the
  process. The settings themselves are constants of `Jwt` and the variable `env` of `Integrations`.
- Logging and the API document: output only. Static files, helmet, the request id: headers.
- `seed.js`: the same walk as `seed-pg.js` through the Prisma client.
- The text of a signed URL's signature.

## 7. Plan

Done, in this order: the answers to errors (`Errors`, `ErrorHandling`); the core (`AuthRepository`,
`Jwt`, `Auth`); the process (`Server`); the abstract store and the refinement (`AccountRegistry`,
`AuthRegistry`); the seeders and what a reader sees of them (`Seed`, `CountryList`); the adapters
(`Integrations`); refusals (`Refusals`); sessions and the end of access (`SessionRegistry`,
`Leases`); and the proofs of every safety property that a passing run
checks.

Left, should the code come to need it:

1. The roles middleware, when a route uses it: what a token's roles allow after they were revoked.
2. Handlers for payments and uploads, when there are any: `Integrations` then needs what they store
   before and after the call, as `Auth` has it for the mail.
3. `Auth` on a bounded pool, if `register` is ever put into a transaction that holds a connection
   across its awaits; as it is, a handler holds at most one connection for one statement.
