--------------------------- MODULE ErrorHandling ---------------------------
(***************************************************************************)
(* The global error middleware on every kind of error that reaches it: the *)
(* handler of a request fails with an error and the middleware, last in    *)
(* app.ts, answers.  Auth and Server use the same operators inside their   *)
(* handlers.                                                               *)
(***************************************************************************)
EXTENDS Errors

VARIABLES
  err,      \* the error passed to next(), or NoError
  answer    \* the answer of the request, or NoAnswer

errorVars == <<err, answer>>

NoError == LibraryError("none", "plain")

NoAnswer == [statusCode |-> 0]

AppErrors ==
  {UnauthorizedError(code) : code \in {"UNAUTHORIZED", "INVALID_TOKEN", "INVALID_CREDENTIALS",
                                       "USER_NOT_FOUND"}}
    \cup {ForbiddenError(code) : code \in {"FORBIDDEN", "INSUFFICIENT_PERMISSIONS"}}
    \cup {NotFoundError("RESOURCE_NOT_FOUND"), ConflictError("RECORD_CONFLICT"),
          InternalServerError("INTERNAL_ERROR"), ValidationError("VALIDATION_ERROR"),
          RateLimitError}

\* A failed query: no server, a closed connection, a transaction that could
\* not start, and every code the handler lists.  On a terminal with colours
\* Prisma puts an escape sequence between "Invalid " and the quote, so the
\* text is not found and the message counts as plain.
RequestErrorCodes == KnownRequestCodes \cup {"P1001", "P1017", "P2028", "P2037"}

QueryErrors ==
  {CodedError("PrismaClientKnownRequestError", code, message) :
     code \in RequestErrorCodes, message \in {"invalid", "plain"}}

EngineErrors ==
  {LibraryError(name, message) :
     name \in {"PrismaClientValidationError", "PrismaClientUnknownRequestError",
               "PrismaClientInitializationError", "PrismaClientRustPanicError"},
     message \in {"invalid", "plain"}}

\* jsonwebtoken, Zod, body-parser, nodemailer, Stripe, Azure, the network, a
\* bug, a service that is not configured.
OtherErrors ==
  {LibraryError(name, "plain") :
     name \in {"JsonWebTokenError", "TokenExpiredError", "ZodError", "SyntaxError", "TypeError",
              "Error"}}
    \cup {CodedError("Error", code, "plain") : code \in {"ESOCKET", "EAUTH", "ECONNREFUSED"}}
    \cup {CodedError("StripeInvalidRequestError", "charge_already_refunded", "plain"),
          CodedError("RestError", "BlobNotFound", "plain")}

Thrown == AppErrors \cup QueryErrors \cup EngineErrors \cup OtherErrors

ErrorInit == err = NoError /\ answer = NoAnswer

\* A handler throws or its promise is rejected; asyncHandler passes it on.
Fail ==
  /\ err = NoError /\ answer = NoAnswer
  /\ err' \in Thrown
  /\ UNCHANGED answer

Handle ==
  /\ err # NoError /\ answer = NoAnswer
  /\ answer' = ErrorMiddleware(err)
  /\ UNCHANGED err

ErrorNext == Fail \/ Handle

ErrorSpec == ErrorInit /\ [][ErrorNext]_errorVars

ErrorTypeOK == err \in Thrown \cup {NoError} /\ answer \in AnswerSet \cup {NoAnswer}

Answered == answer # NoAnswer

(***************************************************************************)
(* An error the application threw on purpose is answered with its own      *)
(* status and code.  isPrismaError accepts anything that has a message or a*)
(* code, AppErrors included: only the order of the two tests keeps the 400,*)
(* 401, 403, 404, 409 and 429 of the application from becoming 500.        *)
(***************************************************************************)
AppErrorsKeepTheirStatus ==
  Answered /\ err.app => answer.statusCode = err.statusCode /\ answer.code = err.code

(***************************************************************************)
(* A violated constraint or a missing record is the client's to mend, and  *)
(* is answered 409 or 404.  The message of such an error also contains the *)
(* text by which the handler tells a malformed query (400): only the order *)
(* of the tests tells a lost race for a username from a bad request.       *)
(***************************************************************************)
QueryError(code) == Answered /\ "code" \in DOMAIN err /\ err.code = code

ConstraintErrorsAreClientErrors ==
  /\ QueryError("P2002") \/ QueryError("P2003") => answer.statusCode = 409
  /\ QueryError("P2025") => answer.statusCode = 404

(***************************************************************************)
(* handlePrismaError has a branch of its own for a client that cannot be   *)
(* initialised and one for a panic of the engine; both answer 'Database    *)
(* connection failed' as an InternalServerError: a database that cannot be *)
(* reached is a fault of the server, never a bad request.                  *)
(***************************************************************************)
Unreachable(e) ==
  \/ e.name \in {"PrismaClientInitializationError", "PrismaClientRustPanicError"}
  \/ "code" \in DOMAIN e /\ e.code \in {"P1001", "P1017"}

OutageIsServerError == Answered /\ Unreachable(err) => answer.statusCode >= 500
=============================================================================
