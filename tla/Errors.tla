------------------------------- MODULE Errors -------------------------------
(***************************************************************************)
(* The errors of the application and the answer the global error           *)
(* middleware gives to each of them.  Pure operators: no state.            *)
(*                                                                         *)
(* An error is a record of what the code tests on it.  An AppError carries *)
(* its own status; any other error (Prisma, jsonwebtoken, Zod, body-parser,*)
(* nodemailer, node) has a name, a message, and a code only if the library *)
(* sets one.  Of a message the code looks at one thing: whether it contains*)
(* the text "Invalid `", which Prisma puts in front of the message of      *)
(* every failed query.  Such a message is the value "invalid"; any other   *)
(* is "plain".                                                             *)
(***************************************************************************)
EXTENDS Naturals

(***************************************************************************)
(* The error classes of src/utils/classes.                                 *)
(***************************************************************************)
AppErrorWith(statusCode, code, type, errors) ==
  [app |-> TRUE, name |-> "Error", message |-> "plain", statusCode |-> statusCode,
   code |-> code, type |-> type, isOperational |-> TRUE, errors |-> errors]

AppError(statusCode, code, type) == AppErrorWith(statusCode, code, type, FALSE)

UnauthorizedError(code)   == AppError(401, code, "AUTHENTICATION")
ForbiddenError(code)      == AppError(403, code, "AUTHORIZATION")
NotFoundError(code)       == AppError(404, code, "NOT_FOUND")
ConflictError(code)       == AppError(409, code, "CONFLICT")
InternalServerError(code) == AppError(500, code, "INTERNAL")

\* The only class that carries a list of field errors to the client.
ValidationError(code) == AppErrorWith(400, code, "VALIDATION", TRUE)

\* Thrown by the handlers of the rate limiters.
RateLimitError == AppError(429, "ERR_RATE_LIMIT_001", "RATE_LIMIT")

(***************************************************************************)
(* Errors of the libraries: with and without a code property.              *)
(***************************************************************************)
LibraryError(name, message) == [app |-> FALSE, name |-> name, message |-> message]

CodedError(name, code, message) ==
  [app |-> FALSE, name |-> name, message |-> message, code |-> code]

\* A query without a usable database: P1001 (no server) and P2024 (no free
\* connection) stand for a code prisma-error-handler.ts does not list and for
\* one it does.
DbErrors ==
  {CodedError("PrismaClientKnownRequestError", code, "invalid") : code \in {"P1001", "P2024"}}

(***************************************************************************)
(* src/utils/prisma-error-handler.ts                                       *)
(***************************************************************************)

\* The codes handlePrismaError recognises as request errors.  P1001 (no
\* server), P1017 (connection closed) and P2028 (transaction) are not there.
KnownRequestCodes ==
  {"P2000", "P2001", "P2002", "P2003", "P2004", "P2005", "P2006", "P2007",
   "P2008", "P2009", "P2010", "P2011", "P2012", "P2013", "P2014", "P2015",
   "P2016", "P2017", "P2018", "P2019", "P2020", "P2021", "P2022", "P2023",
   "P2024", "P2025", "P2026", "P2027", "P2030", "P2031", "P2033", "P2034"}

IsKnownRequestError(e) == "code" \in DOMAIN e /\ e.code \in KnownRequestCodes

IsPrismaValidationError(e) ==
  e.name = "PrismaClientValidationError" \/ e.message = "invalid"

\* 'code' in err || 'message' in err || ...: whatever has a message passes.
IsPrismaError(e) ==
  \/ "code" \in DOMAIN e
  \/ "message" \in DOMAIN e
  \/ e.name \in {"PrismaClientValidationError", "PrismaClientUnknownRequestError",
                 "PrismaClientInitializationError", "PrismaClientRustPanicError"}

\* Mutant: the case of a missing reference falls through to the next one.
HandleForeignKeyAsUnique(e) ==
  IF e.code \in {"P2002", "P2003"} THEN ConflictError("DB_UNIQUE_CONSTRAINT")
  ELSE InternalServerError("INTERNAL_ERROR")

HandleKnownPrismaError(e) ==
  CASE e.code = "P2002" -> ConflictError("DB_UNIQUE_CONSTRAINT")
    [] e.code = "P2025" -> NotFoundError("DB_RECORD_NOT_FOUND")
    [] e.code = "P2003" -> ConflictError("DB_FOREIGN_KEY_CONSTRAINT")
    [] e.code = "P2012" -> ValidationError("DB_VALIDATION_FAILED")
    [] OTHER            -> InternalServerError("INTERNAL_ERROR")

\* Mutant: the message is looked at before the code.
HandlePrismaMessageFirst(e) ==
  IF IsPrismaValidationError(e) THEN ValidationError("DB_VALIDATION_FAILED")
  ELSE IF IsKnownRequestError(e) THEN HandleKnownPrismaError(e)
  ELSE InternalServerError("INTERNAL_ERROR")

\* The tests are made in this order: the message is looked at before the
\* names of the three errors that mean a broken connection or engine.
HandlePrismaError(e) ==
  IF IsKnownRequestError(e) THEN HandleKnownPrismaError(e)
  ELSE IF IsPrismaValidationError(e) THEN ValidationError("DB_VALIDATION_FAILED")
  ELSE IF e.name = "PrismaClientRustPanicError" THEN InternalServerError("SERVICE_UNAVAILABLE")
  ELSE InternalServerError("INTERNAL_ERROR")

(***************************************************************************)
(* src/middleware/error.middleware.ts: the part of the answer that depends *)
(* on the error.  The branches are tried in the order of the code.         *)
(***************************************************************************)
Answer(statusCode, code, type, isOperational, errors) ==
  [statusCode |-> statusCode, code |-> code, type |-> type,
   isOperational |-> isOperational, errors |-> errors]

\* Mutant: code and type change places.
AnswerSwapped(appError) ==
  Answer(appError.statusCode, appError.type, appError.code,
         appError.isOperational, appError.errors)

AnswerOf(appError) ==
  Answer(appError.statusCode, appError.code, appError.type,
         appError.isOperational, appError.errors)

\* Mutant: Prisma errors are looked for before AppErrors.
ErrorMiddlewarePrismaFirst(e) ==
  IF IsPrismaError(e) THEN AnswerOf(HandlePrismaError(e)) ELSE AnswerOf(e)

ErrorMiddleware(e) ==
  IF e.app THEN AnswerOf(e)
  ELSE IF IsPrismaError(e) THEN AnswerOf(HandlePrismaError(e))
  ELSE IF e.name = "ZodError" THEN Answer(400, "VALIDATION_ERROR", "VALIDATION", FALSE, TRUE)
  ELSE IF e.name = "JsonWebTokenError"
       THEN Answer(401, "INVALID_TOKEN", "AUTHENTICATION", TRUE, FALSE)
  ELSE IF e.name = "TokenExpiredError"
       THEN Answer(401, "TOKEN_EXPIRED", "AUTHENTICATION", TRUE, FALSE)
  ELSE Answer(500, "INTERNAL_ERROR", "INTERNAL", FALSE, FALSE)

\* The answer of a handler that returns: ok() of src/utils/api-response.ts.
OkAnswer == Answer(200, "OK", "SUCCESS", TRUE, FALSE)

\* The codes and types an answer may carry (src/utils/enums), by the names of
\* the enumerations.
Codes == {"OK", "VALIDATION_ERROR", "UNAUTHORIZED", "TOKEN_EXPIRED", "INVALID_TOKEN",
          "INVALID_CREDENTIALS", "USER_NOT_FOUND", "FORBIDDEN", "INSUFFICIENT_PERMISSIONS",
          "RESOURCE_NOT_FOUND", "RECORD_CONFLICT", "DB_UNIQUE_CONSTRAINT",
          "DB_FOREIGN_KEY_CONSTRAINT", "DB_RECORD_NOT_FOUND", "DB_VALIDATION_FAILED",
          "INTERNAL_ERROR", "SERVICE_UNAVAILABLE", "ERR_RATE_LIMIT_001"}

Types == {"SUCCESS", "VALIDATION", "AUTHENTICATION", "AUTHORIZATION", "NOT_FOUND", "CONFLICT",
          "INTERNAL", "RATE_LIMIT"}

AnswerSet == [statusCode : Nat, code : Codes, type : Types,
              isOperational : BOOLEAN, errors : BOOLEAN]
=============================================================================
