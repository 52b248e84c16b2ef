------------------------- MODULE IntegrationsProofs -------------------------
(***************************************************************************)
(* Theorems about the error middleware and the adapters of the outside     *)
(* services, for any number of mails, any amounts and any payment.         *)
(***************************************************************************)
EXTENDS Integrations, ErrorsProofs, SequenceTheorems

----------------------------------------------------------------------------
(* What is thrown and how it is answered.                                  *)

LEMMA AppErrorFacts ==
  ASSUME NEW e \in AppErrors
  PROVE  /\ e.app = TRUE /\ ErrorMiddleware(e) \in AnswerSet
         /\ ErrorMiddleware(e).statusCode = e.statusCode /\ ErrorMiddleware(e).code = e.code
         /\ e.code \in Codes \ {"OK"}
<1>1. ASSUME NEW statusCode \in Nat, NEW code \in Codes, NEW type \in Types, NEW errors \in BOOLEAN,
             e = AppErrorWith(statusCode, code, type, errors)
      PROVE  /\ e.app = TRUE /\ ErrorMiddleware(e) \in AnswerSet /\ e.code = code
             /\ ErrorMiddleware(e).statusCode = e.statusCode /\ ErrorMiddleware(e).code = e.code
  BY <1>1 DEF AppErrorWith, ErrorMiddleware, AnswerOf, Answer, AnswerSet
<1>2. ASSUME NEW statusCode \in Nat, NEW code \in Codes \ {"OK"}, NEW type \in Types,
             e = AppError(statusCode, code, type)
      PROVE  \E errors \in BOOLEAN : e = AppErrorWith(statusCode, code, type, errors)
  BY <1>2 DEF AppError
<1>3. \E statusCode \in Nat, code \in Codes \ {"OK"}, type \in Types, errors \in BOOLEAN :
        e = AppErrorWith(statusCode, code, type, errors)
  <2>1. CASE \E code \in {"UNAUTHORIZED", "INVALID_TOKEN", "INVALID_CREDENTIALS", "USER_NOT_FOUND"} :
               e = UnauthorizedError(code)
    BY <1>2, <2>1 DEF UnauthorizedError, Codes, Types
  <2>2. CASE \E code \in {"FORBIDDEN", "INSUFFICIENT_PERMISSIONS"} : e = ForbiddenError(code)
    BY <1>2, <2>2 DEF ForbiddenError, Codes, Types
  <2>3. CASE e = NotFoundError("RESOURCE_NOT_FOUND")
    BY <1>2, <2>3 DEF NotFoundError, Codes, Types
  <2>4. CASE e = ConflictError("RECORD_CONFLICT")
    BY <1>2, <2>4 DEF ConflictError, Codes, Types
  <2>5. CASE e = InternalServerError("INTERNAL_ERROR")
    BY <1>2, <2>5 DEF InternalServerError, Codes, Types
  <2>6. CASE e = ValidationError("VALIDATION_ERROR")
    <3>1. e = AppErrorWith(400, "VALIDATION_ERROR", "VALIDATION", TRUE)
      BY <2>6 DEF ValidationError
    <3>2. 400 \in Nat /\ "VALIDATION_ERROR" \in Codes \ {"OK"} /\ "VALIDATION" \in Types
      BY DEF Codes, Types
    <3> QED
      BY <3>1, <3>2
  <2>7. CASE e = RateLimitError
    BY <1>2, <2>7 DEF RateLimitError, Codes, Types
  <2> QED
    BY <2>1, <2>2, <2>3, <2>4, <2>5, <2>6, <2>7 DEF AppErrors
<1> QED
  BY <1>1, <1>3

LEMMA OtherErrorFacts ==
  ASSUME NEW e \in QueryErrors \cup EngineErrors \cup OtherErrors
  PROVE  e.app = FALSE /\ ErrorMiddleware(e) \in AnswerSet /\ e # NoError
<1>1. e.app = FALSE /\ e.name # "none"
  <2>1. ASSUME NEW name, NEW message, NEW code, e = CodedError(name, code, message)
        PROVE  e.app = FALSE /\ e.name = name
    BY <2>1 DEF CodedError
  <2>2. ASSUME NEW name, NEW message, e = LibraryError(name, message)
        PROVE  e.app = FALSE /\ e.name = name
    BY <2>2 DEF LibraryError
  <2>3. CASE e \in QueryErrors
    <3>1. PICK code, message : e = CodedError("PrismaClientKnownRequestError", code, message)
      BY <2>3 DEF QueryErrors
    <3>2. e.name = "PrismaClientKnownRequestError" /\ e.app = FALSE
      BY <2>1, <3>1
    <3> QED
      BY <3>2
  <2>4. CASE e \in EngineErrors
    <3>1. PICK name \in {"PrismaClientValidationError", "PrismaClientUnknownRequestError",
                        "PrismaClientInitializationError", "PrismaClientRustPanicError"} :
            \E message : e = LibraryError(name, message)
      BY <2>4 DEF EngineErrors
    <3> QED
      BY <2>2, <3>1
  <2>5. CASE e \in OtherErrors
    <3>1. \/ \E name \in {"JsonWebTokenError", "TokenExpiredError", "ZodError", "SyntaxError",
                          "TypeError", "Error"} : e = LibraryError(name, "plain")
          \/ \E name \in {"Error", "StripeInvalidRequestError", "RestError"} : \E code :
                e = CodedError(name, code, "plain")
      BY <2>5 DEF OtherErrors
    <3>2. CASE \E name \in {"JsonWebTokenError", "TokenExpiredError", "ZodError", "SyntaxError",
                           "TypeError", "Error"} : e = LibraryError(name, "plain")
      BY <2>2, <3>2
    <3>3. CASE \E name \in {"Error", "StripeInvalidRequestError", "RestError"} : \E code :
                 e = CodedError(name, code, "plain")
      BY <2>1, <3>3
    <3> QED
      BY <3>1, <3>2, <3>3
  <2> QED
    BY <2>3, <2>4, <2>5
<1>2. NoError.name = "none"
  BY DEF NoError, LibraryError
<1> QED
  BY <1>1, <1>2, LibraryErrorAnswered

LEMMA ThrownFacts ==
  ASSUME NEW e \in Thrown
  PROVE  e # NoError /\ ErrorMiddleware(e) \in AnswerSet
<1>1. NoError.app = FALSE
  BY DEF NoError, LibraryError
<1>2. CASE e \in AppErrors
  BY <1>1, <1>2, AppErrorFacts
<1>3. CASE e \in QueryErrors \cup EngineErrors \cup OtherErrors
  BY <1>3, OtherErrorFacts
<1> QED
  BY <1>2, <1>3 DEF Thrown

LEMMA AnswerFacts ==
  /\ NoAnswer \notin AnswerSet /\ OkAnswer \in AnswerSet
  /\ \A e \in Thrown : ErrorMiddleware(e) # NoAnswer
<1>1. \A a \in AnswerSet : DOMAIN a = {"statusCode", "code", "type", "isOperational", "errors"}
  BY DEF AnswerSet
<1>2. DOMAIN NoAnswer = {"statusCode"}
  BY DEF NoAnswer
<1>3. NoAnswer \notin AnswerSet
  BY <1>1, <1>2
<1> QED
  BY <1>3, OkAnswerType, ThrownFacts

LEMMA ConstraintFacts ==
  ASSUME NEW e \in Thrown, "code" \in DOMAIN e
  PROVE  /\ e.code \in {"P2002", "P2003"} => ErrorMiddleware(e).statusCode = 409
         /\ e.code = "P2025" => ErrorMiddleware(e).statusCode = 404
<1>1. CASE e \in AppErrors
  BY <1>1, AppErrorFacts DEF Codes
<1>2. CASE e \notin AppErrors
  <2>1. e.app = FALSE
    BY <1>2, OtherErrorFacts DEF Thrown
  <2>2. ASSUME e.code \in {"P2002", "P2003", "P2025"}
        PROVE  ErrorMiddleware(e) = AnswerOf(HandleKnownPrismaError(e))
    BY <2>1, <2>2 DEF ErrorMiddleware, IsPrismaError, HandlePrismaError, IsKnownRequestError,
                      KnownRequestCodes
  <2>3. ASSUME e.code \in {"P2002", "P2003"}
        PROVE  HandleKnownPrismaError(e).statusCode = 409
    BY <2>3 DEF HandleKnownPrismaError, ConflictError, AppError, AppErrorWith
  <2>4. ASSUME e.code = "P2025"
        PROVE  HandleKnownPrismaError(e).statusCode = 404
    BY <2>4 DEF HandleKnownPrismaError, NotFoundError, AppError, AppErrorWith
  <2> QED
    BY <2>2, <2>3, <2>4 DEF AnswerOf, Answer
<1> QED
  BY <1>1, <1>2

----------------------------------------------------------------------------
(* One answer for one outcome.                                             *)

Outcome ==
  \/ answer = NoAnswer /\ reply = NoReply
  \/ err = NoError /\ reply # NoReply /\ answer = OkAnswer
  \/ err # NoError /\ reply = NoReply /\ answer = ErrorMiddleware(err)

OutcomeInv ==
  /\ err \in Thrown \cup {NoError}
  /\ Outcome
  /\ call = NoCall => reply = NoReply

LEMMA AdapterErrorsThrown ==
  /\ MailErrors \cup StripeErrors \cup AzureErrors \subseteq Thrown
  /\ LibraryError("Error", "plain") \in Thrown
  BY DEF MailErrors, StripeErrors, AzureErrors, Thrown, OtherErrors

LEMMA RepliesAreReplies ==
  /\ \A n : [results |-> n] # NoReply /\ [amount |-> n] # NoReply /\ [container |-> n] # NoReply
<1>1. DOMAIN NoReply = {"op"}
  BY DEF NoReply
<1> QED
  BY <1>1

(***************************************************************************)
(* What a call of an adapter does to the request: nothing yet, a reply, or *)
(* an error.                                                               *)
(***************************************************************************)
AdapterEffect ==
  /\ call' = call /\ call # NoCall /\ err = NoError /\ reply = NoReply
  /\ \/ UNCHANGED <<err, answer, reply>>
     \/ \E value : value # NoReply /\ Reply(value)
     \/ \E e \in Thrown : Throw(e)

AdapterStep ==
  \/ SendMail \/ ReturnResults
  \/ CreatePaymentIntent \/ Refund \/ GetPaymentIntent
  \/ UploadFile \/ DeleteFile \/ GetSignedUrl

LEMMA AdapterEffects == AdapterStep => AdapterEffect
<1> SUFFICES ASSUME AdapterStep
             PROVE  AdapterEffect
  OBVIOUS
<1>1. ASSUME NEW op, op # "none", Called(op)
      PROVE  call # NoCall /\ err = NoError /\ reply = NoReply
  BY <1>1 DEF Called, NoCall
<1>2. CASE SendMail
  BY <1>1, <1>2, AdapterErrorsThrown DEF SendMail, AdapterEffect
<1>3. CASE ReturnResults
  BY <1>1, <1>3, RepliesAreReplies DEF ReturnResults, AdapterEffect
<1>4. ASSUME NEW coins, Book(coins)
      PROVE  (\E value : value # NoReply /\ Reply(value)) \/ \E e \in Thrown : Throw(e)
  BY <1>4, AdapterErrorsThrown, RepliesAreReplies DEF Book, Told
<1>5. Declined => \E e \in Thrown : Throw(e)
  BY AdapterErrorsThrown DEF Declined
<1>6. CASE CreatePaymentIntent
  BY <1>1, <1>4, <1>5, <1>6 DEF CreatePaymentIntent, AdapterEffect
<1>7. CASE Refund
  BY <1>1, <1>4, <1>5, <1>7 DEF Refund, AdapterEffect
<1>8. CASE GetPaymentIntent
  BY <1>1, <1>8, AdapterErrorsThrown, RepliesAreReplies DEF GetPaymentIntent, AdapterEffect, Told
<1>9. AzureFails => \E e \in Thrown : Throw(e)
  BY AdapterErrorsThrown DEF AzureFails
<1>10. CASE UploadFile
  BY <1>1, <1>9, <1>10, RepliesAreReplies DEF UploadFile, AdapterEffect
<1>11. CASE DeleteFile
  BY <1>1, <1>9, <1>11, RepliesAreReplies DEF DeleteFile, AdapterEffect
<1>12. CASE GetSignedUrl
  BY <1>1, <1>12, AdapterErrorsThrown, RepliesAreReplies DEF GetSignedUrl, AdapterEffect
<1> QED
  BY <1>2, <1>3, <1>6, <1>7, <1>8, <1>10, <1>11, <1>12 DEF AdapterStep

LEMMA InitOutcome == Init => OutcomeInv
  BY DEF Init, ErrorInit, OutcomeInv, Outcome

LEMMA NextOutcome == OutcomeInv /\ [Next]_vars => OutcomeInv'
<1> SUFFICES ASSUME OutcomeInv, [Next]_vars
             PROVE  OutcomeInv'
  OBVIOUS
<1>0. \A e \in Thrown : e # NoError
  BY ThrownFacts
<1>1. CASE UNCHANGED vars
  BY <1>1 DEF vars, callVars, OutcomeInv, Outcome
<1>2. CASE ErrorNext /\ (call = NoCall \/ err # NoError) /\ UNCHANGED callVars
  <2>1. CASE Fail
    BY <1>0, <1>2, <2>1 DEF Fail, callVars, OutcomeInv, Outcome
  <2>2. CASE Handle
    BY <1>2, <2>2 DEF Handle, callVars, OutcomeInv, Outcome
  <2> QED
    BY <1>2, <2>1, <2>2 DEF ErrorNext
<1>3. CASE Call
  <2>1. call = NoCall /\ err = NoError /\ reply = NoReply /\ answer = NoAnswer
    BY <1>3 DEF Call, OutcomeInv, Outcome
  <2>2. UNCHANGED <<err, answer, reply>> \/ Throw(LibraryError("Error", "plain"))
    BY <1>3 DEF Call
  <2>3. CASE UNCHANGED <<err, answer, reply>>
    BY <2>1, <2>3 DEF OutcomeInv, Outcome
  <2>4. CASE Throw(LibraryError("Error", "plain"))
    BY <1>0, <2>1, <2>4, AdapterErrorsThrown DEF Throw, OutcomeInv, Outcome
  <2> QED
    BY <2>2, <2>3, <2>4
<1>4. CASE AdapterStep
  <2>1. AdapterEffect /\ answer = NoAnswer
    BY <1>4, AdapterEffects DEF AdapterEffect, OutcomeInv, Outcome
  <2>2. CASE UNCHANGED <<err, answer, reply>>
    BY <2>1, <2>2 DEF AdapterEffect, OutcomeInv, Outcome
  <2>3. CASE \E value : value # NoReply /\ Reply(value)
    BY <2>1, <2>3 DEF AdapterEffect, Reply, OutcomeInv, Outcome
  <2>4. CASE \E e \in Thrown : Throw(e)
    BY <1>0, <2>1, <2>4 DEF AdapterEffect, Throw, OutcomeInv, Outcome
  <2> QED
    BY <2>1, <2>2, <2>3, <2>4 DEF AdapterEffect
<1> QED
  BY <1>1, <1>2, <1>3, <1>4 DEF Next, AdapterStep

LEMMA OutcomeHolds == Spec => []OutcomeInv
  BY InitOutcome, NextOutcome, PTL DEF Spec

LEMMA OkAnswerIsNoError == OutcomeInv /\ Answered /\ err # NoError => err \in Thrown /\ answer = ErrorMiddleware(err)
  BY DEF OutcomeInv, Outcome, Answered

(***************************************************************************)
(* An error of the application is answered with its own status and code    *)
(* (error.middleware.ts:22-31).                                            *)
(***************************************************************************)
THEOREM AppErrorsAlwaysKeepTheirStatus == Spec => []AppErrorsKeepTheirStatus
<1>1. ASSUME OutcomeInv, Answered, err.app
      PROVE  answer.statusCode = err.statusCode /\ answer.code = err.code
  <2>1. err # NoError
    BY <1>1 DEF NoError, LibraryError
  <2>2. err \in Thrown /\ answer = ErrorMiddleware(err)
    BY <1>1, <2>1, OkAnswerIsNoError
  <2>3. err \in AppErrors
    BY <1>1, <2>2, OtherErrorFacts DEF Thrown
  <2> QED
    BY <2>2, <2>3, AppErrorFacts
<1>2. OutcomeInv => AppErrorsKeepTheirStatus
  BY <1>1 DEF AppErrorsKeepTheirStatus
<1> QED
  BY <1>2, OutcomeHolds, PTL

(***************************************************************************)
(* A violated constraint is answered 409 and a missing record 404          *)
(* (prisma-error-handler.ts:146-173).                                      *)
(***************************************************************************)
THEOREM ConstraintErrorsStayClientErrors == Spec => []ConstraintErrorsAreClientErrors
<1>1. ASSUME OutcomeInv, NEW code, QueryError(code)
      PROVE  err \in Thrown /\ answer = ErrorMiddleware(err) /\ "code" \in DOMAIN err /\ err.code = code
  <2>1. "code" \notin DOMAIN NoError
    BY DEF NoError, LibraryError
  <2> QED
    BY <1>1, <2>1, OkAnswerIsNoError DEF QueryError
<1>2. OutcomeInv => ConstraintErrorsAreClientErrors
  BY <1>1, ConstraintFacts DEF ConstraintErrorsAreClientErrors
<1> QED
  BY <1>2, OutcomeHolds, PTL

----------------------------------------------------------------------------
(* What the calls do outside.                                              *)

Unanswered == err = NoError /\ reply = NoReply

BulkInv ==
  /\ BulkMailsInOrder
  /\ call.op # "sendBulkEmails" => results = 0 /\ outbox = <<>>

WorldInv == TypeOK /\ BulkInv

LEMMA CallFacts ==
  /\ NoCall \notin Calls /\ NoCall.op = "none"
  /\ \A c \in Calls : c.op = "sendBulkEmails" => c.mails \in 0 .. MaxMails
  /\ \A c \in Calls : c.op = "createPaymentIntent" => "amount" \in DOMAIN c
  /\ \A c \in Calls : "amount" \in DOMAIN c => c.amount \in Amounts
<1>1. \A c \in BulkCalls : c.op = "sendBulkEmails" /\ c.mails \in 0 .. MaxMails /\ "amount" \notin DOMAIN c
  BY DEF BulkCalls
<1>2. \A c \in FileCalls : c.op \in {"uploadFile", "deleteFile", "getSignedUrl"} /\ "amount" \notin DOMAIN c
  BY DEF FileCalls
<1>3. \A c \in PaymentCalls :
        \/ c.op \in {"createPaymentIntent", "refund"} /\ "amount" \in DOMAIN c /\ c.amount \in Amounts
        \/ c.op \in {"refund", "getPaymentIntent"} /\ "amount" \notin DOMAIN c
  BY DEF PaymentCalls
<1>4. NoCall.op = "none"
  BY DEF NoCall
<1> QED
  BY <1>1, <1>2, <1>3, <1>4 DEF Calls

LEMMA CoinsFacts ==
  ASSUME NEW amount \in Nat, NEW coins \in Coins(amount), NEW currency
  PROVE  coins \in Nat /\ Worth(coins, currency) \in Nat
<1>1. amount \div 10 \in Nat
  OBVIOUS
<1>2. coins \in Nat
  BY <1>1 DEF Coins
<1> QED
  BY <1>2 DEF Worth

LEMMA RepliesTyped ==
  /\ \A n \in 0 .. MaxMails : [results |-> n] \in [results : 0 .. MaxMails]
  /\ \A coins \in Nat : Told(coins) \in [amount : Nat] /\ Told(coins) # NoReply
  /\ \A c \in Containers \cup {"assigned", "nowhere"} :
       [container |-> c] \in [container : Containers \cup {"assigned", "nowhere"}]
  BY RepliesAreReplies DEF Told

LEMMA InitWorld == Init => WorldInv
<1> SUFFICES ASSUME Init
             PROVE  WorldInv
  OBVIOUS
<1>1. TypeOK
  <2>1. ErrorTypeOK
    BY DEF Init, ErrorInit, ErrorTypeOK
  <2>2. blobs \in [Containers -> {"none", "before", "uploaded"}]
    BY DEF Init
  <2>3. results \in 0 .. MaxMails /\ outbox \in Seq(1 .. MaxMails) /\ booked \in Nat
    BY IntegrationsAssumption DEF Init
  <2> QED
    BY <2>1, <2>2, <2>3 DEF Init, TypeOK
<1>2. call.op = "none"
  BY CallFacts DEF Init
<1>3. BulkInv
  BY <1>2 DEF Init, BulkInv, BulkMailsInOrder
<1> QED
  BY <1>1, <1>3 DEF WorldInv

(***************************************************************************)
(* Steps that touch nothing outside and do not reply.                      *)
(***************************************************************************)
LEMMA QuietWorld ==
  ASSUME WorldInv, UNCHANGED <<env, results, outbox, booked, blobs, reply>>,
         err' \in Thrown \cup {NoError}, answer' \in AnswerSet \cup {NoAnswer},
         \/ call' = call /\ (err' = err \/ err' # NoError)
         \/ call = NoCall /\ call' \in Calls /\ Unanswered
  PROVE  WorldInv'
<1>1. TypeOK'
  BY DEF WorldInv, TypeOK, ErrorTypeOK
<1>2. CASE call' = call /\ (err' = err \/ err' # NoError)
  BY <1>1, <1>2 DEF WorldInv, BulkInv, BulkMailsInOrder
<1>3. CASE call = NoCall /\ call' \in Calls /\ Unanswered
  <2>1. results = 0 /\ outbox = <<>> /\ reply = NoReply
    BY <1>3, CallFacts DEF WorldInv, BulkInv, Unanswered
  <2>2. call'.op = "sendBulkEmails" => call'.mails >= 0
    BY <1>3, CallFacts, IntegrationsAssumption
  <2>3. BulkInv'
    BY <2>1, <2>2 DEF WorldInv, BulkInv, BulkMailsInOrder
  <2> QED
    BY <1>1, <2>3 DEF WorldInv
<1> QED
  BY <1>2, <1>3

LEMMA MailWorld == WorldInv /\ SendMail => WorldInv'
<1> SUFFICES ASSUME WorldInv, SendMail
             PROVE  WorldInv'
  OBVIOUS
<1>1. /\ call.op = "sendBulkEmails" /\ Unanswered /\ call \in Calls /\ results < call.mails
      /\ UNCHANGED <<env, call, booked, blobs>>
  BY CallFacts DEF SendMail, Called, Unanswered, WorldInv, TypeOK
<1>2. /\ call.mails \in 0 .. MaxMails /\ MaxMails \in Nat /\ results \in 0 .. MaxMails
      /\ outbox \in Seq(1 .. MaxMails) /\ Len(outbox) = results /\ results + 1 \in 1 .. MaxMails
      /\ \A i \in 1 .. results : outbox[i] = i
  BY <1>1, CallFacts, IntegrationsAssumption DEF WorldInv, TypeOK, BulkInv, BulkMailsInOrder, Unanswered
<1>3. ASSUME Accept(results + 1)
      PROVE  /\ outbox' \in Seq(1 .. MaxMails) /\ Len(outbox') = results + 1
             /\ \A i \in 1 .. results + 1 : outbox'[i] = i
  BY <1>2, <1>3 DEF Accept
<1>4. CASE Accept(results + 1) /\ results' = results + 1 /\ UNCHANGED <<err, answer, reply>>
  <2>1. TypeOK'
    BY <1>1, <1>2, <1>3, <1>4 DEF WorldInv, TypeOK, ErrorTypeOK
  <2>2. BulkMailsInOrder'
    BY <1>1, <1>2, <1>3, <1>4 DEF BulkMailsInOrder, Unanswered
  <2> QED
    BY <1>1, <2>1, <2>2 DEF WorldInv, BulkInv
<1>5. CASE /\ Accept(results + 1) \/ UNCHANGED outbox
           /\ \E e \in MailErrors : Throw(e)
           /\ UNCHANGED results
  <2>1. PICK e \in Thrown : Throw(e)
    BY <1>5, AdapterErrorsThrown
  <2>2. ErrorTypeOK' /\ err' # NoError /\ reply' = NoReply
    BY <1>1, <2>1, ThrownFacts DEF Throw, WorldInv, TypeOK, ErrorTypeOK, Unanswered
  <2>3. /\ outbox' \in Seq(1 .. MaxMails) /\ Len(outbox') \in results .. results + 1
        /\ \A i \in DOMAIN outbox' : outbox'[i] = i
    BY <1>2, <1>3, <1>5
  <2>4. TypeOK'
    BY <1>1, <1>2, <1>5, <2>2, <2>3 DEF WorldInv, TypeOK
  <2>5. Len(outbox') <= call.mails
    BY <1>1, <1>2, <2>3
  <2>6. BulkMailsInOrder'
    BY <1>1, <1>5, <2>2, <2>3, <2>5 DEF BulkMailsInOrder
  <2> QED
    BY <1>1, <2>4, <2>6 DEF WorldInv, BulkInv
<1> QED
  BY <1>4, <1>5 DEF SendMail

LEMMA ResultsWorld == WorldInv /\ ReturnResults => WorldInv'
<1> SUFFICES ASSUME WorldInv, ReturnResults
             PROVE  WorldInv'
  OBVIOUS
<1>1. /\ call.op = "sendBulkEmails" /\ Unanswered /\ results = call.mails
      /\ Reply([results |-> results]) /\ UNCHANGED <<env, call, results, outbox, booked, blobs>>
  BY DEF ReturnResults, Called, Unanswered
<1>2. results \in 0 .. MaxMails
  BY DEF WorldInv, TypeOK
<1>3. ErrorTypeOK' /\ reply' = [results |-> results] /\ err' = NoError
  BY <1>1, OkAnswerType DEF WorldInv, TypeOK, ErrorTypeOK, Reply, Unanswered
<1>4. TypeOK'
  BY <1>1, <1>2, <1>3, RepliesTyped DEF WorldInv, TypeOK
<1>5. Len(outbox) = results
  BY <1>1 DEF WorldInv, BulkInv, BulkMailsInOrder, Unanswered
<1>6. BulkInv'
  BY <1>1, <1>5 DEF WorldInv, BulkInv, BulkMailsInOrder
<1> QED
  BY <1>4, <1>6 DEF WorldInv

(***************************************************************************)
(* The calls of Stripe.                                                    *)
(***************************************************************************)
LEMMA PaymentWorld ==
  WorldInv /\ (CreatePaymentIntent \/ Refund \/ GetPaymentIntent) => WorldInv'
<1> SUFFICES ASSUME WorldInv, CreatePaymentIntent \/ Refund \/ GetPaymentIntent
             PROVE  WorldInv'
  OBVIOUS
<1>1. /\ call.op \in {"createPaymentIntent", "refund", "getPaymentIntent"} /\ Unanswered
      /\ UNCHANGED <<env, call, results, outbox, blobs>>
  BY DEF CreatePaymentIntent, Refund, GetPaymentIntent, Called, Unanswered
<1>2. call \in Calls /\ Paid \in Nat /\ Amounts \subseteq Nat
  BY <1>1, CallFacts, IntegrationsAssumption DEF WorldInv, TypeOK
<1>3. BulkInv'
  BY <1>1 DEF WorldInv, BulkInv, BulkMailsInOrder
<1>4. ASSUME booked' \in Nat,
             (\E coins \in Nat : Reply(Told(coins))) \/ \E e \in StripeErrors : Throw(e)
      PROVE  WorldInv'
  <2>1. CASE \E coins \in Nat : Reply(Told(coins))
    <3>1. PICK coins \in Nat : Reply(Told(coins))
      BY <2>1
    <3>2. ErrorTypeOK' /\ reply' \in [amount : Nat]
      BY <1>1, <3>1, RepliesTyped, OkAnswerType DEF Reply, Unanswered, ErrorTypeOK
    <3> QED
      BY <1>1, <1>3, <1>4, <3>2 DEF WorldInv, TypeOK
  <2>2. CASE \E e \in StripeErrors : Throw(e)
    <3>1. ErrorTypeOK' /\ reply' = NoReply
      BY <1>1, <2>2, AdapterErrorsThrown DEF Throw, WorldInv, TypeOK, ErrorTypeOK, Unanswered
    <3> QED
      BY <1>1, <1>3, <1>4, <3>1 DEF WorldInv, TypeOK
  <2> QED
    BY <1>4, <2>1, <2>2
<1>5. ASSUME NEW coins \in Nat, Book(coins), Worth(coins, call.currency) \in Nat
      PROVE  WorldInv'
  BY <1>4, <1>5 DEF Book
<1>6. Declined => WorldInv'
  <2>1. booked \in Nat
    BY DEF WorldInv, TypeOK
  <2> QED
    BY <1>4, <2>1 DEF Declined
<1>7. CASE CreatePaymentIntent
  <2>1. call.amount \in Nat
    BY <1>2, <1>7, CallFacts DEF CreatePaymentIntent, Called
  <2> QED
    BY <1>5, <1>6, <1>7, <2>1, CoinsFacts DEF CreatePaymentIntent
<1>8. CASE Refund
  <2>1. ASSUME NEW coins \in RefundCoins(call)
        PROVE  coins \in Nat /\ Worth(coins, call.currency) \in Nat
    <3>1. CASE "amount" \in DOMAIN call /\ call.amount # 0
      BY <1>2, <2>1, <3>1, CallFacts, CoinsFacts DEF RefundCoins
    <3>2. CASE ~("amount" \in DOMAIN call /\ call.amount # 0)
      BY <1>2, <2>1, <3>2 DEF RefundCoins, Worth
    <3> QED
      BY <3>1, <3>2
  <2> QED
    BY <1>5, <1>6, <1>8, <2>1 DEF Refund
<1>9. CASE GetPaymentIntent
  <2>1. booked' \in Nat
    BY <1>9 DEF GetPaymentIntent, WorldInv, TypeOK
  <2> QED
    BY <1>2, <1>4, <1>9, <2>1 DEF GetPaymentIntent
<1> QED
  BY <1>7, <1>8, <1>9

(***************************************************************************)
(* The calls of Azure.                                                     *)
(***************************************************************************)
LEMMA FileWorld == WorldInv /\ (UploadFile \/ DeleteFile \/ GetSignedUrl) => WorldInv'
<1> SUFFICES ASSUME WorldInv, UploadFile \/ DeleteFile \/ GetSignedUrl
             PROVE  WorldInv'
  OBVIOUS
<1>1. /\ call.op \in {"uploadFile", "deleteFile", "getSignedUrl"} /\ Unanswered
      /\ UNCHANGED <<env, call, results, outbox, booked>>
  BY DEF UploadFile, DeleteFile, GetSignedUrl, Called, Unanswered
<1>2. BulkInv'
  BY <1>1 DEF WorldInv, BulkInv, BulkMailsInOrder
<1>3. Container \in Containers /\ UrlContainer \in Containers \cup {"assigned", "nowhere"}
  BY DEF Container, UrlContainer, Containers
<1>4. blobs' \in [Containers -> {"none", "before", "uploaded"}]
  BY DEF WorldInv, TypeOK, UploadFile, DeleteFile, GetSignedUrl, Store
<1>5. ASSUME NEW c \in Containers \cup {"assigned", "nowhere"}, Reply([container |-> c])
      PROVE  WorldInv'
  <2>1. ErrorTypeOK' /\ reply' \in [container : Containers \cup {"assigned", "nowhere"}]
    BY <1>1, <1>5, RepliesTyped, OkAnswerType DEF Reply, Unanswered, ErrorTypeOK
  <2> QED
    BY <1>1, <1>2, <1>4, <2>1 DEF WorldInv, TypeOK
<1>6. ASSUME NEW e \in Thrown, Throw(e)
      PROVE  WorldInv'
  <2>1. ErrorTypeOK' /\ reply' = NoReply
    BY <1>1, <1>6 DEF Throw, WorldInv, TypeOK, ErrorTypeOK, Unanswered
  <2> QED
    BY <1>1, <1>2, <1>4, <2>1 DEF WorldInv, TypeOK
<1>7. AzureFails => WorldInv'
  BY <1>6, AdapterErrorsThrown DEF AzureFails
<1>8. CASE UploadFile
  BY <1>3, <1>5, <1>7, <1>8 DEF UploadFile
<1>9. CASE DeleteFile
  BY <1>3, <1>5, <1>7, <1>9 DEF DeleteFile
<1>10. CASE GetSignedUrl
  BY <1>3, <1>5, <1>6, <1>10, AdapterErrorsThrown DEF GetSignedUrl
<1> QED
  BY <1>8, <1>9, <1>10

LEMMA NextWorld == OutcomeInv /\ WorldInv /\ [Next]_vars => WorldInv'
<1> SUFFICES ASSUME OutcomeInv, WorldInv, [Next]_vars
             PROVE  WorldInv'
  OBVIOUS
<1>1. CASE UNCHANGED vars
  BY <1>1 DEF vars, callVars, WorldInv, TypeOK, ErrorTypeOK, BulkInv, BulkMailsInOrder
<1>2. CASE ErrorNext /\ (call = NoCall \/ err # NoError) /\ UNCHANGED callVars
  <2>1. /\ err' \in Thrown \cup {NoError} /\ answer' \in AnswerSet \cup {NoAnswer}
        /\ err' = err \/ err' # NoError
    BY <1>2, ThrownFacts DEF ErrorNext, Fail, Handle, WorldInv, TypeOK, ErrorTypeOK
  <2> QED
    BY <1>2, <2>1, QuietWorld DEF callVars
<1>3. CASE Call
  <2>1. /\ call = NoCall /\ call' \in Calls /\ Unanswered
        /\ UNCHANGED <<env, results, outbox, booked, blobs, reply, answer>>
    BY <1>3 DEF Call, Throw, Unanswered, OutcomeInv
  <2>2. err' \in Thrown \cup {NoError} /\ answer' \in AnswerSet \cup {NoAnswer}
    BY <1>3, <2>1, AdapterErrorsThrown DEF Call, Throw, WorldInv, TypeOK, ErrorTypeOK
  <2> QED
    BY <2>1, <2>2, QuietWorld
<1> QED
  BY <1>1, <1>2, <1>3, MailWorld, ResultsWorld, PaymentWorld, FileWorld DEF Next

LEMMA WorldHolds == Spec => []WorldInv
  BY InitOutcome, NextOutcome, InitWorld, NextWorld, PTL DEF Spec

(***************************************************************************)
(* The types of the request, of its call and of what it does outside       *)
(* (src/integrations).                                                     *)
(***************************************************************************)
THEOREM CallTypeCorrect == Spec => []TypeOK
<1>1. WorldInv => TypeOK
  BY DEF WorldInv
<1> QED
  BY <1>1, WorldHolds, PTL

(***************************************************************************)
(* A bulk call sends in order, at most once, and nothing after a failure   *)
(* (smtp.adapter.ts:49-58).                                                *)
(***************************************************************************)
THEOREM BulkMailsStayInOrder == Spec => []BulkMailsInOrder
<1>1. WorldInv => BulkMailsInOrder
  BY DEF WorldInv, BulkInv
<1> QED
  BY <1>1, WorldHolds, PTL
=============================================================================
