---------------------------- MODULE ErrorsProofs ----------------------------
(***************************************************************************)
(* Lemmas about the error middleware, for the proofs of the modules that   *)
(* answer with it.                                                         *)
(***************************************************************************)
EXTENDS Errors, TLAPS

(***************************************************************************)
(* Every error a handler lets out is answered with a status and with a     *)
(* code and a type of the enumerations, whatever library it comes from.    *)
(***************************************************************************)
LEMMA LibraryErrorAnswered ==
  ASSUME NEW e, e.app = FALSE
  PROVE  ErrorMiddleware(e) \in AnswerSet
  BY DEF ErrorMiddleware, HandlePrismaError, HandleKnownPrismaError, ConflictError,
         NotFoundError, ValidationError, InternalServerError, AppError, AppErrorWith,
         AnswerOf, Answer, AnswerSet, Codes, Types

LEMMA AppErrorAnswered ==
  ASSUME NEW code \in Codes
  PROVE  /\ ErrorMiddleware(UnauthorizedError(code)) \in AnswerSet
         /\ ErrorMiddleware(NotFoundError(code)) \in AnswerSet
         /\ ErrorMiddleware(ValidationError(code)) \in AnswerSet
         /\ ErrorMiddleware(ConflictError(code)) \in AnswerSet
         /\ ErrorMiddleware(InternalServerError(code)) \in AnswerSet
  BY DEF ErrorMiddleware, UnauthorizedError, NotFoundError, ValidationError, ConflictError,
         InternalServerError, AppError, AppErrorWith, AnswerOf, Answer, AnswerSet, Types

LEMMA RateLimitAnswered == ErrorMiddleware(RateLimitError) \in AnswerSet
  BY DEF ErrorMiddleware, RateLimitError, AppError, AppErrorWith, AnswerOf, Answer, AnswerSet,
         Codes, Types

LEMMA OkAnswerType == OkAnswer \in AnswerSet
  BY DEF OkAnswer, Answer, AnswerSet, Codes, Types

=============================================================================
