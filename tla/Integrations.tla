---------------------------- MODULE Integrations ----------------------------
(***************************************************************************)
(* The services for mail, payments and uploads (src/integrations), as the  *)
(* container binds them: one call of one of them, by a handler that lets   *)
(* what it throws through to the error middleware.  register is such a     *)
(* handler for sendEmail (see Auth); no handler calls the others yet, so   *)
(* the calls are any that their types allow.                               *)
(*                                                                         *)
(* What a call does outside is kept apart from what the handler learns of  *)
(* it: a call can fail before or after it took effect.  Stripe counts in   *)
(* the smallest coin of a currency, which is a hundredth of its unit or the*)
(* unit itself; the application in numbers of units, which are thousandths *)
(* of one here.                                                            *)
(***************************************************************************)
EXTENDS ErrorHandling, Integers, Sequences

CONSTANTS
  MaxMails,   \* bound on the mails of one bulk call
  Amounts,    \* amounts a caller may name, in thousandths of a unit
  Paid        \* coins of the payment a call refers to

ASSUME IntegrationsAssumption ==
  /\ MaxMails \in Nat /\ Amounts \subseteq Nat /\ Paid \in Nat \ {0}

VARIABLES
  env,      \* the settings that are given
  call,     \* the call of the handler, or NoCall
  results,  \* how many results sendBulkEmails has pushed
  outbox,   \* the mails the mail server has accepted for this call, in order
  booked,   \* what Stripe has booked for this call, in thousandths of a unit
  blobs,    \* container -> what is stored under the key of the call
  reply     \* what the handler was given, or NoReply

callVars == <<env, call, results, outbox, booked, blobs, reply>>
vars == <<err, answer, callVars>>

\* All of them are z.string().optional(), and an empty one counts as none.
Setting == {"STRIPE_SECRET_KEY", "AZURE_STORAGE_CONNECTION_STRING",
            "AZURE_STORAGE_CONTAINER_NAME", "AZURE_STORAGE_DEFAULT_BASE_URL",
            "AZURE_STORAGE_ASSIGNED_BASE_URL"}

Given(setting) == setting \in env

NoCall == [op |-> "none"]
NoReply == [op |-> "none"]

BulkCalls == [op : {"sendBulkEmails"}, mails : 0 .. MaxMails]

Currency == {"usd", "jpy"}

\* A refund may name no amount.  The currency is named with a payment, and is
\* the payment's own in the calls that refer to one.
PaymentCalls ==
  [op : {"createPaymentIntent", "refund"}, amount : Amounts, currency : Currency]
    \cup [op : {"refund", "getPaymentIntent"}, currency : Currency]

FileCalls == [op : {"uploadFile", "deleteFile", "getSignedUrl"}]

Calls == BulkCalls \cup PaymentCalls \cup FileCalls

\* A container of the configured name, and the default one.
Containers == {"configured", "uploads"}

TypeOK ==
  /\ ErrorTypeOK
  /\ env \subseteq Setting
  /\ call \in Calls \cup {NoCall}
  /\ results \in 0 .. MaxMails
  /\ outbox \in Seq(1 .. MaxMails)
  /\ booked \in Nat
  /\ blobs \in [Containers -> {"none", "before", "uploaded"}]
  /\ reply \in {NoReply} \cup [results : 0 .. MaxMails] \cup [amount : Nat]
                \cup [container : Containers \cup {"assigned", "nowhere"}]

Init ==
  /\ ErrorInit
  /\ env \in SUBSET Setting
  /\ call = NoCall /\ reply = NoReply
  /\ results = 0 /\ outbox = <<>> /\ booked = 0
  /\ blobs \in [Containers -> {"none", "before"}]

Called(op) == call.op = op /\ err = NoError /\ reply = NoReply

\* The handler has what it wants, and answers.
Reply(value) == reply' = value /\ answer' = OkAnswer /\ UNCHANGED err

\* The adapter throws: asyncHandler passes it to the middleware.
Throw(e) == err' = e /\ UNCHANGED <<answer, reply>>

MailErrors == {CodedError("Error", code, "plain") : code \in {"ESOCKET", "EAUTH"}}

StripeErrors ==
  {CodedError("StripeInvalidRequestError", "charge_already_refunded", "plain"),
   LibraryError("Error", "plain")}

AzureErrors ==
  {CodedError("RestError", "BlobNotFound", "plain"), LibraryError("Error", "plain")}

Configured(c) ==
  /\ c \in PaymentCalls => Given("STRIPE_SECRET_KEY")
  /\ c \in FileCalls => Given("AZURE_STORAGE_CONNECTION_STRING")

\* The container makes the service anew; Stripe's and Azure's constructors
\* throw without their setting, SmtpEmailService's does not.
Call ==
  /\ call = NoCall /\ err = NoError
  /\ \E c \in Calls :
       /\ call' = c
       /\ IF Configured(c) THEN UNCHANGED <<err, answer, reply>>
          ELSE Throw(LibraryError("Error", "plain"))
  /\ UNCHANGED <<env, results, outbox, booked, blobs>>

----------------------------------------------------------------------------
(* smtp.adapter.ts: sendBulkEmails awaits one sendEmail after the other.   *)

Accept(mail) == outbox' = Append(outbox, mail)

\* Mutant: the loop goes on after a failed mail.
SendMailOrSkip ==
  /\ Called("sendBulkEmails") /\ results < call.mails
  /\ results' = results + 1
  /\ Accept(results + 1) \/ UNCHANGED outbox
  /\ UNCHANGED <<err, answer, reply, env, call, booked, blobs>>

SendMail ==
  /\ Called("sendBulkEmails") /\ results < call.mails
  /\ \/ Accept(results + 1) /\ results' = results + 1 /\ UNCHANGED <<err, answer, reply>>
     \/ /\ Accept(results + 1) \/ UNCHANGED outbox
        /\ \E e \in MailErrors : Throw(e)
        /\ UNCHANGED results
  /\ UNCHANGED <<env, call, booked, blobs>>

ReturnResults ==
  /\ Called("sendBulkEmails") /\ results = call.mails
  /\ Reply([results |-> results])
  /\ UNCHANGED <<env, call, results, outbox, booked, blobs>>

----------------------------------------------------------------------------
(* stripe.adapter.ts.  Stripe rejects an amount of nothing and a refund of *)
(* more than was paid.                                                     *)

\* The amount in the parameters: Math.round(amount * 100), whatever the
\* currency; either of the nearest ones half-way, where the binary fraction
\* decides.
Coins(amount) ==
  {coins \in {amount \div 10, amount \div 10 + 1} : 10 * coins - amount \in -5 .. 5}

\* amount ? ... : undefined, and no amount is what is left of the payment.
RefundCoins(c) ==
  IF "amount" \in DOMAIN c /\ c.amount # 0 THEN Coins(c.amount) ELSE {Paid}

\* What the coins are worth, and what the adapter makes of them: coins / 100.
Worth(coins, currency) == IF currency = "jpy" THEN 1000 * coins ELSE 10 * coins
Told(coins) == [amount |-> 10 * coins]

Book(coins) ==
  /\ coins > 0
  /\ booked' = Worth(coins, call.currency)
  /\ Reply(Told(coins)) \/ \E e \in StripeErrors : Throw(e)

Declined == (\E e \in StripeErrors : Throw(e)) /\ UNCHANGED booked

CreatePaymentIntent ==
  /\ Called("createPaymentIntent")
  /\ Declined \/ \E coins \in Coins(call.amount) : Book(coins)
  /\ UNCHANGED <<env, call, results, outbox, blobs>>

Refund ==
  /\ Called("refund")
  /\ Declined \/ \E coins \in RefundCoins(call) : coins <= Paid /\ Book(coins)
  /\ UNCHANGED <<env, call, results, outbox, blobs>>

GetPaymentIntent ==
  /\ Called("getPaymentIntent")
  /\ Reply(Told(Paid)) \/ \E e \in StripeErrors : Throw(e)
  /\ UNCHANGED <<env, call, results, outbox, booked, blobs>>

----------------------------------------------------------------------------
(* azure.adapter.ts, for one key.                                          *)

Container == IF Given("AZURE_STORAGE_CONTAINER_NAME") THEN "configured" ELSE "uploads"

\* Where baseUrl leads: wherever the assigned domain points, with no name of a
\* container behind it; else to the configured container of the default
\* domain, and nowhere with "undefined" or nothing for one of the two.
UrlContainer ==
  IF Given("AZURE_STORAGE_ASSIGNED_BASE_URL") THEN "assigned"
  ELSE IF Given("AZURE_STORAGE_DEFAULT_BASE_URL") /\ Given("AZURE_STORAGE_CONTAINER_NAME")
       THEN "configured" ELSE "nowhere"

AzureFails == \E e \in AzureErrors : Throw(e)

Store(content) == blobs' = [blobs EXCEPT ![Container] = content]

\* A blob of that name is replaced.
UploadFile ==
  /\ Called("uploadFile")
  /\ \/ Store("uploaded") /\ (Reply([container |-> UrlContainer]) \/ AzureFails)
     \/ AzureFails /\ UNCHANGED blobs
  /\ UNCHANGED <<env, call, results, outbox, booked>>

DeleteFile ==
  /\ Called("deleteFile")
  /\ \/ /\ blobs[Container] # "none" /\ Store("none")
        /\ Reply([container |-> Container]) \/ AzureFails
     \/ AzureFails /\ UNCHANGED blobs
  /\ UNCHANGED <<env, call, results, outbox, booked>>

\* Nothing is asked of Azure; a connection string without a key throws.
GetSignedUrl ==
  /\ Called("getSignedUrl")
  /\ Reply([container |-> UrlContainer]) \/ Throw(LibraryError("Error", "plain"))
  /\ UNCHANGED <<env, call, results, outbox, booked, blobs>>

----------------------------------------------------------------------------
\* Handlers that call none of these services fail as they may.
Next ==
  \/ ErrorNext /\ (call = NoCall \/ err # NoError) /\ UNCHANGED callVars
  \/ Call
  \/ SendMail \/ ReturnResults
  \/ CreatePaymentIntent \/ Refund \/ GetPaymentIntent
  \/ UploadFile \/ DeleteFile \/ GetSignedUrl

Spec == Init /\ [][Next]_vars

----------------------------------------------------------------------------
(* Properties.  Those of the middleware are stated in ErrorHandling.       *)

(***************************************************************************)
(* A bulk call sends each mail at most once and in order, and stops at the *)
(* first that fails: results for all of them mean that all were accepted;  *)
(* of a call that throws, the mails before the failed one were accepted,   *)
(* the failed one may have been, and none after it was.                    *)
(***************************************************************************)
BulkMailsInOrder ==
  /\ \A i \in DOMAIN outbox : outbox[i] = i
  /\ Len(outbox) \in results .. results + 1
  /\ call.op = "sendBulkEmails" =>
       /\ Len(outbox) <= call.mails
       /\ reply # NoReply => Len(outbox) = call.mails
       /\ err = NoError => Len(outbox) = results
=============================================================================
