---------------------------- MODULE AuthRegistry ----------------------------
(***************************************************************************)
(* The authentication service implements the account registry and the      *)
(* session registry: the refinement mappings read the accounts off the     *)
(* table users and the status of a request off the call its handler waits  *)
(* for and its answer.                                                     *)
(***************************************************************************)
EXTENDS Auth

AccountAt(u) == [id |-> u, username |-> users[u].username, email |-> users[u].email]

AccountTable == {AccountAt(u) : u \in Stored(users)}

Registering(r) == pc[r] # "new" /\ req[r].op = "register"

Wished ==
  [r \in Req |-> IF Registering(r) THEN [username |-> req[r].username, email |-> req[r].email]
                 ELSE None]

\* What the answer of a registration tells its client.
Verdict(a) ==
  IF a = OkAnswer THEN "confirmed"
  ELSE IF a.code \in {"RECORD_CONFLICT", "DB_UNIQUE_CONSTRAINT"} THEN "refused"
  ELSE "failed"

Progress(r) ==
  IF ~Registering(r) THEN "idle"
  ELSE IF pc[r] = "done" THEN Verdict(answer[r])
  ELSE IF pc[r] = "lost" THEN "lost"
  ELSE IF pc[r] \in {"register.generateTokens", "register.sendWelcomeEmail"} THEN "created"
  ELSE IF found[r] # None THEN "taken"
  ELSE "pending"

Standing == [r \in Req |-> Progress(r)]

Registry == INSTANCE AccountRegistry
  WITH Client <- Req, Id <- UserId, accounts <- AccountTable, asked <- Wished,
       status <- Standing

(***************************************************************************)
(* Whatever registrations, log-ins, failures, crashes and operators do at  *)
(* once, what their clients are told is what some order of one-step        *)
(* registrations would have told them: a 200 has its account created once, *)
(* by a step at which name and address were free; a 409 "already exists"   *)
(* was decided at a moment when they were not.  register looks up the name *)
(* and the address, reads the role and inserts in several statements with  *)
(* other requests in between; its insert may outlive its connection.       *)
(***************************************************************************)
RegistersAtomically == Registry!Spec
----------------------------------------------------------------------------
(* Sessions.                                                               *)

LoginAccountAt(u) ==
  [id |-> u, name |-> users[u].username, password |-> users[u].password,
   active |-> users[u].isActive, roles |-> users[u].roles]

LoginTable == {LoginAccountAt(u) : u \in Stored(users)}

Calling(r) == pc[r] # "new" /\ req[r].op # "register"

\* GET /me without a token asks for nobody.
Sought(request) ==
  IF request.op = "login"
  THEN [op |-> "login", name |-> request.username, password |-> Hash(request.password)]
  ELSE IF request.token = None THEN None
  ELSE [op |-> request.op, id |-> request.token.userId]

Soughts == [r \in Req |-> IF Calling(r) THEN Sought(req[r]) ELSE None]

\* The codes of the answers: a token that does not verify and a call that
\* fails have others.
Judgement(a) ==
  IF a = OkAnswer THEN "confirmed"
  ELSE IF a.code \in {"INVALID_CREDENTIALS", "USER_NOT_FOUND"} THEN "refused"
  ELSE "failed"

\* The look-ups that decide.
Deciding == {"login.findByUsername", "refresh.findByIdWithRoles", "me.findByIdWithRoles"}

\* What the handler will make of the row.
Entitles(r, row) ==
  CASE req[r].op = "login"   -> row.isActive /\ row.password = Hash(req[r].password)
    [] req[r].op = "refresh" -> row.isActive
    [] req[r].op = "me"      -> TRUE

LookUpStage(r) ==
  IF found[r] = None THEN "pending"
  ELSE IF ~Entitles(r, found[r].row) THEN "denied"
  ELSE IF found[r].mapped THEN "settled"
  ELSE "granted"

Stage(r) ==
  IF ~Calling(r) THEN "idle"
  ELSE IF pc[r] = "done" THEN Judgement(answer[r])
  ELSE IF pc[r] = "lost" THEN "lost"
  ELSE IF pc[r] \in Deciding THEN LookUpStage(r)
  ELSE IF pc[r] = "login.verifyPassword" /\ ~PasswordValid(r) THEN "denied"
  ELSE "settled"

Stages == [r \in Req |-> Stage(r)]

ClaimOf(token) == [id |-> token.userId, roles |-> token.roles]

ClaimOfRow(r, user) ==
  IF user # None /\ Entitles(r, user.row) THEN {[id |-> user.id, roles |-> user.row.roles]}
  ELSE {}

\* The claims of the tokens, once they are signed, and before of the row they
\* will be signed from.
Claimed(r) ==
  IF ~Calling(r) THEN {}
  ELSE IF pair[r] # None THEN {ClaimOf(pair[r].access), ClaimOf(pair[r].refresh)}
  ELSE ClaimOfRow(r, IF read[r] # None THEN read[r] ELSE found[r])

ClaimsGranted == [r \in Req |-> Claimed(r)]

Sessions == INSTANCE SessionRegistry
  WITH Client <- Req, Id <- UserId, Name <- Username, Password <- [hashOf : Password],
       Role <- RoleName, accounts <- LoginTable, asked <- Soughts, status <- Stages,
       claims <- ClaimsGranted

(***************************************************************************)
(* Log-ins, refreshes and /me are decided at one moment and their roles    *)
(* settled at one later moment: the tokens that are sent name one account, *)
(* which was entitled when the row was read, with the name and password of *)
(* the log-in, and carry the roles it had when its mappings were read, none*)
(* if it was gone by then, although they are signed some awaits later; and *)
(* a 401 that does not blame the token was decided at a moment when nobody *)
(* was entitled, or when the account of a granted log-in was gone.  What   *)
(* else happens to the account before the answer changes neither.          *)
(***************************************************************************)
SessionsDecideOnce == Sessions!Spec
=============================================================================
