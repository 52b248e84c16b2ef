-------------------------------- MODULE Jwt --------------------------------
(***************************************************************************)
(* The signed tokens of src/utils/auth/jwt.util.ts.  Pure operators.       *)
(*                                                                         *)
(* A token is what the code can tell of it: the secret its signature was   *)
(* made with, the claims userId and roles, and the second it expires.      *)
(* Issuer and audience are the same settings on both sides and are left    *)
(* out, as are the username (a function of userId) and the random tokenId, *)
(* which nothing stores or compares.                                       *)
(***************************************************************************)
EXTENDS Errors

CONSTANTS
  AccessSecret,    \* JWT_SECRET
  RefreshSecret,   \* JWT_REFRESH_SECRET
  ForeignSecret,   \* what an unreadable or foreign token is signed with
  AccessLife,      \* JWT_EXPIRES_IN, in ticks of the clock
  RefreshLife      \* JWT_REFRESH_EXPIRES_IN

ASSUME LifeAssumption == AccessLife \in Nat /\ RefreshLife \in Nat

Secrets == {AccessSecret, RefreshSecret, ForeignSecret}

\* jwt.sign: the expiry is counted from the moment of signing.
Sign(userId, roles, secret, now, life) ==
  [secret |-> secret, userId |-> userId, roles |-> roles, exp |-> now + life]

GenerateTokens(userId, roles, now) ==
  [access  |-> Sign(userId, roles, AccessSecret, now, AccessLife),
   refresh |-> Sign(userId, roles, RefreshSecret, now, RefreshLife)]

\* jwt.verify: the signature is checked before the expiry, and a token whose
\* second of expiry has come is expired.
Verifies(token, secret, now) == token.secret = secret /\ now < token.exp

JsonWebTokenError == LibraryError("JsonWebTokenError", "plain")
TokenExpiredError == LibraryError("TokenExpiredError", "plain")

VerifyError(token, secret) ==
  IF token.secret # secret THEN JsonWebTokenError ELSE TokenExpiredError

VerifiesAccess(token, now) == Verifies(token, AccessSecret, now)

\* Mutant: the refresh endpoint checks the signature with the access secret.
VerifiesRefreshWithAccessSecret(token, now) == Verifies(token, AccessSecret, now)

VerifiesRefresh(token, now) == Verifies(token, RefreshSecret, now)
============================================================================
