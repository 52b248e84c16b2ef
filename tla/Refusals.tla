------------------------------ MODULE Refusals ------------------------------
(***************************************************************************)
(* Auth with a history of what lasted: for each request the accounts that  *)
(* have been stored unchanged ever since it arrived, with their roles and  *)
(* without.  The history constrains nothing; it is what an honest refusal  *)
(* is about.                                                               *)
(***************************************************************************)
EXTENDS Auth

VARIABLE lasting   \* history: request -> the accounts that lasted since it arrived

refusalVars == <<vars, lasting>>

Accounts(table) ==
  Rows(table) \cup {[id |-> u, row |-> Roleless(table[u])] : u \in Stored(table)}

RefusalInit == Init /\ lasting = [r \in Req |-> Accounts(users)]

Remember ==
  lasting' = [r \in Req |-> IF pc[r] = "new" THEN Accounts(users')
                            ELSE lasting[r] \cap Accounts(users')]

RefusalNext == Next /\ Remember

RefusalSpec == RefusalInit /\ [][RefusalNext]_refusalVars

FairRefusalSpec == RefusalSpec /\ \A r \in Req : WF_vars(Handle(r))

----------------------------------------------------------------------------
Unauthorized(r, op) == answer[r] # None /\ req[r].op = op /\ answer[r].statusCode = 401

RefusedHonestly(r) ==
  /\ Unauthorized(r, "login") =>
       \A a \in lasting[r] : ~ /\ a.row.isActive
                               /\ a.row.username = req[r].username
                               /\ a.row.password = Hash(req[r].password)
  /\ Unauthorized(r, "refresh") /\ answer[r].code = "INVALID_CREDENTIALS" =>
       \A a \in lasting[r] : ~(a.row.isActive /\ a.id = req[r].token.userId)
  /\ Unauthorized(r, "refresh") /\ faults = 0 /\ VerifiesRefresh(req[r].token, now) =>
       \A a \in lasting[r] : ~ /\ a.row.isActive /\ "USER" \in a.row.roles
                               /\ a.id = req[r].token.userId
  /\ Unauthorized(r, "me") /\ req[r].token # None /\ VerifiesAccess(req[r].token, now) =>
       \A a \in lasting[r] : a.id # req[r].token.userId
  /\ answer[r] # None /\ req[r].op = "refresh" => answer[r].statusCode \in {200, 401}

(***************************************************************************)
(* Nobody is refused whose account was there all the time: a log-in is     *)
(* answered 401 only if no account that lasted was active with that name   *)
(* and password, although it looks three times, with other requests and    *)
(* operators in between; GET /me with a good token only if the account did *)
(* not last.  A refresh is told INVALID_CREDENTIALS only if the account    *)
(* did not last as an active one.  Its catch makes every other failure a   *)
(* 401 too; without a failed call, a good token of an active account that  *)
(* kept its roles, USER among them, is not refused at all.                 *)
(***************************************************************************)
RefusalsAreHonest == \A r \in Req : RefusedHonestly(r)
=============================================================================
