-------------------------- MODULE SessionRegistry --------------------------
(***************************************************************************)
(* What login, refreshToken and GET /me promise, without their awaits: a   *)
(* request is decided in one step, at a moment between its arrival and its *)
(* answer, by the accounts as they are at that moment.  Who is entitled is *)
(* granted the account, who is not is refused.  The roles that go with a   *)
(* grant are settled in one step too, but a later one: the code does not   *)
(* read them with the row.  What is sent then carries these claims and no  *)
(* others.  AuthRegistry shows that the handlers of Auth implement it.     *)
(*                                                                         *)
(* The accounts change as registrations and operators like, except for     *)
(* their names and passwords.                                              *)
(***************************************************************************)
CONSTANTS Client, Id, Name, Password, Role, None

Wish ==
  [op : {"login"}, name : Name, password : Password] \cup [op : {"refresh", "me"}, id : Id]

Account == [id : Id, name : Name, password : Password, active : BOOLEAN, roles : SUBSET Role]

Claim == [id : Id, roles : SUBSET Role]

VARIABLES
  accounts,   \* the accounts that exist
  asked,      \* client -> what it asked for
  status,     \* client -> how far its request is
  claims      \* client -> the claims it was granted, one or none; no roles at first

vars == <<accounts, asked, status, claims>>

Open == {"pending", "granted", "settled", "denied"}

Status == Open \cup {"idle", "confirmed", "refused", "failed", "lost"}

TypeOK ==
  /\ accounts \subseteq Account
  /\ asked \in [Client -> Wish \cup {None}]
  /\ status \in [Client -> Status]
  /\ claims \in [Client -> SUBSET Claim]

Distinct(table) == \A a, b \in table : a.id = b.id \/ a.name = b.name => a = b

Init ==
  /\ accounts \subseteq Account /\ Distinct(accounts)
  /\ asked = [r \in Client |-> None]
  /\ status = [r \in Client |-> "idle"]
  /\ claims = [r \in Client |-> {}]

\* GET /me does not ask whether the account is active.
Entitled(wish, a) ==
  CASE wish.op = "login"   -> a.active /\ a.name = wish.name /\ a.password = wish.password
    [] wish.op = "refresh" -> a.active /\ a.id = wish.id
    [] wish.op = "me"      -> a.id = wish.id

Move(r, from, to) == status[r] = from /\ status' = [status EXCEPT ![r] = to]

\* A request that does not verify fails at the door.
Ask(r) ==
  /\ Move(r, "idle", "pending") \/ Move(r, "idle", "failed")
  /\ \E wish \in Wish : asked' = [asked EXCEPT ![r] = wish]
  /\ UNCHANGED <<accounts, claims>>

\* It has nothing to show.
Dismiss(r) == Move(r, "idle", "failed") /\ UNCHANGED <<accounts, asked, claims>>

Grant(r) ==
  /\ Move(r, "pending", "granted")
  /\ \E a \in accounts :
       /\ Entitled(asked[r], a)
       /\ claims' = [claims EXCEPT ![r] = {[id |-> a.id, roles |-> {}]}]
  /\ UNCHANGED <<accounts, asked>>

\* An account that is gone has no roles.
RolesOfId(id) == UNION {a.roles : a \in {b \in accounts : b.id = id}}

Settle(r) ==
  /\ Move(r, "granted", "settled")
  /\ claims' = [claims EXCEPT ![r] = {[id |-> c.id, roles |-> RolesOfId(c.id)] : c \in @}]
  /\ UNCHANGED <<accounts, asked>>

Deny(r) ==
  /\ Move(r, "pending", "denied") \/ Move(r, "pending", "refused")
  /\ \A a \in accounts : ~Entitled(asked[r], a)
  /\ UNCHANGED <<accounts, asked, claims>>

Confirm(r) == Move(r, "settled", "confirmed") /\ UNCHANGED <<accounts, asked, claims>>

Refuse(r) == Move(r, "denied", "refused") /\ UNCHANGED <<accounts, asked, claims>>

\* The account is gone when the answer is made up.
Withdraw(r) ==
  /\ Move(r, "settled", "refused")
  /\ \A a \in accounts : \A c \in claims[r] : a.id # c.id
  /\ UNCHANGED <<accounts, asked, claims>>

\* A failure keeps the claims or forgets them.
Fail(r) ==
  /\ \E stage \in Open : Move(r, stage, "failed")
  /\ claims' \in {claims, [claims EXCEPT ![r] = {}]}
  /\ UNCHANGED <<accounts, asked>>

\* The process dies: whoever was waiting never hears.
Die ==
  /\ status' = [r \in Client |-> IF status[r] \in Open THEN "lost" ELSE status[r]]
  /\ UNCHANGED <<accounts, asked, claims>>

\* Registrations and operators.
Manage ==
  /\ accounts' \subseteq Account /\ Distinct(accounts')
  /\ \A a \in accounts, b \in accounts' :
       a.id = b.id => a.name = b.name /\ a.password = b.password
  /\ UNCHANGED <<asked, status, claims>>

Next ==
  \/ \E r \in Client :
       \/ Ask(r) \/ Dismiss(r)
       \/ Grant(r) \/ Settle(r) \/ Deny(r)
       \/ Confirm(r) \/ Refuse(r) \/ Withdraw(r) \/ Fail(r)
  \/ Die
  \/ Manage

Spec == Init /\ [][Next]_vars
=============================================================================
