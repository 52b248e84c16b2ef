-------------------------- MODULE AccountRegistry --------------------------
(***************************************************************************)
(* What register promises, without its look-ups, its awaits and its tables:*)
(* a registration is accepted or refused in one step, at a moment between  *)
(* its arrival and its answer, by the accounts that exist at that moment.  *)
(* AuthRegistry shows that the handlers of Auth implement it.              *)
(*                                                                         *)
(* The one promise that is not made is the one the code cannot keep: an    *)
(* error other than "already exists", and no answer at all, say nothing of *)
(* whether the account was created, or will be.                            *)
(***************************************************************************)
CONSTANTS Client, Id, Username, Email, None

Wish    == [username : Username, email : Email]
Account == [id : Id, username : Username, email : Email]

VARIABLES
  accounts,   \* the accounts that exist
  asked,      \* client -> the account it asked for
  status      \* client -> how far its registration is

vars == <<accounts, asked, status>>

Open == {"pending", "created", "taken"}

Status == Open \cup {"idle", "confirmed", "refused", "failed", "lost"}

TypeOK ==
  /\ accounts \subseteq Account
  /\ asked \in [Client -> Wish \cup {None}]
  /\ status \in [Client -> Status]

Distinct(table) ==
  \A a, b \in table :
    a.id = b.id \/ a.username = b.username \/ a.email = b.email => a = b

\* The accounts that exist at the start are not those of the clients.
Init ==
  /\ accounts \subseteq {a \in Account : a.id \notin Client}
  /\ Distinct(accounts)
  /\ asked = [r \in Client |-> None]
  /\ status = [r \in Client |-> "idle"]

Taken(wish) == \E a \in accounts : a.username = wish.username \/ a.email = wish.email

Insert(r) ==
  /\ ~Taken(asked[r])
  /\ accounts' = accounts \cup
       {[id |-> r, username |-> asked[r].username, email |-> asked[r].email]}

Move(r, from, to) == status[r] = from /\ status' = [status EXCEPT ![r] = to]

Ask(r) ==
  /\ Move(r, "idle", "pending")
  /\ \E wish \in Wish : asked' = [asked EXCEPT ![r] = wish]
  /\ UNCHANGED accounts

Create(r) == Move(r, "pending", "created") /\ Insert(r) /\ UNCHANGED asked

Confirm(r) == Move(r, "created", "confirmed") /\ UNCHANGED <<accounts, asked>>

\* The answer may come with the decision or later.
Refuse(r) ==
  /\ Move(r, "pending", "taken") \/ Move(r, "pending", "refused")
  /\ Taken(asked[r])
  /\ UNCHANGED <<accounts, asked>>

Deliver(r) == Move(r, "taken", "refused") /\ UNCHANGED <<accounts, asked>>

\* An error: before the decision or after.
Fail(r) ==
  /\ \/ Move(r, "pending", "failed") /\ (Insert(r) \/ UNCHANGED accounts)
     \/ Move(r, "created", "failed") /\ UNCHANGED accounts
     \/ Move(r, "taken", "failed") /\ UNCHANGED accounts
  /\ UNCHANGED asked

\* The account of a client that has given up is created all the same.
CreateLate(r) ==
  /\ status[r] \in {"failed", "lost"}
  /\ Insert(r)
  /\ UNCHANGED <<asked, status>>

\* The process dies: whoever was waiting never hears.
Die ==
  /\ status' = [r \in Client |-> IF status[r] \in Open THEN "lost" ELSE status[r]]
  /\ UNCHANGED <<accounts, asked>>

\* An operator deletes an account.
Remove(a) == accounts' = accounts \ {a} /\ UNCHANGED <<asked, status>>

Next ==
  \/ \E r \in Client :
       \/ Ask(r) \/ Create(r) \/ Confirm(r)
       \/ Refuse(r) \/ Deliver(r)
       \/ Fail(r) \/ CreateLate(r)
  \/ Die
  \/ \E a \in accounts : Remove(a)

Spec == Init /\ [][Next]_vars
=============================================================================
