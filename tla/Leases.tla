------------------------------- MODULE Leases -------------------------------
(***************************************************************************)
(* Auth with a clock on each account: the last moment at which it was      *)
(* stored and active, or a request in flight had seen it so.  The history  *)
(* constrains nothing; it bounds how long the tokens of an account that is *)
(* deactivated or deleted are of use, as authenticate and getCurrentUser   *)
(* do not look at isActive.                                                *)
(***************************************************************************)
EXTENDS Auth

VARIABLE warm   \* history: account -> the last moment somebody could know it active

leaseVars == <<vars, warm>>

ActiveRow(s) == s.row.isActive

Warm ==
  {s.id : s \in {a \in Rows(users) : ActiveRow(a)}}
    \cup UNION {{s.id : s \in {a \in seen[r] : ActiveRow(a)}} : r \in InFlight}

LeaseInit == Init /\ warm = [u \in UserId |-> 0]

Warmed == warm' = [u \in UserId |-> IF u \in Warm' THEN now' ELSE warm[u]]

LeaseNext == Next /\ Warmed

LeaseSpec == LeaseInit /\ [][LeaseNext]_leaseVars

----------------------------------------------------------------------------
\* The token a request comes with is accepted.
Admitted(r, call) == pc[r] = "new" /\ pc'[r] = call

(***************************************************************************)
(* An account that is deactivated or deleted is out within the life of an  *)
(* access token: GET /me accepts a token only if less than AccessLife ago  *)
(* the account was active, or a handler was at work that had seen it       *)
(* active; a refresh only if that was less than RefreshLife ago.  Neither  *)
(* a refresh in flight, nor a chain of refreshes, nor a token sent late    *)
(* makes it longer.                                                        *)
(***************************************************************************)
AccessEnds ==
  [][\A r \in Req :
       /\ Admitted(r, "me.findByIdWithRoles") => now < warm[req'[r].token.userId] + AccessLife
       /\ Admitted(r, "refresh.findByIdWithRoles") =>
            now < warm[req'[r].token.userId] + RefreshLife]_leaseVars
=============================================================================
