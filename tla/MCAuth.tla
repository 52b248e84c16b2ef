------------------------------- MODULE MCAuth -------------------------------
(***************************************************************************)
(* Auth on small instances.                                                *)
(***************************************************************************)
EXTENDS AuthRegistry, TLC

\* No account exists before the requests.
NoAccounts == [u \in {} |-> NoUser]

CONSTANTS admin, name1, name2, mail1, mail2, pass1

\* One account, registered earlier, that is also an administrator.
OneAccount ==
  [u \in {admin} |-> [username |-> name1, email |-> mail1, password |-> Hash(pass1),
                      isActive |-> TRUE, roles |-> {"ADMIN", "USER"}]]

\* No row of InitialUsers belongs to a request.
RequestSymmetry == Permutations(Req)
=============================================================================
