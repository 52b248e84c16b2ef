--------------------------- MODULE AuthRepository ---------------------------
(***************************************************************************)
(* The accounts in PostgreSQL, as src/modules/auth/auth.repository.ts reads*)
(* and writes them, with the constraints the migration puts on the tables. *)
(*                                                                         *)
(* users and user_role_mappings are one table here: a row holds the names  *)
(* of the roles it is mapped to.  Of the roles only the row USER can be    *)
(* missing, and userRole is that row: whether it is there and which id it  *)
(* has.  The nested create is one transaction and one step.  A look-up of  *)
(* an account is not: it reads the three tables one after the other.       *)
(***************************************************************************)
EXTENDS Errors

CONSTANTS
  UserId,      \* the ids accounts may get
  Username, Email, Password,
  NoUser       \* what a look-up by id returns when there is no row

RoleName == {"ADMIN", "USER"}

\* bcrypt: a hash that compares equal to one password.
Hash(password) == [hashOf |-> password]

UserRow == [username : Username, email : Email,
            password : [hashOf : Password], isActive : BOOLEAN, roles : SUBSET RoleName]

RoleRow == [id : Nat, present : BOOLEAN]

ASSUME NoUserAssumption == NoUser \notin UserRow

VARIABLES
  users,       \* UserId -> its row, or NoUser
  userRole     \* the row USER of the table roles

db == <<users, userRole>>

DbTypeOK ==
  /\ users \in [UserId -> UserRow \cup {NoUser}]
  /\ userRole \in RoleRow

Stored(table) == {u \in UserId : table[u] # NoUser}

----------------------------------------------------------------------------
(* findUnique with userRoles and their role included.  The Prisma client   *)
(* has no relation joins (they are a preview feature the schema does not   *)
(* ask for) and opens no transaction for a read: it sends a SELECT to      *)
(* users, one to user_role_mappings and one to roles, and others write in  *)
(* between.                                                                *)

\* The SELECT from users, by a unique column: the ids of the rows that match.
FindByUsername(username) == {u \in Stored(users) : users[u].username = username}

FindByEmail(email) == {u \in Stored(users) : users[u].email = email}

FindById(id) == {u \in Stored(users) : u = id}

Roleless(row) == [row EXCEPT !.roles = {}]

\* An account half read: its row, whether the mappings have been read, and the
\* id of the role USER they refer to.
Partial == [id : UserId, row : UserRow, mapped : BOOLEAN, roleId : Nat]

SelectUser(u) == [id |-> u, row |-> Roleless(users[u]), mapped |-> FALSE, roleId |-> 0]

\* An account deleted since has no mappings.
RolesOf(u) == IF users[u] = NoUser THEN {} ELSE users[u].roles

SelectUserRoles(half) ==
  [half EXCEPT !.row.roles = RolesOf(half.id), !.mapped = TRUE, !.roleId = userRole.id]

----------------------------------------------------------------------------
(* createUser: the row and its mapping to the role, in one transaction.    *)

NewRow(username, email, password) ==
  [username |-> username, email |-> email, password |-> password,
   isActive |-> TRUE, roles |-> {"USER"}]

\* Mutant: the index on users.email is not unique.
ViolatesUsernameOnly(username, email) == FindByUsername(username) # {}

\* users_username_key, users_email_key.
ViolatesUnique(username, email) ==
  FindByUsername(username) # {} \/ FindByEmail(email) # {}

\* user_role_mappings_role_id_fkey.
ViolatesRoleKey(roleId) == ~userRole.present \/ userRole.id # roleId

\* The SELECT from roles misses a role that is mapped: Prisma rejects the query.
LosesRole(half) == "USER" \in half.row.roles /\ ViolatesRoleKey(half.roleId)

UniqueConstraintFailed == CodedError("PrismaClientKnownRequestError", "P2002", "invalid")
ForeignKeyFailed       == CodedError("PrismaClientKnownRequestError", "P2003", "invalid")

InsertUser(u, row) == users' = [users EXCEPT ![u] = row] /\ UNCHANGED userRole

----------------------------------------------------------------------------
(* Changes made past this API.  Nothing under src/ deactivates, deletes or *)
(* re-roles an account, or drops a role; the columns, the cascades of the  *)
(* schema and the checks on isActive and on a missing role are there for   *)
(* an operator who does.                                                   *)

SetActive(u) ==
  /\ users' = [users EXCEPT ![u].isActive = ~@]
  /\ UNCHANGED userRole

DeleteUser(u) ==
  /\ users' = [users EXCEPT ![u] = NoUser]
  /\ UNCHANGED userRole

GrantRole(u, role) ==
  /\ role \notin users[u].roles
  /\ role = "USER" => userRole.present
  /\ users' = [users EXCEPT ![u].roles = @ \cup {role}]
  /\ UNCHANGED userRole

RevokeRole(u, role) ==
  /\ role \in users[u].roles
  /\ users' = [users EXCEPT ![u].roles = @ \ {role}]
  /\ UNCHANGED userRole

\* ON DELETE CASCADE takes the mappings with the role.
DropUserRole ==
  /\ userRole.present
  /\ userRole' = [userRole EXCEPT !.present = FALSE]
  /\ users' = [u \in UserId |->
       IF users[u] = NoUser THEN NoUser
       ELSE [users[u] EXCEPT !.roles = @ \ {"USER"}]]

\* The seeder (prisma/seeds/seed-pg.js) puts it back under a new id.
SeedUserRole ==
  /\ ~userRole.present
  /\ userRole' = [id |-> userRole.id + 1, present |-> TRUE]
  /\ UNCHANGED users

Administer ==
  \/ \E u \in Stored(users) :
       \/ SetActive(u)
       \/ DeleteUser(u)
       \/ \E role \in RoleName : GrantRole(u, role) \/ RevokeRole(u, role)
  \/ DropUserRole
  \/ SeedUserRole

----------------------------------------------------------------------------
(* No two accounts share a username or an e-mail address: the look-ups of  *)
(* login and register are by a column that names one account.  register    *)
(* tests for both columns several awaits before it inserts, so two         *)
(* registrations at once pass the tests together; the indexes of the table *)
(* are what keeps the accounts apart.                                      *)
UniqueAccounts ==
  \A u, v \in Stored(users) :
    u # v => users[u].username # users[v].username /\ users[u].email # users[v].email
=============================================================================
