---------------------------- MODULE CountryList ----------------------------
(***************************************************************************)
(* The service of src/modules/country while seeders run: what its answers  *)
(* hold.  (Server has the same handlers with their connections, Seed the   *)
(* tables.)  getAllCountries asks for the rows and for their number in two *)
(* statements at once, on two connections; a look-up by either code is one *)
(* statement, and a code nobody has is answered 200 with null.  A request  *)
(* is modelled from the moment it has passed validate() of its route.  The *)
(* table may hold countries that are not in the seeders' file.             *)
(***************************************************************************)
EXTENDS Seed, Errors

CONSTANTS
  Reader,     \* requests
  NoCode,     \* a code that is in no row
  None

ASSUME ReaderAssumption ==
  /\ "all" \notin Country /\ NoCode \notin Country \cup {"all"}
  /\ None \notin AnswerSet \cup Nat /\ None \notin Country \cup {"all", NoCode}
  /\ \A S \in SUBSET Country : None # S

VARIABLES
  wanted,     \* request -> "all", or the code it asks for
  rows,       \* request -> the countries findAll or findByCode returned, or None
  total,      \* request -> the number count returned, or None
  reply,      \* request -> its answer, or None
  known,      \* history: request -> the countries stored when it arrived
  promised    \* history: the requests that came after a seeder's exit with 0

readerVars == <<wanted, rows, total, reply, known, promised>>
vars == <<seedVars, readerVars>>

StoredCountries == stored \cap Country

TypeOK ==
  /\ SeedTypeOK
  /\ wanted \in [Reader -> Country \cup {"all", NoCode, None}]
  /\ rows \in [Reader -> (SUBSET Country) \cup {None}]
  /\ total \in [Reader -> Nat \cup {None}]
  /\ reply \in [Reader -> AnswerSet \cup {None}]
  /\ known \in [Reader -> SUBSET Country]
  /\ promised \subseteq Reader

Init ==
  /\ SeedInit
  /\ wanted = [r \in Reader |-> None]
  /\ rows = [r \in Reader |-> None]
  /\ total = [r \in Reader |-> None]
  /\ reply = [r \in Reader |-> None]
  /\ known = [r \in Reader |-> {}]
  /\ promised = {}

Arrive(r) ==
  /\ wanted[r] = None
  /\ \E w \in Country \cup {"all", NoCode} : wanted' = [wanted EXCEPT ![r] = w]
  /\ known' = [known EXCEPT ![r] = StoredCountries]
  /\ promised' = IF \E s \in Seeder : state[s] = "ok" THEN promised \cup {r} ELSE promised
  /\ UNCHANGED <<seedVars, rows, total, reply>>

\* Promise.all is there when both of its statements are.
Return(r) == reply' = [reply EXCEPT ![r] = OkAnswer]

Waiting(r) == wanted[r] # None /\ reply[r] = None

\* Mutant: the first page only.
FindFirst(r) == IF wanted[r] = "all" THEN {c \in StoredCountries : c = Countries[1]}
                ELSE StoredCountries \cap {wanted[r]}

Find(r) == IF wanted[r] = "all" THEN StoredCountries ELSE StoredCountries \cap {wanted[r]}

\* findAll, findByCode, findByCodeIso3.
FindRows(r) ==
  /\ Waiting(r) /\ rows[r] = None
  /\ rows' = [rows EXCEPT ![r] = Find(r)]
  /\ IF wanted[r] # "all" \/ total[r] # None THEN Return(r) ELSE UNCHANGED reply
  /\ UNCHANGED <<seedVars, wanted, total, known, promised>>

\* Mutant: the roles are counted as well.
CountRowsOfBoth(r) ==
  /\ Waiting(r) /\ wanted[r] = "all" /\ total[r] = None
  /\ total' = [total EXCEPT ![r] = Cardinality(stored)]
  /\ IF rows[r] # None THEN Return(r) ELSE UNCHANGED reply
  /\ UNCHANGED <<seedVars, wanted, rows, known, promised>>

CountRows(r) ==
  /\ Waiting(r) /\ wanted[r] = "all" /\ total[r] = None
  /\ total' = [total EXCEPT ![r] = Cardinality(StoredCountries)]
  /\ IF rows[r] # None THEN Return(r) ELSE UNCHANGED reply
  /\ UNCHANGED <<seedVars, wanted, rows, known, promised>>

\* A statement fails: the request is answered with the error.
QueryFails(r) ==
  /\ Waiting(r)
  /\ \E e \in DbErrors : reply' = [reply EXCEPT ![r] = ErrorMiddleware(e)]
  /\ UNCHANGED <<seedVars, wanted, rows, total, known, promised>>

Read(r) == FindRows(r) \/ CountRows(r) \/ QueryFails(r)

Next ==
  \/ SeedNext /\ UNCHANGED readerVars
  \/ \E r \in Reader : Arrive(r) \/ Read(r)

Spec == Init /\ [][Next]_vars

FairSpec ==
  /\ Spec
  /\ \A s \in Seeder : WF_vars(SeederStep(s) /\ UNCHANGED readerVars)

----------------------------------------------------------------------------
(* Properties.  Those of the seeders are stated in Seed.                   *)

Listed(r) == reply[r] = OkAnswer /\ wanted[r] = "all"

(***************************************************************************)
(* A list and its total are read in two statements, and a seeder may insert*)
(* between them: either can be the larger.  But both lie between what was  *)
(* stored when the request came and what is stored now; so they agree      *)
(* whenever nothing was inserted meanwhile.                                *)
(***************************************************************************)
ListIsOfItsTime ==
  \A r \in Reader : Listed(r) =>
    /\ known[r] \subseteq rows[r] /\ rows[r] \subseteq StoredCountries
    /\ total[r] \in Cardinality(known[r]) .. Cardinality(StoredCountries)

(***************************************************************************)
(* Once some seeder has exited with 0, every list has at least the         *)
(* countries of the file, its total is no smaller than their number, and   *)
(* each of them is found by its code, whatever other seeders and operators *)
(* still do: a deployment that waits for one seeder serves no half-filled  *)
(* list.                                                                   *)
(***************************************************************************)
SeededListIsComplete ==
  \A r \in promised :
    /\ Listed(r) => /\ RowsOf(Countries) \subseteq rows[r]
                    /\ Cardinality(RowsOf(Countries)) <= total[r]
    /\ reply[r] = OkAnswer /\ wanted[r] \in RowsOf(Countries) => rows[r] = {wanted[r]}
=============================================================================
