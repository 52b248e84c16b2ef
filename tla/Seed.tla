-------------------------------- MODULE Seed --------------------------------
(***************************************************************************)
(* The seeders: prisma/seeds/seed-pg.js, run by hand or by a deployment,   *)
(* any number of them at once and again after one that failed.             *)
(*                                                                         *)
(* A seeder walks the roles and then the countries of its file.  Of each   *)
(* row it asks whether the key is there and, if not, inserts it: two       *)
(* statements, outside a transaction, with whatever others do in between.  *)
(* A row is its key here (the name of a role; a country's two codes go     *)
(* together, in the file and outside it).  The migration of the countries  *)
(* and operators put other countries into the same table; nothing takes a  *)
(* row away.  Each run of the script is one seeder.                        *)
(***************************************************************************)
EXTENDS Naturals, Sequences, FiniteSets

CONSTANTS
  Seeder,      \* runs of the script
  Countries,   \* the rows of countries.sample.json, in their order
  Others,      \* countries that are not in that file
  MaxFaults    \* bound on the runs that meet a failure

Roles == <<"ADMIN", "USER">>

\* Mutant: the countries come first.
CountriesFirst == Countries \o Roles

\* The rows in the order the script walks them.
Walk == Roles \o Countries

RowsOf(list) == {list[i] : i \in DOMAIN list}

Row == RowsOf(Roles) \cup RowsOf(Countries)

Country == RowsOf(Countries) \cup Others

ASSUME SeedAssumption ==
  /\ Seeder # {}
  /\ Countries \in Seq(RowsOf(Countries))
  /\ \A i, j \in DOMAIN Walk : i # j => Walk[i] # Walk[j]
  /\ Others \cap Row = {} /\ IsFiniteSet(Others)
  /\ MaxFaults \in Nat

VARIABLES
  stored,   \* the rows of the tables roles and countries
  state,    \* seeder -> the call it waits for, or how it ended
  next,     \* seeder -> the position in Walk it has come to
  added,    \* history: the rows the seeders have inserted
  broken,   \* history: the seeders that met a failure or were killed
  alone     \* history: the seeders that never ran at the same time as another

seedVars == <<stored, state, next, added, broken, alone>>

Running == {"connect", "select", "insert", "end"}

\* Its insert is still under way when the process has been killed (adrift), or
\* has lost its connection and exited with 1 (cut).
Dangling == {"adrift", "cut"}

State == Running \cup Dangling \cup {"idle", "ok", "failed", "killed"}

SeedTypeOK ==
  /\ stored \subseteq Row \cup Others /\ added \subseteq Row
  /\ state \in [Seeder -> State]
  /\ next \in [Seeder -> 1 .. Len(Walk) + 1]
  /\ broken \subseteq Seeder /\ alone \subseteq Seeder

\* The tables hold what the migration, earlier runs and operators left.
SeedInit ==
  /\ stored \in SUBSET (Row \cup Others)
  /\ state = [s \in Seeder |-> "idle"]
  /\ next = [s \in Seeder |-> 1]
  /\ added = {} /\ broken = {} /\ alone = {}

Runners == {s \in Seeder : state[s] \in Running \cup Dangling}

To(s, new) == state' = [state EXCEPT ![s] = new]

RowOf(s) == Walk[next[s]]

\* Mutant: a row is skipped after each insert or look-up.
AdvanceTwice(s) ==
  /\ next' = [next EXCEPT ![s] = IF @ + 2 > Len(Walk) THEN Len(Walk) + 1 ELSE @ + 2]
  /\ To(s, IF next[s] + 2 > Len(Walk) THEN "end" ELSE "select")

\* The next row, or the finally block.
Advance(s) ==
  /\ next' = [next EXCEPT ![s] = @ + 1]
  /\ To(s, IF next[s] = Len(Walk) THEN "end" ELSE "select")

----------------------------------------------------------------------------
Start(s) ==
  /\ state[s] = "idle"
  /\ To(s, "connect")
  /\ alone' = IF Runners = {} THEN alone \cup {s} ELSE alone \ Runners
  /\ UNCHANGED <<stored, next, added, broken>>

Connect(s) ==
  /\ state[s] = "connect"
  /\ To(s, "select")
  /\ UNCHANGED <<stored, next, added, broken, alone>>

\* Mutant: the row is inserted without a look-up.
SelectNothing(s) ==
  /\ state[s] = "select"
  /\ To(s, "insert") /\ UNCHANGED next
  /\ UNCHANGED <<stored, added, broken, alone>>

Select(s) ==
  /\ state[s] = "select"
  /\ IF RowOf(s) \in stored THEN Advance(s) ELSE To(s, "insert") /\ UNCHANGED next
  /\ UNCHANGED <<stored, added, broken, alone>>

Store(s) ==
  /\ RowOf(s) \notin stored
  /\ stored' = stored \cup {RowOf(s)}
  /\ added' = added \cup {RowOf(s)}

\* The unique keys reject a row that came in between: the catch logs it and
\* exits with 1, and the finally block does not run.
Insert(s) ==
  /\ state[s] = "insert"
  /\ \/ Store(s) /\ Advance(s)
     \/ /\ RowOf(s) \in stored
        /\ To(s, "failed")
        /\ UNCHANGED <<stored, next, added>>
  /\ UNCHANGED <<broken, alone>>

\* client.end() and exit with 0.
End(s) ==
  /\ state[s] = "end"
  /\ To(s, "ok")
  /\ UNCHANGED <<stored, next, added, broken, alone>>

\* Mutant: the catch does not exit, and the run ends with 0.
BreakQuietly(s) ==
  /\ state[s] \in Running /\ Cardinality(broken) < MaxFaults
  /\ broken' = broken \cup {s}
  /\ To(s, "ok")
  /\ UNCHANGED <<stored, next, added, alone>>

\* A call is rejected: the catch exits with 1.  When the connection breaks, an
\* insert may have taken effect, or may still do so.
Break(s) ==
  /\ state[s] \in Running /\ Cardinality(broken) < MaxFaults
  /\ broken' = broken \cup {s}
  /\ \/ To(s, "failed") /\ UNCHANGED <<stored, added>>
     \/ state[s] = "insert" /\ To(s, "failed") /\ Store(s)
     \/ state[s] = "insert" /\ To(s, "cut") /\ UNCHANGED <<stored, added>>
  /\ UNCHANGED <<next, alone>>

\* The process is killed.  A statement it has sent is still the server's.
Kill(s) ==
  /\ state[s] \in Running /\ Cardinality(broken) < MaxFaults
  /\ broken' = broken \cup {s}
  /\ To(s, IF state[s] = "insert" THEN "adrift" ELSE "killed")
  /\ UNCHANGED <<stored, next, added, alone>>

\* The database ends an insert nobody waits for.
Land(s) ==
  /\ state[s] \in Dangling
  /\ To(s, IF state[s] = "adrift" THEN "killed" ELSE "failed")
  /\ Store(s) \/ UNCHANGED <<stored, added>>
  /\ UNCHANGED <<next, broken, alone>>

\* An operator puts another country into the table.
AddCountry ==
  /\ \E c \in Others \ stored : stored' = stored \cup {c}
  /\ UNCHANGED <<state, next, added, broken, alone>>

SeederStep(s) == Connect(s) \/ Select(s) \/ Insert(s) \/ End(s)

SeedNext ==
  \/ \E s \in Seeder : Start(s) \/ SeederStep(s) \/ Break(s) \/ Kill(s) \/ Land(s)
  \/ AddCountry

\* Every statement comes back.
SeedFairness == \A s \in Seeder : WF_seedVars(SeederStep(s))

SeedSpec == SeedInit /\ [][SeedNext]_seedVars

----------------------------------------------------------------------------
(* Properties.                                                             *)

(***************************************************************************)
(* A run that exits with 0 leaves every role and every country stored,     *)
(* whoever else inserts, fails or is killed meanwhile: what it skipped it  *)
(* had found, and what it found nobody takes back.                         *)
(***************************************************************************)
SuccessMeansSeeded == \A s \in Seeder : state[s] = "ok" => Row \subseteq stored

(***************************************************************************)
(* Two runs at once can make each other fail, but not all of them: as long *)
(* as nothing breaks, one of the runs that have started exits with 0.  Who *)
(* is refused has been overtaken by a later insert of another run, so the  *)
(* run that inserts last is refused nothing.                               *)
(***************************************************************************)
Started == {s \in Seeder : state[s] # "idle"}

SomeRunSucceeds ==
  broken = {} /\ Started # {} /\ Runners = {} => \E s \in Started : state[s] = "ok"

(***************************************************************************)
(* A run nobody runs beside, and that meets no failure, does not fail,     *)
(* from whatever an interrupted run has left: the way to mend a database   *)
(* that is seeded half-way is to run the script again.                     *)
(***************************************************************************)
RerunMends == \A s \in alone \ broken : state[s] # "failed"

(***************************************************************************)
(* No country is inserted before both roles are there: a registration finds*)
(* its role in a database into which a seeder has put a country.           *)
(***************************************************************************)
RolesComeFirst == added \cap RowsOf(Countries) # {} => RowsOf(Roles) \subseteq stored

(***************************************************************************)
(* Once a run has started, the rows come to be stored or something breaks: *)
(* the runs that lose a race end, and none of them takes the winner down.  *)
(***************************************************************************)
SeedingCompletes == \A s \in Seeder : s \in Started ~> (Row \subseteq stored \/ broken # {})
=============================================================================
