----------------------------- MODULE Migrations -----------------------------
(***************************************************************************)
(* How a store brings its database to the present schema when it is        *)
(* opened.  A version is a list of statements; one that creates a table or *)
(* an index does nothing when it is there already, one that adds a column  *)
(* to a table of SQLite fails.                                             *)
(*                                                                         *)
(* The billing database is opened by the relay, the MCP server and the     *)
(* administrator's tool, each of which migrates it; the registry, queue    *)
(* and conversation databases have one process.  A process may end between *)
(* any two statements, a transaction excepted.                             *)
(***************************************************************************)
EXTENDS Integers, Sequences

CONSTANTS
    Opener,      \* processes that open the database
    MaxOpens     \* bound on openings

ASSUME MigrationsAssumption == MaxOpens \in Nat

VARIABLES
    database,    \* which of the databases this is
    applied,     \* the statements that are in: <<version, place>>
    versions,    \* versions in the table of migrations
    opener,      \* Opener -> [at, version, place]
    opens,       \* openings so far
    disturbed,   \* openers that another one has got ahead of
    halfway      \* an opening ended after a column was added and before that was recorded

migrationVars == <<database, applied, versions, opener, opens, disturbed, halfway>>

Databases == {"billing", "postgres", "registry", "others"}

(***************************************************************************)
(* The schemas.  `make' stands for the statements with IF NOT EXISTS of a  *)
(* version, `add' for one that adds a column.                              *)
(***************************************************************************)

\* A version applied and recorded in one transaction.
Tx(s) == [way |-> "tx", stmts |-> s]
\* A version whose statements are applied one by one, with duplicates ignored.
OneByOne(s) == [way |-> "each", stmts |-> s]
\* A statement that is its own version, checked for on its own.
Plain(s) == [way |-> "plain", stmts |-> <<s>>]

migrations ==
    << Tx(<<"make">>), Tx(<<"add">>), Tx(<<"make">>),
       OneByOne(<<"add", "add", "add", "add", "make", "make">>),
       Tx(<<"add">>), Tx(<<"make">>), OneByOne(<<"add", "make", "make">>) >>

\* In Postgres columns are added with IF NOT EXISTS too.
pgMigrations == [v \in 1 .. 8 |-> Tx(<<"make">>)]

registryMigrations ==
    << Plain("make"), Plain("make"), Plain("make"), Plain("make"), Plain("add"), Plain("make") >>

\* The queue and the conversations.
otherMigrations == [v \in 1 .. 6 |-> Plain("make")]

Schema ==
    CASE database = "billing" -> migrations
      [] database = "postgres" -> pgMigrations
      [] database = "registry" -> registryMigrations
      [] database = "others" -> otherMigrations

Statements(v) == {<<v, k>> : k \in 1 .. Len(Schema[v].stmts)}
Adds(v) == {s \in Statements(v) : Schema[v].stmts[s[2]] = "add"}

MigrationInit ==
    /\ database \in Databases
    /\ applied = {} /\ versions = {}
    /\ opener = [p \in Opener |-> [at |-> "down", version |-> 0, place |-> 1]]
    /\ opens = 0 /\ disturbed = {} /\ halfway = FALSE

Single == database \in {"registry", "others"}

At(p, a, v, k) == opener' = [opener EXCEPT ![p] = [at |-> a, version |-> v, place |-> k]]
Fails(p) == At(p, "failed", opener[p].version, 1)

\* To the next version, or to the end.
Onward(p) ==
    LET v == opener[p].version
    IN  At(p, IF v = Len(Schema) THEN "up" ELSE "next", v + 1, 1)

Applying(p, s, r) ==
    /\ applied' = applied \cup s
    /\ versions' = versions \cup r
    /\ disturbed' = disturbed \cup (Opener \ {p})

\* Mutant of Current: the version after the highest one.
CurrentNext == IF versions = {} THEN 0 ELSE (CHOOSE v \in versions : \A w \in versions : v >= w) + 1

\* SELECT COALESCE(MAX(version), 0)
Current == IF versions = {} THEN 0 ELSE CHOOSE v \in versions : \A w \in versions : v >= w

\* sql.Open, the table of migrations and, in the billing stores, the version reached.
Open(p) ==
    /\ opens < MaxOpens /\ opener[p].at \in {"down", "failed"}
    /\ Single => \A q \in Opener \ {p} : opener[q].at = "down"
    /\ opens' = opens + 1
    /\ LET v == IF Single THEN 1 ELSE Current + 1
       IN  At(p, IF v > Len(Schema) THEN "up" ELSE "next", v, 1)
    /\ disturbed' = disturbed \ {p}
    /\ UNCHANGED <<database, applied, versions, halfway>>

\* A version in a transaction: a column that is there already, or a row of the
\* version that is there already (Postgres ignores that one), rolls it back.
ApplyTx(p) ==
    LET v == opener[p].version
    IN  /\ opener[p].at = "next" /\ Schema[v].way = "tx"
        /\ \/ /\ Adds(v) \cap applied = {} /\ (database = "billing" => v \notin versions)
              /\ Applying(p, Statements(v), {v}) /\ Onward(p)
           \/ /\ Adds(v) \cap applied # {} \/ (database = "billing" /\ v \in versions)
              /\ Fails(p) /\ UNCHANGED <<applied, versions, disturbed>>
        /\ UNCHANGED <<database, opens, halfway>>

\* Mutant of ApplyEach: a column that is there already is an error.
ApplyEachOnce(p) ==
    LET v == opener[p].version k == opener[p].place
    IN  /\ opener[p].at \in {"next", "each"} /\ Schema[v].way = "each"
        /\ \/ /\ <<v, k>> \notin Adds(v) \cap applied
              /\ Applying(p, {<<v, k>>}, {})
              /\ At(p, IF k = Len(Schema[v].stmts) THEN "record" ELSE "each", v, k + 1)
           \/ /\ <<v, k>> \in Adds(v) \cap applied
              /\ Fails(p) /\ UNCHANGED <<applied, versions, disturbed>>
        /\ UNCHANGED <<database, opens, halfway>>

\* migrateStripeV4 and migrateEmailVerifyV7: the next statement, which may do nothing.
ApplyEach(p) ==
    LET v == opener[p].version k == opener[p].place
    IN  /\ opener[p].at \in {"next", "each"} /\ Schema[v].way = "each"
        /\ Applying(p, {<<v, k>>}, {})
        /\ At(p, IF k = Len(Schema[v].stmts) THEN "record" ELSE "each", v, k + 1)
        /\ UNCHANGED <<database, opens, halfway>>

\* migrate of the registry, the queue and the conversations: a version that is
\* recorded is passed over, any other statement is executed.
ApplyPlain(p) ==
    LET v == opener[p].version
    IN  /\ opener[p].at = "next" /\ Schema[v].way = "plain"
        /\ \/ v \in versions /\ Onward(p) /\ UNCHANGED <<applied, versions, disturbed>>
           \/ /\ v \notin versions /\ Adds(v) \cap applied = {}
              /\ Applying(p, Statements(v), {}) /\ At(p, "record", v, 1)
           \/ /\ v \notin versions /\ Adds(v) \cap applied # {}
              /\ Fails(p) /\ UNCHANGED <<applied, versions, disturbed>>
        /\ UNCHANGED <<database, opens, halfway>>

\* The version is recorded, in the billing store with an INSERT that fails if
\* another process was first, in the others with INSERT OR IGNORE.
RecordVersion(p) ==
    LET v == opener[p].version
    IN  /\ opener[p].at = "record"
        /\ \/ /\ database = "billing" /\ v \in versions
              /\ Fails(p) /\ UNCHANGED <<applied, versions, disturbed>>
           \/ /\ database = "billing" => v \notin versions
              /\ Applying(p, {}, {v}) /\ Onward(p)
        /\ UNCHANGED <<database, opens, halfway>>

\* The process ends, in an opening or later: killed, or by an error of the database.
Die(p) ==
    /\ opener[p].at \notin {"down", "failed"}
    /\ At(p, "down", 0, 1)
    /\ halfway' = (halfway \/ (opener[p].at = "record" /\ Schema[opener[p].version].way = "plain"
                               /\ Adds(opener[p].version) # {}))
    /\ UNCHANGED <<database, applied, versions, opens, disturbed>>

MigrationNext ==
    \E p \in Opener :
        Open(p) \/ ApplyTx(p) \/ ApplyEach(p) \/ ApplyPlain(p) \/ RecordVersion(p) \/ Die(p)

MigrationSpec == MigrationInit /\ [][MigrationNext]_migrationVars

(***************************************************************************)
(* Properties                                                              *)
(***************************************************************************)

MigrationTypeOK ==
    /\ database \in Databases
    /\ versions \subseteq 1 .. Len(Schema)
    /\ applied \subseteq UNION {Statements(v) : v \in 1 .. Len(Schema)}
    /\ \A p \in Opener : opener[p].at \in {"down", "next", "each", "record", "up", "failed"}
    /\ opens \in 0 .. MaxOpens /\ disturbed \subseteq Opener /\ halfway \in BOOLEAN

\* Whatever processes open a database at the same time and wherever they end, a
\* version is recorded only with all its statements in and all earlier versions
\* recorded, so that reading the highest one is enough; a store that has opened
\* finds the whole schema; and an opening fails only if another process migrates at
\* the same time, or, in the registry, if one has ended between adding a column and
\* recording it.  Half a migration of the billing database is always taken up again.
SchemaWhole ==
    /\ \A v \in versions : Statements(v) \subseteq applied /\ 1 .. v \subseteq versions
    /\ \A p \in Opener :
          /\ opener[p].at = "up" => versions = 1 .. Len(Schema)
          /\ opener[p].at = "failed" => p \in disturbed \/ (halfway /\ database = "registry")
=============================================================================
