---------------------------- MODULE BillingStores ----------------------------
(***************************************************************************)
(* The three stores behind the billing.Store interface, given the same     *)
(* calls: MemoryStore, with which the handlers are tested, SQLiteStore     *)
(* (pkg/billing/store.go, oauth_store.go), on which all of them run, and   *)
(* PostgresStore (postgres_store.go), which the MCP server and the         *)
(* dashboard can open instead.  Tenants are made by signup, the            *)
(* administrator or a login; a handler reads one and writes it back later; *)
(* others suspend it or verify its address between.  GetTenant of          *)
(* MemoryStore returns the stored object itself, so what a handler holds   *)
(* is never older than the store.  Time is counted in half seconds: SQLite *)
(* keeps whole ones.                                                       *)
(***************************************************************************)
EXTENDS Naturals

CONSTANTS
    Account,      \* tenant IDs
    Customer,     \* Stripe customer IDs
    NoCustomer,
    KeyID,        \* API keys
    MaxWrites,    \* bound: calls that write
    MaxMoment     \* bound: half seconds that pass

ASSUME BillingStoreAssumption == MaxWrites \in Nat /\ MaxMoment \in Nat /\ NoCustomer \notin Customer

Never == MaxMoment + 2                 \* the expiry of a key without one
Address == {"ann@x", "Ann@X"}
LowerCase(address) == "ann@x"

TenantRow ==
    [email : Address, plan : {"free", "team"}, status : {"active", "suspended"},
     customer : Customer \cup {NoCustomer}, verified : BOOLEAN, created : 0 .. MaxMoment]
KeyRow == [owner : Account, expires : 0 .. Never, revoked : BOOLEAN]

\* A store: the tenants and the keys that are in it, each with its row.
Tables == [tenants : UNION {[A -> TenantRow] : A \in SUBSET Account},
           keys : UNION {[K -> KeyRow] : K \in SUBSET KeyID}]

VARIABLES
    memory, sqlite, postgres,   \* the stores
    copies,      \* the tenants handlers have read, with the rows SQLite and Postgres gave
    refused,     \* tenants an update of which SQLite has refused
    overtaken,   \* tenants whose row was replaced by one read before its status changed
    writes,      \* the number of calls that wrote
    moment

billingStoreVars == <<memory, sqlite, postgres, copies, refused, overtaken, writes, moment>>

Nothing == [x \in {} |-> x]

\* The row of an ID, inserted or replaced.
Insert(table, id, row) == [x \in DOMAIN table \cup {id} |-> IF x = id THEN row ELSE table[x]]
WithTenant(store, a, row) == [store EXCEPT !.tenants = Insert(@, a, row)]
WithKey(store, k, row) == [store EXCEPT !.keys = Insert(@, k, row)]

\* RFC 3339 without a fraction, as SQLite's columns have it.
WholeSeconds(t) == t - (t % 2)

(***************************************************************************)
(* Tenants.  The IDs of new tenants and keys are random: what the stores   *)
(* do with one they have already is not called for.                        *)
(***************************************************************************)

NewAccount(address) ==
    [email |-> address, plan |-> "free", status |-> "active", customer |-> NoCustomer,
     verified |-> FALSE, created |-> moment]

\* No tenants, or all of them from the start.
BillingStoreInit ==
    /\ moment = 0 /\ writes = 0
    /\ \E accounts \in {{}, Account} :
        memory = [tenants |-> [a \in accounts |-> NewAccount("ann@x")], keys |-> Nothing]
    /\ sqlite = memory /\ postgres = memory
    /\ copies = Nothing /\ refused = {} /\ overtaken = {}

MemoryPutTenant(a, row) == WithTenant(memory, a, row)
SQLitePutTenant(a, row) == WithTenant(sqlite, a, [row EXCEPT !.created = WholeSeconds(@)])
PostgresPutTenant(a, row) == WithTenant(postgres, a, row)

PutTenant(a, address) ==
    /\ a \notin DOMAIN sqlite.tenants
    /\ memory' = MemoryPutTenant(a, NewAccount(address))
    /\ sqlite' = SQLitePutTenant(a, NewAccount(address))
    /\ postgres' = PostgresPutTenant(a, NewAccount(address))
    /\ UNCHANGED <<copies, refused, overtaken, moment>>

\* What the databases return is a copy (scanTenant, pgScanTenant).
ScanTenant(a) == sqlite.tenants[a]
PgScanTenant(a) == postgres.tenants[a]

ReadTenant(a) ==
    /\ a \in DOMAIN sqlite.tenants \ DOMAIN copies
    /\ copies' = Insert(copies, a, [lite |-> ScanTenant(a), pg |-> PgScanTenant(a)])
    /\ UNCHANGED <<memory, sqlite, postgres, refused, overtaken, writes, moment>>

\* What a handler changes of a tenant: the plan, or the customer (and with it the other
\* columns of Stripe).
Change == {"team"} \cup Customer
Changed(row, change) ==
    IF change \in Customer THEN [row EXCEPT !.customer = change] ELSE [row EXCEPT !.plan = change]

\* The index tenants_stripe_customer is unique where there is a customer.
CustomerTaken(tenants, a, customer) ==
    customer # NoCustomer /\ \E b \in DOMAIN tenants \ {a} : tenants[b].customer = customer

\* The object is in the map already, and changed.
MemoryUpdateTenant(a, change) == WithTenant(memory, a, Changed(memory.tenants[a], change))

\* Mutant of SQLiteUpdateTenant: the time of the verification is a column like others.
WriteVerifiedToo(a, row) == WithTenant(sqlite, a, row)

\* All columns but those of creation, of the seed and of the verification.
SQLiteUpdateTenant(a, row) ==
    WithTenant(sqlite, a, [row EXCEPT !.verified = sqlite.tenants[a].verified])

\* Mutant of PostgresUpdateTenant: the status is left to SuspendTenant.
LeaveStatus(a, row) == WithTenant(postgres, a, [postgres.tenants[a] EXCEPT !.plan = row.plan])

\* Name, address, plan, status and quota: the columns of Stripe are not among them.
PostgresUpdateTenant(a, row) ==
    WithTenant(postgres, a, [postgres.tenants[a] EXCEPT !.plan = row.plan, !.status = row.status])

UpdateTenant(a, change) ==
    /\ a \in DOMAIN copies
    /\ LET lite == Changed(copies[a].lite, change)
           clash == CustomerTaken(sqlite.tenants, a, lite.customer)
       IN  /\ memory' = MemoryUpdateTenant(a, change)
           /\ sqlite' = IF clash THEN sqlite ELSE SQLiteUpdateTenant(a, lite)
           /\ postgres' = PostgresUpdateTenant(a, Changed(copies[a].pg, change))
           /\ refused' = refused \cup {b \in {a} : clash}
           /\ overtaken' = overtaken \cup {b \in {a} : lite.status # sqlite.tenants[a].status}
    /\ copies' = [b \in DOMAIN copies \ {a} |-> copies[b]]
    /\ UNCHANGED moment

MemorySuspendTenant(a) == WithTenant(memory, a, [memory.tenants[a] EXCEPT !.status = "suspended"])
SQLiteSuspendTenant(a) == WithTenant(sqlite, a, [sqlite.tenants[a] EXCEPT !.status = "suspended"])
PostgresSuspendTenant(a) == WithTenant(postgres, a, [postgres.tenants[a] EXCEPT !.status = "suspended"])

Suspend(a) ==
    /\ a \in DOMAIN sqlite.tenants
    /\ memory' = MemorySuspendTenant(a)
    /\ sqlite' = SQLiteSuspendTenant(a)
    /\ postgres' = PostgresSuspendTenant(a)
    /\ UNCHANGED <<copies, refused, overtaken, moment>>

MemoryMarkTenantEmailVerified(a) == WithTenant(memory, a, [memory.tenants[a] EXCEPT !.verified = TRUE])
SQLiteMarkTenantEmailVerified(a) == WithTenant(sqlite, a, [sqlite.tenants[a] EXCEPT !.verified = TRUE])
PostgresMarkTenantEmailVerified(a) == WithTenant(postgres, a, [postgres.tenants[a] EXCEPT !.verified = TRUE])

MarkTenantEmailVerified(a) ==
    /\ a \in DOMAIN sqlite.tenants
    /\ memory' = MemoryMarkTenantEmailVerified(a)
    /\ sqlite' = SQLiteMarkTenantEmailVerified(a)
    /\ postgres' = PostgresMarkTenantEmailVerified(a)
    /\ UNCHANGED <<copies, refused, overtaken, moment>>

\* The tenants GetTenantByEmail may return: any of a map, the oldest of a table.
Oldest(tenants, found) == {a \in found : \A b \in found : tenants[a].created <= tenants[b].created}
WithAddress(tenants, address) == {a \in DOMAIN tenants : tenants[a].email = address}

MemoryGetTenantByEmail(address) == WithAddress(memory.tenants, address)
SQLiteGetTenantByEmail(address) ==
    Oldest(sqlite.tenants, WithAddress(sqlite.tenants, LowerCase(address)))
PostgresGetTenantByEmail(address) ==
    Oldest(postgres.tenants, WithAddress(postgres.tenants, LowerCase(address)))

(***************************************************************************)
(* Keys.  The administrator may name any tenant, there or not.             *)
(***************************************************************************)

MemoryPutAPIKey(k, row) == WithKey(memory, k, row)
SQLitePutAPIKey(k, row) ==
    IF row.owner \in DOMAIN sqlite.tenants
    THEN WithKey(sqlite, k, [row EXCEPT !.expires = IF @ = Never THEN @ ELSE WholeSeconds(@)])
    ELSE sqlite
PostgresPutAPIKey(k, row) ==
    IF row.owner \in DOMAIN postgres.tenants THEN WithKey(postgres, k, row) ELSE postgres

PutAPIKey(k, a, expires) ==
    /\ k \notin DOMAIN memory.keys
    /\ LET row == [owner |-> a, expires |-> expires, revoked |-> FALSE]
       IN  /\ memory' = MemoryPutAPIKey(k, row)
           /\ sqlite' = SQLitePutAPIKey(k, row)
           /\ postgres' = PostgresPutAPIKey(k, row)
    /\ UNCHANGED <<copies, refused, overtaken, moment>>

\* A key that is not there is refused by each of them.
MemoryRevokeAPIKey(k) == WithKey(memory, k, [memory.keys[k] EXCEPT !.revoked = TRUE])
SQLiteRevokeAPIKey(k) ==
    IF k \in DOMAIN sqlite.keys THEN WithKey(sqlite, k, [sqlite.keys[k] EXCEPT !.revoked = TRUE])
    ELSE sqlite
PostgresRevokeAPIKey(k) ==
    IF k \in DOMAIN postgres.keys THEN WithKey(postgres, k, [postgres.keys[k] EXCEPT !.revoked = TRUE])
    ELSE postgres

RevokeAPIKey(k) ==
    /\ k \in DOMAIN memory.keys
    /\ memory' = MemoryRevokeAPIKey(k)
    /\ sqlite' = SQLiteRevokeAPIKey(k)
    /\ postgres' = PostgresRevokeAPIKey(k)
    /\ UNCHANGED <<copies, refused, overtaken, moment>>

\* Those whose hash is found and whose record is valid.
IsValid(row) == ~row.revoked /\ (row.expires = Never \/ moment <= row.expires)
ValidKeys(store, a) == {k \in DOMAIN store.keys : store.keys[k].owner = a /\ IsValid(store.keys[k])}

MemoryListAPIKeysActive(a) ==
    {k \in DOMAIN memory.keys : memory.keys[k].owner = a /\ IsValid(memory.keys[k])}

\* Mutant of SQLiteListAPIKeysActive: the second in which a key expires counts.
ListThroughSecond(a) ==
    {k \in DOMAIN sqlite.keys : /\ sqlite.keys[k].owner = a /\ ~sqlite.keys[k].revoked
                                /\ sqlite.keys[k].expires >= WholeSeconds(moment)}

\* Both sides of the comparison are texts in whole seconds.
SQLiteListAPIKeysActive(a) ==
    {k \in DOMAIN sqlite.keys : /\ sqlite.keys[k].owner = a /\ ~sqlite.keys[k].revoked
                                /\ sqlite.keys[k].expires > WholeSeconds(moment)}
PostgresListAPIKeysActive(a) ==
    {k \in DOMAIN postgres.keys : /\ postgres.keys[k].owner = a /\ ~postgres.keys[k].revoked
                                  /\ postgres.keys[k].expires > moment}

BillingTick ==
    /\ moment < MaxMoment /\ moment' = moment + 1
    /\ UNCHANGED <<memory, sqlite, postgres, copies, refused, overtaken, writes>>

\* Keys have no expiry, or one half a second ahead.
StoreCall ==
    \/ \E a \in Account :
        \/ \E address \in Address : PutTenant(a, address)
        \/ Suspend(a) \/ MarkTenantEmailVerified(a)
        \/ \E change \in Change : UpdateTenant(a, change)
        \/ \E k \in KeyID, expires \in {Never, moment + 1} : PutAPIKey(k, a, expires)
    \/ \E k \in KeyID : RevokeAPIKey(k)

BillingStoreNext ==
    \/ writes < MaxWrites /\ StoreCall /\ writes' = writes + 1
    \/ \E a \in Account : ReadTenant(a)
    \/ BillingTick

BillingStoreSpec == BillingStoreInit /\ [][BillingStoreNext]_billingStoreVars

BillingStoreTypeOK ==
    /\ memory \in Tables /\ sqlite \in Tables /\ postgres \in Tables
    /\ DOMAIN copies \subseteq DOMAIN sqlite.tenants
    /\ refused \subseteq Account /\ overtaken \subseteq Account

\* What a tenant's row says without the columns of Stripe and the time of creation.
Common(row) == <<row.email, row.plan, row.status, row.verified>>

\* The stores, given the same calls, hold the same tenants.  The databases agree on
\* all that is not Stripe's unless SQLite has refused an update for a customer another
\* tenant has; no tenant in Postgres ever gets a customer, and no two in SQLite have
\* the same.  The store the handlers are tested with agrees with SQLite, unless an
\* update was refused or undid a suspension, as it never does in memory.
TenantsAgree ==
    \A a \in Account :
        /\ a \in DOMAIN memory.tenants <=> a \in DOMAIN sqlite.tenants
        /\ a \in DOMAIN postgres.tenants <=> a \in DOMAIN sqlite.tenants
        /\ a \in DOMAIN sqlite.tenants =>
            LET mem == memory.tenants[a]  lite == sqlite.tenants[a]  pg == postgres.tenants[a]
            IN  /\ a \notin refused => Common(pg) = Common(lite)
                /\ pg.customer = NoCustomer
                /\ ~CustomerTaken(sqlite.tenants, a, lite.customer)
                /\ a \notin refused \cup overtaken =>
                    Common(mem) = Common(lite) /\ mem.customer = lite.customer
                /\ lite.status = "suspended" => mem.status = "suspended"

\* A sign-in by an address in lower case finds a tenant in all stores or in none, and
\* the one Postgres returns may be returned by SQLite, and that by memory.  A tenant
\* made with capitals in its address is found in neither database.
AddressesAgree ==
    /\ PostgresGetTenantByEmail("ann@x") \subseteq SQLiteGetTenantByEmail("ann@x")
    /\ SQLiteGetTenantByEmail("ann@x") \subseteq MemoryGetTenantByEmail("ann@x")
    /\ MemoryGetTenantByEmail("ann@x") # {} => PostgresGetTenantByEmail("ann@x") # {}
    /\ \A address \in Address :
        \A a \in SQLiteGetTenantByEmail(address) \cup PostgresGetTenantByEmail(address) :
            sqlite.tenants[a].email = LowerCase(address)

\* A key listed as active is accepted; one accepted on SQLite is accepted on the other
\* stores, which accept it for less than a second longer; and a key is a tenant's.
KeysAgree ==
    \A a \in DOMAIN sqlite.tenants :
        /\ MemoryListAPIKeysActive(a) \subseteq ValidKeys(memory, a)
        /\ SQLiteListAPIKeysActive(a) \subseteq ValidKeys(sqlite, a)
        /\ PostgresListAPIKeysActive(a) \subseteq ValidKeys(postgres, a)
        /\ ValidKeys(sqlite, a) \subseteq ValidKeys(postgres, a)
        /\ ValidKeys(postgres, a) \subseteq ValidKeys(memory, a)
        /\ \A k \in ValidKeys(postgres, a) \ ValidKeys(sqlite, a) :
                postgres.keys[k].expires < moment + 2
        /\ \A k \in DOMAIN postgres.keys \cup DOMAIN sqlite.keys :
                k \in DOMAIN postgres.keys \cap DOMAIN sqlite.keys
                /\ sqlite.keys[k].owner \in DOMAIN sqlite.tenants

\* Whatever the calls, the three stores behind billing.Store agree on tenants, on their
\* addresses and on their keys, as far as each of these says.
DriversAgree == TenantsAgree /\ AddressesAgree /\ KeysAgree
=============================================================================
