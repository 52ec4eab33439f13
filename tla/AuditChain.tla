----------------------------- MODULE AuditChain -----------------------------
(***************************************************************************)
(* The audit log of one tenant: usage_events, a chain of hashes, in the    *)
(* SQLite store (pkg/billing/store.go) and in the PostgreSQL store         *)
(* (pkg/billing/postgres_store.go).  Events are recorded by the meter of   *)
(* the MCP server and by the webhook handlers of the relay, at the same    *)
(* time.  A hash covers the previous hash and the event, and does not      *)
(* collide: it is the sequence of the events it covers.                    *)
(***************************************************************************)
EXTENDS Naturals, Sequences

CONSTANTS
    Recorder,      \* goroutines that record events
    MaxEvents,     \* bound: events recorded
    MaxSecond      \* bound: the clock, which timestamps show in seconds

ASSUME ChainAssumption == MaxEvents \in Nat /\ MaxSecond \in Nat

VARIABLES
    log,        \* rows of the SQLite table
    pgLog,      \* rows of the PostgreSQL table
    recorded,   \* events inserted so far: the next row number
    second,     \* the clock
    rec,        \* Recorder -> where it is in RecordEvent, and its values
    overlapped, \* two RecordEvents have overlapped
    unread,     \* a RecordEvent could not read the last hash
    purged,     \* an operator has purged events
    damaged     \* a row that was not the last has been lost

chainVars == <<log, pgLog, recorded, second, rec, overlapped, unread, purged, damaged>>

Hashes == UNION {[1 .. n -> 1 .. MaxEvents] : n \in 0 .. MaxEvents}

Event == [n : 1 .. MaxEvents, ts : 0 .. MaxSecond, hash : Hashes]

Out == [at |-> "out", ts |-> 0, prev |-> <<>>, seen |-> 0]

ChainInit ==
    /\ log = {} /\ pgLog = {} /\ recorded = 0 /\ second = 0
    /\ rec = [w \in Recorder |-> Out]
    /\ overlapped = FALSE /\ unread = FALSE /\ purged = FALSE /\ damaged = FALSE

auditHash(prev, n) == Append(prev, n)

\* ORDER BY ts, where the index on (tenant_id, ts) returns ties in the order of
\* rows, or ORDER BY seq.
Before(column, e, f) ==
    \/ column = "ts" /\ e.ts < f.ts
    \/ (column = "ts" => e.ts = f.ts) /\ e.n < f.n

\* The hash of the last of the rows in the given order, "" for none.
LastHash(rows, column) ==
    IF rows = {} THEN <<>>
    ELSE (CHOOSE e \in rows : \A f \in rows \ {e} : Before(column, f, e)).hash

\* What VerifyAuditChain finds: every hash is that of the row and the row before.
VerifyAuditChain(rows, column) ==
    \A e \in rows :
        e.hash = auditHash(LastHash({f \in rows : Before(column, f, e)}, column), e.n)

\* RecordEvent takes the timestamp.
BeginRecord(w) ==
    /\ rec[w].at = "out" /\ recorded < MaxEvents
    /\ rec' = [rec EXCEPT ![w] = [at |-> "read", ts |-> second, prev |-> <<>>, seen |-> recorded]]
    /\ UNCHANGED <<log, pgLog, recorded, second, overlapped, unread, purged, damaged>>

Holding(w, hash) ==
    rec' = [rec EXCEPT ![w] = [at |-> "insert", ts |-> rec[w].ts, prev |-> hash, seen |-> rec[w].seen]]

\* The SELECT of the previous hash, whose error is ignored.
ReadLast(w) ==
    /\ rec[w].at = "read"
    /\ \/ Holding(w, LastHash(log, "ts")) /\ UNCHANGED unread
       \/ Holding(w, <<>>) /\ unread' = TRUE
    /\ UNCHANGED <<log, pgLog, recorded, second, overlapped, purged, damaged>>

\* Mutant of PgRecord: the last row is looked up by time, as SQLite does.
PgRecordByTime(w) == [n |-> recorded + 1, ts |-> rec[w].ts,
                      hash |-> auditHash(LastHash(pgLog, "ts"), recorded + 1)]

\* The row PostgreSQL adds: reading and inserting are one transaction, under a
\* lock on the tenant.
PgRecord(w) == [n |-> recorded + 1, ts |-> rec[w].ts,
                hash |-> auditHash(LastHash(pgLog, "seq"), recorded + 1)]

\* The INSERT, a statement of its own.
InsertEvent(w) ==
    /\ rec[w].at = "insert"
    /\ rec' = [rec EXCEPT ![w] = Out]
    /\ \/ /\ recorded < MaxEvents
          /\ recorded' = recorded + 1
          /\ log' = log \cup {[n |-> recorded', ts |-> rec[w].ts,
                               hash |-> auditHash(rec[w].prev, recorded')]}
          /\ pgLog' = pgLog \cup {PgRecord(w)}
          /\ overlapped' = (overlapped \/ rec[w].seen # recorded)
       \/ UNCHANGED <<log, pgLog, recorded, overlapped>>     \* the INSERT fails
    /\ UNCHANGED <<second, unread, purged, damaged>>

\* billing-admin purge-events: DELETE ... WHERE ts < cutoff.
PurgeEvents(cutoff) ==
    /\ \E e \in log : e.ts < cutoff
    /\ log' = {e \in log : e.ts >= cutoff}
    /\ pgLog' = {e \in pgLog : e.ts >= cutoff}
    /\ purged' = TRUE
    /\ UNCHANGED <<recorded, second, rec, overlapped, unread, damaged>>

\* A row is lost outside the program (a partial restore, a manual statement).
LoseRow(e) ==
    /\ \E f \in log : Before("ts", e, f)
    /\ \E f \in pgLog : Before("seq", e, f)
    /\ ~damaged
    /\ log' = log \ {e}
    /\ pgLog' = {f \in pgLog : f.n # e.n}
    /\ damaged' = TRUE
    /\ UNCHANGED <<recorded, second, rec, overlapped, unread, purged>>

ChainTick ==
    /\ second < MaxSecond /\ second' = second + 1
    /\ UNCHANGED <<log, pgLog, recorded, rec, overlapped, unread, purged, damaged>>

ChainNext ==
    \/ \E w \in Recorder : BeginRecord(w) \/ ReadLast(w) \/ InsertEvent(w)
    \/ \E t \in 1 .. MaxSecond : PurgeEvents(t)
    \/ \E e \in log : LoseRow(e)
    \/ ChainTick

ChainSpec == ChainInit /\ [][ChainNext]_chainVars

ChainTypeOK ==
    /\ log \subseteq Event /\ pgLog \subseteq Event
    /\ recorded \in 0 .. MaxEvents /\ second \in 0 .. MaxSecond
    /\ rec \in [Recorder -> [at : {"out", "read", "insert"}, ts : 0 .. MaxSecond,
                             prev : Hashes, seen : 0 .. MaxEvents]]
    /\ {overlapped, unread, purged, damaged} \subseteq BOOLEAN

\* VerifyAuditChain is right: it passes a log that nobody has touched, and finds
\* that a row is missing, whatever is recorded afterwards.  For SQLite this takes
\* recordings that do not overlap and reads that succeed; for PostgreSQL, whose
\* lock spans reading and inserting, nothing more.
ChainTrusted ==
    ~purged =>
        /\ VerifyAuditChain(pgLog, "seq") <=> ~damaged
        /\ ~overlapped /\ ~unread => (VerifyAuditChain(log, "ts") <=> ~damaged)

\* RecordEvent says "The single DB connection means the read-last/insert is
\* implicitly serialized" (pkg/billing/store.go:736): recording alone never makes
\* VerifyAuditChain report tampering.
RecordingSerialized ==
    ~purged /\ ~damaged /\ ~unread => VerifyAuditChain(log, "ts")
=============================================================================
