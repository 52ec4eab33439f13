------------------------------ MODULE Registry ------------------------------
(***************************************************************************)
(* The relay's registry of agents (pkg/registry) and the registrations     *)
(* that write to it (handleRegister, handleRegisterSubordinate).  Agents   *)
(* of one tenant register; an agent that restarts comes back with its DID  *)
(* and a new ID, so one DID may have had several IDs.                      *)
(*                                                                         *)
(* MemoryStore keeps agents by ID and an index by DID.  FileStore is a     *)
(* MemoryStore that writes all agents to a file after each Put, without a  *)
(* lock around the snapshot and the write.  SQLiteStore upserts by DID.    *)
(* `backend' is the store in use; the SQLite table sees the same Puts in   *)
(* either case, for comparison.                                            *)
(***************************************************************************)
EXTENDS Integers, FiniteSets

CONSTANTS
    AgentID, DidOf,   \* IDs, and the DID each belongs to
    NoAgent,
    Client,           \* connections of the tenant's agents
    MaxAgentDIDs,     \* the tenant's quota
    MaxRestarts       \* bound on restarts of the relay

ASSUME RegistryAssumption == MaxAgentDIDs \in Nat /\ MaxRestarts \in Nat /\ NoAgent \notin AgentID

VARIABLES
    backend,
    agents, byDID,    \* MemoryStore
    rows,             \* the IDs in SQLite's table agents
    file,             \* what the file holds: [kind, ids]
    step, id, snap,   \* per client: where in its handler, what it registers,
                      \* the snapshot save() took
    fresh,            \* IDs no agent has used yet
    restarts,
    up,               \* the relay runs
    acked,            \* IDs whose registration was completed
    overlapped,       \* a save began while another was under way
    torn              \* the relay went down within a write of the file

regVars == <<backend, agents, byDID, rows, file, step, id, snap, fresh, restarts,
             up, acked, overlapped, torn>>

DIDs == {DidOf[a] : a \in AgentID}

RegTypeOK ==
    /\ backend \in {"file", "sqlite"}
    /\ agents \subseteq AgentID /\ rows \subseteq AgentID
    /\ byDID \in [DIDs -> AgentID \cup {NoAgent}]
    /\ file.kind \in {"json", "empty", "garbled"} /\ file.ids \subseteq AgentID
    /\ step \in [Client -> {"idle", "put", "list", "open", "write"}]
    /\ fresh \subseteq AgentID /\ acked \subseteq AgentID
    /\ up \in BOOLEAN /\ overlapped \in BOOLEAN /\ torn \in BOOLEAN

RegInit ==
    /\ backend \in {"file", "sqlite"}
    /\ agents = {} /\ rows = {}
    /\ byDID = [d \in DIDs |-> NoAgent]
    /\ file = [kind |-> "json", ids |-> {}]
    /\ step = [c \in Client |-> "idle"]
    /\ id = [c \in Client |-> NoAgent]
    /\ snap = [c \in Client |-> {}]
    /\ fresh = AgentID
    /\ restarts = 0
    /\ up = TRUE /\ acked = {} /\ overlapped = FALSE /\ torn = FALSE

Step(c, s) == step' = [step EXCEPT ![c] = s]
Done(c) ==
    /\ step' = [step EXCEPT ![c] = "idle"]
    /\ id' = [id EXCEPT ![c] = NoAgent]
    /\ snap' = [snap EXCEPT ![c] = {}]
    /\ acked' = acked \cup {id[c]}
Stored == IF backend = "sqlite" THEN rows ELSE agents
CountByTenant == Cardinality(Stored)

QuotaLeft == CountByTenant < MaxAgentDIDs

\* handleRegister up to Put: the quota is checked and not reserved.  The same
\* agent may register again with the ID it has.
Register(c) ==
    /\ up /\ step[c] = "idle"
    /\ QuotaLeft
    /\ \E a \in fresh \cup agents :
          /\ id' = [id EXCEPT ![c] = a]
          /\ fresh' = fresh \ {a}
    /\ Step(c, "put")
    /\ UNCHANGED <<backend, agents, byDID, rows, file, snap, restarts, up, acked, overlapped, torn>>

\* handleRegisterSubordinate up to Put: no quota, and always a new ID.
RegisterSubordinate(c) ==
    /\ up /\ step[c] = "idle"
    /\ \E a \in fresh :
          /\ id' = [id EXCEPT ![c] = a]
          /\ fresh' = fresh \ {a}
    /\ Step(c, "put")
    /\ UNCHANGED <<backend, agents, byDID, rows, file, snap, restarts, up, acked, overlapped, torn>>

\* Mutant: the first ID of a DID stays in the index.
IndexFirst(a) == [byDID EXCEPT ![DidOf[a]] = IF @ = NoAgent THEN a ELSE @]

IndexPut(a) == [byDID EXCEPT ![DidOf[a]] = a]

\* INSERT ... ON CONFLICT(did) DO UPDATE SET id = excluded.id ...
Upsert(a) == {r \in rows : DidOf[r] # DidOf[a]} \cup {a}

\* Put of the store in use.  The handler ignores its error.
Put(c) ==
    /\ step[c] = "put"
    /\ rows' = Upsert(id[c])
    /\ agents' = agents \cup {id[c]}
    /\ byDID' = IndexPut(id[c])
    /\ IF backend = "file" THEN Step(c, "list") /\ UNCHANGED <<id, snap, acked>> ELSE Done(c)
    /\ UNCHANGED <<backend, file, fresh, restarts, up, overlapped, torn>>

Saving(c) == step[c] \in {"open", "write"}

\* Mutant: the agents are listed before the new one is put.
SaveListFirst(c) ==
    /\ step[c] = "list"
    /\ snap' = [snap EXCEPT ![c] = agents \ {id[c]}]
    /\ Step(c, "open")
    /\ overlapped' = (overlapped \/ \E d \in Client \ {c} : Saving(d))
    /\ UNCHANGED <<backend, agents, byDID, rows, file, id, fresh, restarts, up, acked, torn>>

\* save: List, then os.WriteFile, which truncates and writes.
SaveList(c) ==
    /\ step[c] = "list"
    /\ snap' = [snap EXCEPT ![c] = agents]
    /\ Step(c, "open")
    /\ overlapped' = (overlapped \/ \E d \in Client \ {c} : Saving(d))
    /\ UNCHANGED <<backend, agents, byDID, rows, file, id, fresh, restarts, up, acked, torn>>

SaveOpen(c) ==
    /\ step[c] = "open"
    /\ file' = [kind |-> "empty", ids |-> {}]
    /\ Step(c, "write")
    /\ UNCHANGED <<backend, agents, byDID, rows, id, snap, fresh, restarts, up, acked,
                   overlapped, torn>>

\* Two writers that have both truncated write over each other: the end of a
\* longer text stays behind a shorter one.
SaveWrite(c) ==
    /\ step[c] = "write"
    /\ file' = IF Cardinality(snap[c]) >= Cardinality(file.ids)
               THEN [kind |-> "json", ids |-> snap[c]]
               ELSE [kind |-> "garbled", ids |-> file.ids]
    /\ Done(c)
    /\ UNCHANGED <<backend, agents, byDID, rows, fresh, restarts, up, overlapped, torn>>

\* The relay goes down at any moment.
Crash ==
    /\ up /\ restarts < MaxRestarts
    /\ up' = FALSE /\ restarts' = restarts + 1
    /\ torn' = (torn \/ \E c \in Client : step[c] = "write")
    /\ step' = [c \in Client |-> "idle"]
    /\ id' = [c \in Client |-> NoAgent]
    /\ snap' = [c \in Client |-> {}]
    /\ UNCHANGED <<backend, agents, byDID, rows, file, fresh, acked, overlapped>>

\* It starts again: load rebuilds the index in the order of the file, which List
\* left to chance.  A file that does not parse keeps the relay down.
Restart ==
    /\ ~up /\ up' = TRUE
    /\ IF backend = "sqlite" THEN UNCHANGED <<agents, byDID>>
       ELSE /\ file.kind = "json"
            /\ agents' = file.ids
            /\ byDID' \in {f \in [DIDs -> AgentID \cup {NoAgent}] :
                  \A d \in DIDs :
                      LET own == {a \in file.ids : DidOf[a] = d}
                      IN  f[d] \in IF own = {} THEN {NoAgent} ELSE own}
    /\ UNCHANGED <<backend, rows, file, step, id, snap, fresh, restarts, acked, overlapped, torn>>

\* GetByDID of MemoryStore and of SQLiteStore, as the set of what is found.
MemGetByDID(d) == {byDID[d]} \cap agents
SqlGetByDID(d) == {r \in rows : DidOf[r] = d}

RegNext ==
    \/ \E c \in Client :
          \/ Register(c) \/ RegisterSubordinate(c) \/ Put(c)
          \/ SaveList(c) \/ SaveOpen(c) \/ SaveWrite(c)
    \/ Crash \/ Restart

RegSpec == RegInit /\ [][RegNext]_regVars

\* A DID resolves exactly if an agent of it is registered, restarts and the
\* IDs of earlier lives included; until a restart it resolves to the same
\* agent in MemoryStore and in SQLiteStore, the last that registered.
LookupsAgree ==
    \A d \in DIDs :
        /\ MemGetByDID(d) = {} <=> \A a \in agents : DidOf[a] # d
        /\ restarts = 0 => MemGetByDID(d) = SqlGetByDID(d)

\* A relay that went down comes up again and knows every DID whose registration was
\* completed, at whatever step it went down, unless that was within a write of the
\* file or two saves had overlapped.  SQLite does so without exception.
RegistrationsSurvive ==
    backend = "sqlite" \/ (~overlapped /\ ~torn) =>
        /\ ~up => backend = "sqlite" \/ file.kind = "json"
        /\ up => \A a \in acked : \E b \in Stored : DidOf[b] = DidOf[a]

=============================================================================
