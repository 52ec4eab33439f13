--------------------------- MODULE BackendProofs ---------------------------
(***************************************************************************)
(* Theorems about what the servers keep, for every number of agents,       *)
(* threads, messages, tenants and keys, and any number of calls.           *)
(*                                                                         *)
(* The registry, the stores of conversations and the stores of tenants:    *)
(* the indexes of a store agree with what it holds, and the stores behind  *)
(* one interface with each other.                                          *)
(***************************************************************************)
EXTENDS Backends, FiniteSetTheorems, NaturalsInduction, WellFoundedInduction, TLAPS

-----------------------------------------------------------------------------
(***************************************************************************)
(* The registry.  The index agrees with the agents, and with the table     *)
(* until a restart; what is acknowledged is in the table, or in the file   *)
(* or a snapshot that will be written.                                     *)
(***************************************************************************)
RegTypes ==
    /\ backend \in {"file", "sqlite"}
    /\ agents \subseteq AgentID /\ rows \subseteq AgentID /\ fresh \subseteq AgentID /\ acked \subseteq AgentID
    /\ byDID \in [DIDs -> AgentID \cup {NoAgent}]
    /\ file \in [kind : {"json", "empty", "garbled"}, ids : SUBSET AgentID]
    /\ step \in [Client -> {"idle", "put", "list", "open", "write"}]
    /\ id \in [Client -> AgentID \cup {NoAgent}] /\ snap \in [Client -> SUBSET AgentID]
    /\ restarts \in Nat /\ up \in BOOLEAN /\ overlapped \in BOOLEAN /\ torn \in BOOLEAN

\* A handler that is not idle has an ID, and there is none while the relay is down.
Handling ==
    /\ \A c \in Client : step[c] # "idle" => up /\ id[c] \in AgentID
    /\ backend = "sqlite" => \A c \in Client : step[c] \in {"idle", "put"}
    /\ restarts = 0 => up

Indexed ==
    /\ \A d \in DIDs : byDID[d] # NoAgent => byDID[d] \in agents /\ DidOf[byDID[d]] = d
    /\ \A a \in agents : byDID[DidOf[a]] # NoAgent
    /\ restarts = 0 => \A a \in AgentID : a \in rows <=> byDID[DidOf[a]] = a

InTable == backend = "sqlite" => \A a \in acked : \E b \in rows : DidOf[b] = DidOf[a]

Finite == IsFiniteSet(agents) /\ IsFiniteSet(file.ids) /\ \A c \in Client : IsFiniteSet(snap[c])

\* Saves that do not overlap: one writes at a time, and nothing is acknowledged while it
\* does, so its snapshot has all that was.
InFile ==
    backend = "file" /\ ~overlapped /\ ~torn =>
        /\ acked \subseteq agents
        /\ \A c \in Client : step[c] = "list" => id[c] \in agents
        /\ \A c \in Client : Saving(c) => acked \subseteq snap[c] /\ id[c] \in snap[c] /\ snap[c] \subseteq agents
        /\ \A c, d \in Client : Saving(c) /\ Saving(d) => c = d
        /\ \A c \in Client : step[c] = "write" => file.kind = "empty" /\ file.ids = {}
        /\ (\A c \in Client : step[c] # "write") => file.kind = "json" /\ acked \subseteq file.ids

RegInv == RegTypes /\ Handling /\ Indexed /\ InTable /\ Finite /\ InFile

\* What one client's step leaves of the others.
LEMMA Stepped ==
    ASSUME RegTypes, NEW c \in Client, NEW s \in {"idle", "put", "list", "open", "write"}, Step(c, s)
    PROVE  /\ step' \in [Client -> {"idle", "put", "list", "open", "write"}]
           /\ step'[c] = s /\ \A d \in Client \ {c} : step'[d] = step[d]
BY Zenon DEF RegTypes, Step

\* A handler begins with an ID.
LEMMA RegisterStep ==
    ASSUME RegInv, NEW c \in Client, Register(c) \/ RegisterSubordinate(c)
    PROVE  RegInv'
<1>1. /\ up /\ step[c] = "idle" /\ Step(c, "put")
      /\ UNCHANGED <<backend, agents, byDID, rows, file, snap, restarts, up, acked, overlapped, torn>>
      /\ \E a \in fresh \cup agents : id' = [id EXCEPT ![c] = a] /\ fresh' = fresh \ {a}
  BY Zenon DEF Register, RegisterSubordinate
<1>2. PICK a \in fresh \cup agents : id' = [id EXCEPT ![c] = a] /\ fresh' = fresh \ {a}
  BY Zenon, <1>1
<1>3. a \in AgentID /\ RegTypes
  BY Zenon DEF RegInv, RegTypes
<1>4. /\ step' \in [Client -> {"idle", "put", "list", "open", "write"}]
      /\ step'[c] = "put" /\ \A d \in Client \ {c} : step'[d] = step[d]
  BY Zenon, <1>1, <1>3, Stepped
<1>5. /\ id' \in [Client -> AgentID \cup {NoAgent}] /\ id'[c] = a
      /\ \A d \in Client \ {c} : id'[d] = id[d]
  BY Zenon, <1>2, <1>3 DEF RegTypes
<1>6. RegTypes'
  BY Zenon, <1>1, <1>2, <1>3, <1>4, <1>5 DEF RegTypes
<1>7. Handling'
  BY Zenon, <1>1, <1>3, <1>4, <1>5 DEF RegInv, Handling
<1>8. Indexed' /\ InTable' /\ Finite'
  BY Zenon, <1>1 DEF RegInv, Indexed, InTable, Finite
<1>9. InFile'
  <2> SUFFICES ASSUME backend = "file", ~overlapped, ~torn PROVE InFile'
    BY Zenon, <1>1 DEF InFile
  <2>1. ~Saving(c)' /\ ~Saving(c) /\ step'[c] \notin {"list", "write"} /\ step[c] # "write"
    BY Zenon, <1>1, <1>4 DEF Saving
  <2>2. \A d \in Client \ {c} : step'[d] = step[d] /\ id'[d] = id[d] /\ (Saving(d)' <=> Saving(d))
    BY Zenon, <1>4, <1>5 DEF Saving
  <2> QED BY Zenon, <1>1, <2>1, <2>2 DEF RegInv, InFile
<1> QED BY Zenon, <1>6, <1>7, <1>8, <1>9 DEF RegInv

\* Put: the agents, the index and the table get the ID.
LEMMA PutIndexed ==
    ASSUME RegInv, NEW a \in AgentID, agents' = agents \cup {a}, byDID' = IndexPut(a), rows' = Upsert(a),
           restarts' = restarts
    PROVE  /\ byDID' \in [DIDs -> AgentID \cup {NoAgent}] /\ agents' \subseteq AgentID /\ rows' \subseteq AgentID
           /\ Indexed' /\ IsFiniteSet(agents')
<1>1. DidOf[a] \in DIDs /\ \A b \in AgentID : DidOf[b] \in DIDs
  BY Zenon DEF DIDs
<1>2. RegTypes /\ Indexed /\ NoAgent \notin AgentID
  BY Zenon, RegistryAssumption DEF RegInv
<1>3. /\ byDID' \in [DIDs -> AgentID \cup {NoAgent}] /\ byDID'[DidOf[a]] = a
      /\ \A d \in DIDs : d # DidOf[a] => byDID'[d] = byDID[d]
  BY Zenon, <1>1, <1>2 DEF IndexPut, RegTypes
<1>4. agents' \subseteq AgentID /\ rows' \subseteq AgentID
  BY Zenon, <1>2 DEF RegTypes, Upsert
<1>5. \A b \in AgentID : b \in rows' <=> (b = a \/ (b \in rows /\ DidOf[b] # DidOf[a]))
  BY Zenon, <1>2 DEF RegTypes, Upsert
<1>6. \A d \in DIDs : byDID'[d] # NoAgent => byDID'[d] \in agents' /\ DidOf[byDID'[d]] = d
  BY Zenon, <1>2, <1>3 DEF Indexed
<1>7. \A b \in agents' : byDID'[DidOf[b]] # NoAgent
  BY Zenon, <1>1, <1>2, <1>3, <1>4 DEF Indexed
<1>8. restarts = 0 => \A b \in AgentID : b \in rows' <=> byDID'[DidOf[b]] = b
  BY Zenon, <1>1, <1>2, <1>3, <1>5 DEF Indexed
<1>9. IsFiniteSet(agents')
  BY Zenon, FS_AddElement DEF RegInv, Finite
<1> QED BY Zenon, <1>3, <1>4, <1>6, <1>7, <1>8, <1>9 DEF Indexed

\* The end of a registration: it is acknowledged, and its handler is idle.
LEMMA DoneStep ==
    ASSUME RegTypes, NEW c \in Client, Done(c), id[c] \in AgentID
    PROVE  /\ step' \in [Client -> {"idle", "put", "list", "open", "write"}]
           /\ id' \in [Client -> AgentID \cup {NoAgent}] /\ snap' \in [Client -> SUBSET AgentID]
           /\ step'[c] = "idle" /\ snap'[c] = {} /\ acked' = acked \cup {id[c]} /\ acked' \subseteq AgentID
           /\ \A d \in Client \ {c} : step'[d] = step[d] /\ id'[d] = id[d] /\ snap'[d] = snap[d]
BY Zenon DEF RegTypes, Done

\* Put of the store: the record, its place in the index and its row.
LEMMA PutStep ==
    ASSUME RegInv, NEW c \in Client, Put(c)
    PROVE  RegInv'
<1> DEFINE a == id[c]
<1>1. /\ step[c] = "put" /\ rows' = Upsert(a) /\ agents' = agents \cup {a} /\ byDID' = IndexPut(a)
      /\ UNCHANGED <<backend, file, fresh, restarts, up, overlapped, torn>>
      /\ IF backend = "file" THEN Step(c, "list") /\ UNCHANGED <<id, snap, acked>> ELSE Done(c)
  BY Zenon DEF Put
<1>2. a \in AgentID /\ RegTypes /\ up
  BY Zenon, <1>1 DEF RegInv, Handling
<1> HIDE DEF a
<1>3. /\ byDID' \in [DIDs -> AgentID \cup {NoAgent}] /\ agents' \subseteq AgentID /\ rows' \subseteq AgentID
      /\ Indexed' /\ IsFiniteSet(agents')
  BY Zenon, <1>1, <1>2, PutIndexed
<1>4. CASE backend = "file"
  <2>1. /\ step' \in [Client -> {"idle", "put", "list", "open", "write"}]
        /\ step'[c] = "list" /\ \A d \in Client \ {c} : step'[d] = step[d]
    BY Zenon, <1>1, <1>2, <1>4, Stepped
  <2>2. UNCHANGED <<id, snap, acked>>
    BY Zenon, <1>1, <1>4
  <2>3. RegTypes'
    BY Zenon, <1>1, <1>2, <1>3, <2>1, <2>2 DEF RegTypes
  <2>4. Handling' /\ InTable' /\ Finite'
    <3>1. backend' # "sqlite"
      BY Zenon, <1>1, <1>4
    <3> QED BY Zenon, <1>1, <1>2, <1>3, <2>1, <2>2, <3>1 DEF RegInv, Handling, InTable, Finite, a
  <2>5. InFile'
    <3> SUFFICES ASSUME ~overlapped, ~torn PROVE InFile'
      BY Zenon, <1>1 DEF InFile
    <3>1. ~Saving(c)' /\ ~Saving(c) /\ step'[c] # "write" /\ step[c] # "write" /\ id'[c] \in agents'
      BY Zenon, <1>1, <2>1, <2>2 DEF Saving, a
    <3>2. \A d \in Client \ {c} : step'[d] = step[d] /\ id'[d] = id[d] /\ (Saving(d)' <=> Saving(d))
      BY Zenon, <2>1, <2>2 DEF Saving
    <3> QED BY Zenon, <1>1, <1>4, <2>2, <3>1, <3>2 DEF RegInv, InFile
  <2> QED BY Zenon, <1>3, <2>3, <2>4, <2>5 DEF RegInv
<1>5. CASE backend # "file"
  <2>1. Done(c) /\ backend = "sqlite" /\ backend' = "sqlite"
    BY Zenon, <1>1, <1>2, <1>5 DEF RegTypes
  <2>2. /\ step' \in [Client -> {"idle", "put", "list", "open", "write"}]
        /\ id' \in [Client -> AgentID \cup {NoAgent}] /\ snap' \in [Client -> SUBSET AgentID]
        /\ step'[c] = "idle" /\ snap'[c] = {} /\ acked' = acked \cup {a} /\ acked' \subseteq AgentID
        /\ \A d \in Client \ {c} : step'[d] = step[d] /\ id'[d] = id[d] /\ snap'[d] = snap[d]
    BY Zenon, <1>2, <2>1, DoneStep DEF a
  <2>3. RegTypes'
    BY Zenon, <1>1, <1>2, <1>3, <2>2 DEF RegTypes
  <2>4. Handling'
    BY Zenon, <1>1, <2>1, <2>2 DEF RegInv, Handling
  <2>5. InTable'
    <3>1. \A b \in rows : b \in rows' \/ DidOf[b] = DidOf[a]
      BY Zenon, <1>1 DEF Upsert
    <3>2. a \in rows'
      BY Zenon, <1>1 DEF Upsert
    <3> QED BY Zenon, <2>1, <2>2, <3>1, <3>2 DEF RegInv, InTable
  <2>6. Finite' /\ InFile'
    BY Zenon, <1>1, <1>3, <2>1, <2>2, FS_EmptySet DEF RegInv, Finite, InFile
  <2> QED BY Zenon, <1>3, <2>3, <2>4, <2>5, <2>6 DEF RegInv
<1> QED BY Zenon, <1>4, <1>5

\* List, of save.
LEMMA SaveListStep ==
    ASSUME RegInv, NEW c \in Client, SaveList(c)
    PROVE  RegInv'
<1>1. /\ step[c] = "list" /\ snap' = [snap EXCEPT ![c] = agents] /\ Step(c, "open")
      /\ overlapped' = (overlapped \/ \E d \in Client \ {c} : Saving(d))
      /\ UNCHANGED <<backend, agents, byDID, rows, file, id, fresh, restarts, up, acked, torn>>
  BY Zenon DEF SaveList
<1>2. RegTypes /\ up /\ id[c] \in AgentID /\ backend # "sqlite"
  BY Zenon, <1>1 DEF RegInv, Handling
<1>3. /\ step' \in [Client -> {"idle", "put", "list", "open", "write"}]
      /\ step'[c] = "open" /\ \A d \in Client \ {c} : step'[d] = step[d]
  BY Zenon, <1>1, <1>2, Stepped
<1>4. /\ snap' \in [Client -> SUBSET AgentID] /\ snap'[c] = agents
      /\ \A d \in Client \ {c} : snap'[d] = snap[d]
  BY Zenon, <1>1, <1>2 DEF RegTypes
<1>5. RegTypes'
  <2>1. overlapped' \in BOOLEAN
    BY Zenon, <1>1
  <2> QED BY Zenon, <1>1, <1>2, <1>3, <1>4, <2>1 DEF RegTypes
<1>6. Handling' /\ Indexed' /\ InTable' /\ Finite'
  BY Zenon, <1>1, <1>2, <1>3, <1>4 DEF RegInv, Handling, Indexed, InTable, Finite
<1>7. InFile'
  <2> SUFFICES ASSUME backend = "file", ~overlapped', ~torn PROVE InFile'
    BY Zenon, <1>1 DEF InFile
  <2>1. ~overlapped /\ \A d \in Client \ {c} : ~Saving(d)
    BY Zenon, <1>1
  <2>2. \A d \in Client \ {c} : step'[d] = step[d] /\ id'[d] = id[d] /\ ~Saving(d)'
    BY Zenon, <1>1, <1>3, <2>1 DEF Saving
  <2>3. \A d \in Client : step'[d] # "write" /\ step[d] # "write"
    BY Zenon, <1>1, <1>3, <2>1 DEF Saving
  <2>4. acked \subseteq agents /\ id[c] \in agents /\ file.kind = "json" /\ acked \subseteq file.ids
        /\ \A d \in Client : step[d] = "list" => id[d] \in agents
    BY Zenon, <1>1, <2>1, <2>3 DEF RegInv, InFile
  <2> QED BY Zenon, <1>1, <1>3, <1>4, <2>2, <2>3, <2>4 DEF InFile
<1> QED BY Zenon, <1>5, <1>6, <1>7 DEF RegInv

\* os.WriteFile truncates the file ...
LEMMA SaveOpenStep ==
    ASSUME RegInv, NEW c \in Client, SaveOpen(c)
    PROVE  RegInv'
<1>1. /\ step[c] = "open" /\ file' = [kind |-> "empty", ids |-> {}] /\ Step(c, "write")
      /\ UNCHANGED <<backend, agents, byDID, rows, id, snap, fresh, restarts, up, acked, overlapped, torn>>
  BY Zenon DEF SaveOpen
<1>2. RegTypes /\ up /\ id[c] \in AgentID /\ backend # "sqlite"
  BY Zenon, <1>1 DEF RegInv, Handling
<1>3. /\ step' \in [Client -> {"idle", "put", "list", "open", "write"}]
      /\ step'[c] = "write" /\ \A d \in Client \ {c} : step'[d] = step[d]
  BY Zenon, <1>1, <1>2, Stepped
<1>4. file' \in [kind : {"json", "empty", "garbled"}, ids : SUBSET AgentID] /\ file'.kind = "empty" /\ file'.ids = {}
  BY Zenon, <1>1
<1>5. RegTypes'
  BY Zenon, <1>1, <1>2, <1>3, <1>4 DEF RegTypes
<1>6. Handling' /\ Indexed' /\ InTable' /\ Finite'
  BY Zenon, <1>1, <1>2, <1>3, <1>4, FS_EmptySet DEF RegInv, Handling, Indexed, InTable, Finite
<1>7. InFile'
  <2> SUFFICES ASSUME backend = "file", ~overlapped, ~torn PROVE InFile'
    BY Zenon, <1>1 DEF InFile
  <2>1. Saving(c) /\ Saving(c)'
    BY Zenon, <1>1, <1>3 DEF Saving
  <2>2. \A d \in Client \ {c} : step'[d] = step[d] /\ (Saving(d)' <=> Saving(d))
    BY Zenon, <1>3 DEF Saving
  <2> QED BY Zenon, <1>1, <1>3, <1>4, <2>1, <2>2 DEF RegInv, InFile
<1> QED BY Zenon, <1>5, <1>6, <1>7 DEF RegInv

\* ... and writes it.
LEMMA SaveWriteStep ==
    ASSUME RegInv, NEW c \in Client, SaveWrite(c)
    PROVE  RegInv'
<1> DEFINE whole == [kind |-> "json", ids |-> snap[c]]
           mixed == [kind |-> "garbled", ids |-> file.ids]
<1>1. /\ step[c] = "write" /\ Done(c)
      /\ file' = IF Cardinality(snap[c]) >= Cardinality(file.ids) THEN whole ELSE mixed
      /\ UNCHANGED <<backend, agents, byDID, rows, fresh, restarts, up, overlapped, torn>>
  BY Zenon DEF SaveWrite
<1>2. RegTypes /\ up /\ id[c] \in AgentID /\ backend # "sqlite"
  BY Zenon, <1>1 DEF RegInv, Handling
<1>3. /\ step' \in [Client -> {"idle", "put", "list", "open", "write"}]
      /\ id' \in [Client -> AgentID \cup {NoAgent}] /\ snap' \in [Client -> SUBSET AgentID]
      /\ step'[c] = "idle" /\ snap'[c] = {} /\ acked' = acked \cup {id[c]} /\ acked' \subseteq AgentID
      /\ \A d \in Client \ {c} : step'[d] = step[d] /\ id'[d] = id[d] /\ snap'[d] = snap[d]
  BY Zenon, <1>1, <1>2, DoneStep
<1>4. /\ whole \in [kind : {"json", "empty", "garbled"}, ids : SUBSET AgentID] /\ whole.kind = "json"
      /\ whole.ids = snap[c] /\ mixed \in [kind : {"json", "empty", "garbled"}, ids : SUBSET AgentID]
      /\ mixed.ids = file.ids
  BY Zenon, <1>2 DEF RegTypes
<1> HIDE DEF whole, mixed
<1>5. RegTypes'
  <2>1. file' \in [kind : {"json", "empty", "garbled"}, ids : SUBSET AgentID]
    BY Zenon, <1>1, <1>4
  <2> QED BY Zenon, <1>1, <1>2, <1>3, <2>1 DEF RegTypes
<1>6. Handling' /\ Indexed' /\ InTable'
  BY Zenon, <1>1, <1>2, <1>3 DEF RegInv, Handling, Indexed, InTable
<1>7. Finite'
  <2>1. file'.ids = snap[c] \/ file'.ids = file.ids
    BY Zenon, <1>1, <1>4
  <2> QED BY Zenon, <1>1, <1>3, <2>1, FS_EmptySet DEF RegInv, Finite
<1>8. InFile'
  <2> SUFFICES ASSUME backend = "file", ~overlapped, ~torn PROVE InFile'
    BY Zenon, <1>1 DEF InFile
  <2>1. Saving(c) /\ ~Saving(c)' /\ \A d \in Client \ {c} : ~Saving(d) /\ ~Saving(d)'
    <3>1. Saving(c) /\ ~Saving(c)'
      BY Zenon, <1>1, <1>3 DEF Saving
    <3>2. \A d \in Client \ {c} : ~Saving(d)
      BY Zenon, <3>1 DEF RegInv, InFile
    <3>3. \A d \in Client \ {c} : ~Saving(d)'
      BY Zenon, <3>2, <1>3 DEF Saving
    <3> QED BY Zenon, <3>1, <3>2, <3>3
  <2>2. acked \subseteq snap[c] /\ id[c] \in snap[c] /\ file.ids = {} /\ acked \subseteq agents
    BY Zenon, <1>1, <2>1 DEF RegInv, InFile
  <2>3. file' = whole
    <3>1. Cardinality(snap[c]) \in Nat /\ Cardinality(file.ids) = 0
      BY Zenon, <2>2, FS_EmptySet, FS_CardinalityType DEF RegInv, Finite
    <3>2. Cardinality(snap[c]) >= Cardinality(file.ids)
      BY <3>1
    <3> QED BY Zenon, <1>1, <3>2
  <2>4. file'.kind = "json" /\ acked' \subseteq file'.ids
    BY Zenon, <1>3, <1>4, <2>2, <2>3
  <2>5. acked' \subseteq agents'
    <3>1. snap[c] \subseteq agents
      BY Zenon, <2>1 DEF RegInv, InFile
    <3> QED BY Zenon, <1>1, <1>3, <2>2, <3>1
  <2>6. \A d \in Client : step'[d] # "write"
    BY Zenon, <1>3, <2>1 DEF Saving
  <2>7. \A d \in Client : step'[d] = "list" => id'[d] \in agents'
    BY Zenon, <1>1, <1>3 DEF RegInv, InFile
  <2>8. \A d \in Client : ~Saving(d)'
    BY Zenon, <2>1
  <2> QED BY Zenon, <2>4, <2>5, <2>6, <2>7, <2>8 DEF InFile
<1> QED BY Zenon, <1>5, <1>6, <1>7, <1>8 DEF RegInv

\* A crash leaves the file, unless a write was under way.
LEMMA CrashStep ==
    ASSUME RegInv, Crash
    PROVE  RegInv'
<1>1. /\ up /\ up' = FALSE /\ restarts' = restarts + 1
      /\ torn' = (torn \/ \E c \in Client : step[c] = "write")
      /\ step' = [c \in Client |-> "idle"] /\ id' = [c \in Client |-> NoAgent] /\ snap' = [c \in Client |-> {}]
      /\ UNCHANGED <<backend, agents, byDID, rows, file, fresh, acked, overlapped>>
  BY Zenon DEF Crash
<1>2. /\ \A c \in Client : step'[c] = "idle" /\ snap'[c] = {}
      /\ step' \in [Client -> {"idle", "put", "list", "open", "write"}]
      /\ id' \in [Client -> AgentID \cup {NoAgent}] /\ snap' \in [Client -> SUBSET AgentID]
  BY Zenon, <1>1
<1>3. torn' \in BOOLEAN /\ restarts' \in Nat /\ restarts' # 0
  BY <1>1 DEF RegInv, RegTypes
<1>4. RegTypes'
  BY Zenon, <1>1, <1>2, <1>3 DEF RegInv, RegTypes
<1>5. Handling' /\ Indexed' /\ InTable' /\ Finite'
  BY Zenon, <1>1, <1>2, <1>3, FS_EmptySet DEF RegInv, Handling, Indexed, InTable, Finite
<1>6. InFile'
  <2>1. \A c \in Client : ~Saving(c)' /\ step'[c] \notin {"list", "write"}
    BY Zenon, <1>2 DEF Saving
  <2>2. ~torn' => ~torn /\ \A c \in Client : step[c] # "write"
    BY Zenon, <1>1
  <2> QED BY Zenon, <1>1, <2>1, <2>2 DEF RegInv, InFile
<1> QED BY Zenon, <1>4, <1>5, <1>6 DEF RegInv

\* load rebuilds the index from the file.
LEMMA RestartStep ==
    ASSUME RegInv, Restart
    PROVE  RegInv'
<1> DEFINE Own(d) == {a \in file.ids : DidOf[a] = d}
<1>1. /\ ~up /\ up' = TRUE
      /\ UNCHANGED <<backend, rows, file, step, id, snap, fresh, restarts, acked, overlapped, torn>>
      /\ \/ backend = "sqlite" /\ UNCHANGED <<agents, byDID>>
         \/ /\ file.kind = "json" /\ agents' = file.ids /\ byDID' \in [DIDs -> AgentID \cup {NoAgent}]
            /\ \A d \in DIDs : byDID'[d] \in IF Own(d) = {} THEN {NoAgent} ELSE Own(d)
  BY Zenon DEF Restart
<1>2. RegTypes /\ Handling /\ Indexed /\ InTable /\ Finite /\ InFile
  BY Zenon DEF RegInv
<1>3. /\ \A c \in Client : step[c] = "idle"
      /\ restarts # 0
  BY Zenon, <1>1, <1>2 DEF Handling
<1>4. Handling' /\ InTable'
  BY Zenon, <1>1, <1>2 DEF Handling, InTable
<1>5. CASE backend = "sqlite" /\ UNCHANGED <<agents, byDID>>
  <2>1. RegTypes' /\ Indexed' /\ Finite'
    BY Zenon, <1>1, <1>2, <1>5 DEF RegTypes, Indexed, Finite
  <2>2. backend' # "file"
    BY Zenon, <1>1, <1>5
  <2>3. InFile'
    BY Zenon, <2>2 DEF InFile
  <2> QED BY Zenon, <1>4, <2>1, <2>3 DEF RegInv
<1>6. ASSUME file.kind = "json", agents' = file.ids, byDID' \in [DIDs -> AgentID \cup {NoAgent}],
             \A d \in DIDs : byDID'[d] \in IF Own(d) = {} THEN {NoAgent} ELSE Own(d)
      PROVE  RegInv'
  <2>0. file.ids \subseteq AgentID
    BY Zenon, <1>2 DEF RegTypes
  <2>1. RegTypes' /\ Finite'
    BY Zenon, <1>1, <1>2, <1>6, <2>0 DEF RegTypes, Finite
  <2>2. NoAgent \notin AgentID /\ \A a \in AgentID : DidOf[a] \in DIDs
    BY Zenon, RegistryAssumption DEF DIDs
  <2>3. Indexed'
    <3>1. \A d \in DIDs : byDID'[d] # NoAgent => byDID'[d] \in agents' /\ DidOf[byDID'[d]] = d
      BY Zenon, <1>6
    <3>2. \A a \in agents' : byDID'[DidOf[a]] # NoAgent
      <4> SUFFICES ASSUME NEW a \in agents' PROVE byDID'[DidOf[a]] # NoAgent
        OBVIOUS
      <4>1. a \in Own(DidOf[a]) /\ DidOf[a] \in DIDs
        BY Zenon, <1>6, <2>0, <2>2
      <4>2. byDID'[DidOf[a]] \in Own(DidOf[a])
        BY Zenon, <1>6, <4>1
      <4>3. byDID'[DidOf[a]] \in AgentID
        BY Zenon, <2>0, <4>2
      <4> QED BY Zenon, <2>2, <4>3
    <3>3. restarts' # 0
      BY Zenon, <1>1, <1>3
    <3> QED BY Zenon, <3>1, <3>2, <3>3 DEF Indexed
  <2>4. InFile'
    <3> SUFFICES ASSUME backend = "file", ~overlapped, ~torn PROVE InFile'
      BY Zenon, <1>1 DEF InFile
    <3>1. \A c \in Client : ~Saving(c)' /\ step'[c] = "idle" /\ step[c] # "write"
      BY Zenon, <1>1, <1>3 DEF Saving
    <3>2. acked' \subseteq file'.ids /\ file'.kind = "json" /\ acked' \subseteq agents'
      BY Zenon, <1>1, <1>2, <1>6, <3>1 DEF InFile
    <3> QED BY Zenon, <3>1, <3>2 DEF InFile
  <2> QED BY Zenon, <1>4, <2>1, <2>3, <2>4 DEF RegInv
<1> QED BY Zenon, <1>1, <1>5, <1>6

\* A registry starts empty.
LEMMA RegStarts ==
    ASSUME RegInit
    PROVE  RegInv
<1> USE DEF RegInit
<1>1. RegTypes
  BY Zenon DEF RegTypes
<1>2. Handling /\ Indexed /\ InTable
  <2>1. NoAgent \notin AgentID /\ \A a \in AgentID : DidOf[a] \in DIDs
    BY Zenon, RegistryAssumption DEF DIDs
  <2> QED BY Zenon, <2>1 DEF Handling, Indexed, InTable
<1>3. file.kind = "json" /\ file.ids = {} /\ (\A c \in Client : step[c] = "idle" /\ snap[c] = {})
  BY Zenon DEF RegInit
<1>4. Finite
  BY Zenon, <1>3, FS_EmptySet DEF Finite
<1>5. InFile
  BY Zenon, <1>3 DEF InFile, Saving
<1> QED BY Zenon, <1>1, <1>2, <1>4, <1>5 DEF RegInv

\* What is to be shown follows.
LEMMA RegSafe ==
    ASSUME RegInv
    PROVE  RegTypeOK /\ LookupsAgree /\ RegistrationsSurvive
<1>1. RegTypes /\ Handling /\ Indexed /\ InTable /\ InFile /\ NoAgent \notin AgentID
  BY Zenon, RegistryAssumption DEF RegInv
<1>2. RegTypeOK
  BY Zenon, <1>1 DEF RegTypeOK, RegTypes
<1>3. LookupsAgree
  <2> SUFFICES ASSUME NEW d \in DIDs
               PROVE  /\ MemGetByDID(d) = {} <=> \A a \in agents : DidOf[a] # d
                      /\ restarts = 0 => MemGetByDID(d) = SqlGetByDID(d)
    BY Zenon DEF LookupsAgree
  <2>1. agents \subseteq AgentID /\ rows \subseteq AgentID
    BY Zenon, <1>1 DEF RegTypes
  <2>2. MemGetByDID(d) = {} <=> \A a \in agents : DidOf[a] # d
    BY Zenon, <1>1, <2>1 DEF MemGetByDID, Indexed
  <2>3. ASSUME restarts = 0 PROVE MemGetByDID(d) = SqlGetByDID(d)
    <3>1. \A a : a \in MemGetByDID(d) => a \in SqlGetByDID(d)
      BY Zenon, <1>1, <2>1, <2>3 DEF MemGetByDID, SqlGetByDID, Indexed
    <3>2. \A a : a \in SqlGetByDID(d) => a \in MemGetByDID(d)
      <4> SUFFICES ASSUME NEW a \in rows, DidOf[a] = d PROVE a = byDID[d] /\ a \in agents
        BY Zenon DEF MemGetByDID, SqlGetByDID
      <4>1. a \in AgentID /\ byDID[d] = a
        BY Zenon, <1>1, <2>1, <2>3 DEF Indexed
      <4> QED BY Zenon, <1>1, <4>1 DEF Indexed
    <3> QED BY Zenon, <3>1, <3>2
  <2> QED BY Zenon, <2>2, <2>3
<1>4. RegistrationsSurvive
  <2>1. CASE backend = "sqlite"
    BY Zenon, <1>1, <2>1 DEF RegistrationsSurvive, InTable, Stored
  <2>2. CASE backend # "sqlite"
    <3>1. backend = "file"
      BY Zenon, <1>1, <2>2 DEF RegTypes
    <3>2. ~up => \A c \in Client : step[c] # "write"
      BY Zenon, <1>1 DEF Handling
    <3> QED BY Zenon, <1>1, <2>2, <3>1, <3>2 DEF RegistrationsSurvive, InFile, Stored
  <2> QED BY Zenon, <2>1, <2>2
<1> QED BY Zenon, <1>2, <1>3, <1>4

\* Both stores of the registry find the same agents, and a restart finds every DID whose
\* registration was completed, whenever the relay went down, if no save was cut short or
\* ran into another.  pkg/registry: MemoryStore, FileStore and SQLiteStore.
THEOREM RegistryIsSound == RegSpec => [](RegTypeOK /\ LookupsAgree /\ RegistrationsSurvive)
<1>1. RegInit => RegInv
  BY Zenon, RegStarts
<1>2. RegInv /\ [RegNext]_regVars => RegInv'
  <2> SUFFICES ASSUME RegInv, [RegNext]_regVars PROVE RegInv'
    OBVIOUS
  <2>1. CASE RegNext
    BY Zenon, <2>1, RegisterStep, PutStep, SaveListStep, SaveOpenStep, SaveWriteStep, CrashStep, RestartStep DEF RegNext
  <2>2. CASE UNCHANGED regVars
    BY Zenon, <2>2 DEF regVars, RegInv, RegTypes, Handling, Indexed, InTable, Finite, InFile, Saving
  <2> QED BY Zenon, <2>1, <2>2
<1>3. RegInv => RegTypeOK /\ LookupsAgree /\ RegistrationsSurvive
  BY Zenon, RegSafe
<1> QED BY <1>1, <1>2, <1>3, PTL DEF RegSpec

-----------------------------------------------------------------------------
(***************************************************************************)
(* The stores of conversations.  As long as they are to agree, the indexes *)
(* of MemoryStore have each entry once.                                    *)
(***************************************************************************)
Row == [who : SUBSET Person, count : Int]

ConvTypes ==
    /\ threads \in [Thread -> Row \cup {Nobody}]
    /\ messages \in [Message -> Thread \cup {Nobody}]
    /\ byThread \in [Thread -> [Message -> Nat]]
    /\ byPerson \in [Person -> [Thread -> Nat]]
    /\ \A t \in Thread : t \notin made => threads[t] = Nobody

SameTables ==
    /\ threads = tThreads /\ messages = tMessages /\ receipts = tReceipts
    /\ copy # Nobody => copy.thread \in Thread /\ copy.count \in Int /\ copy.count = copy.tCount

MessagesIndexed ==
    \A t \in Thread : \A m \in Message : byThread[t][m] = IF messages[m] = t THEN 1 ELSE 0

PeopleIndexed ==
    \A p \in Person : \A t \in Thread :
        byPerson[p][t] = IF threads[t] # Nobody /\ p \in threads[t].who THEN 1 ELSE 0

Agreeing == ConvTypes /\ SameTables /\ MessagesIndexed /\ PeopleIndexed

ConvInv == ~twice /\ enforced => Agreeing

\* threadsByDID after a change of the participants.
LEMMA Reindexed ==
    ASSUME byPerson \in [Person -> [Thread -> Nat]], NEW t \in Thread, NEW old, NEW who,
           \A p \in Person : byPerson[p][t] = IF p \in old THEN 1 ELSE 0
    PROVE  /\ Reindex(t, old, who) \in [Person -> [Thread -> Nat]]
           /\ \A p \in Person : \A q \in Thread :
                 Reindex(t, old, who)[p][q] = IF q = t THEN (IF p \in who THEN 1 ELSE 0) ELSE byPerson[p][q]
<1> DEFINE New(p) == CASE p \in who \ old -> [byPerson[p] EXCEPT ![t] = @ + 1]
                       [] p \in old \ who /\ byPerson[p][t] > 0 -> [byPerson[p] EXCEPT ![t] = @ - 1]
                       [] OTHER -> byPerson[p]
<1>1. \A p \in Person :
         /\ New(p) \in [Thread -> Nat]
         /\ \A q \in Thread : New(p)[q] = IF q = t THEN (IF p \in who THEN 1 ELSE 0) ELSE byPerson[p][q]
  <2> SUFFICES ASSUME NEW p \in Person
               PROVE  /\ New(p) \in [Thread -> Nat]
                      /\ \A q \in Thread : New(p)[q] = IF q = t THEN (IF p \in who THEN 1 ELSE 0) ELSE byPerson[p][q]
    BY Zenon
  <2>0. byPerson[p] \in [Thread -> Nat] /\ byPerson[p][t] = IF p \in old THEN 1 ELSE 0
    BY Zenon
  <2>1. CASE p \in who \ old
    <3>1. New(p) = [byPerson[p] EXCEPT ![t] = @ + 1]
      BY Zenon, <2>1
    <3> QED BY <2>0, <2>1, <3>1
  <2>2. CASE p \in old \ who
    <3>1. byPerson[p][t] > 0
      BY <2>0, <2>2
    <3>2. New(p) = [byPerson[p] EXCEPT ![t] = @ - 1]
      BY Zenon, <2>2, <3>1
    <3> QED BY <2>0, <2>2, <3>2
  <2>3. CASE p \notin who \ old /\ p \notin old \ who
    <3>1. New(p) = byPerson[p]
      BY Zenon, <2>3
    <3> QED BY Zenon, <2>0, <2>3, <3>1
  <2> QED BY Zenon, <2>1, <2>2, <2>3
<1>2. Reindex(t, old, who) = [p \in Person |-> New(p)]
  BY Zenon DEF Reindex
<1> HIDE DEF New
<1> QED BY Zenon, <1>1, <1>2

\* The index of people after a thread's participants have changed.
LEMMA Repeopled ==
    ASSUME byPerson \in [Person -> [Thread -> Nat]], PeopleIndexed, NEW t \in Thread, NEW old, NEW who,
           byPerson' = Reindex(t, old, who),
           \A p \in Person : p \in old <=> (threads[t] # Nobody /\ p \in threads[t].who),
           \A p \in Person : p \in who <=> (threads'[t] # Nobody /\ p \in threads'[t].who),
           \A q \in Thread \ {t} : threads'[q] = threads[q]
    PROVE  byPerson' \in [Person -> [Thread -> Nat]] /\ PeopleIndexed'
<1>1. \A p \in Person : byPerson[p][t] = IF p \in old THEN 1 ELSE 0
  <2> SUFFICES ASSUME NEW p \in Person PROVE byPerson[p][t] = IF p \in old THEN 1 ELSE 0
    OBVIOUS
  <2>1. byPerson[p][t] = IF threads[t] # Nobody /\ p \in threads[t].who THEN 1 ELSE 0
    BY Zenon DEF PeopleIndexed
  <2> QED BY Zenon, <2>1
<1> DEFINE new == Reindex(t, old, who)
<1>2. /\ new \in [Person -> [Thread -> Nat]]
      /\ \A p \in Person : \A q \in Thread :
            new[p][q] = IF q = t THEN (IF p \in who THEN 1 ELSE 0) ELSE byPerson[p][q]
  BY <1>1, Reindexed
<1> HIDE DEF new
<1>3. byPerson' = new
  BY Zenon DEF new
<1>4. ASSUME NEW p \in Person, NEW q \in Thread
      PROVE  new[p][q] = IF threads'[q] # Nobody /\ p \in threads'[q].who THEN 1 ELSE 0
  <2>1. CASE q = t
    <3>1. new[p][t] = IF p \in who THEN 1 ELSE 0
      BY Zenon, <1>2
    <3>2. CASE p \in who
      <4>1. new[p][t] = 1 /\ threads'[t] # Nobody /\ p \in threads'[t].who
        BY Zenon, <3>1, <3>2
      <4> QED BY Zenon, <2>1, <4>1
    <3>3. CASE p \notin who
      <4>1. new[p][t] = 0 /\ ~(threads'[t] # Nobody /\ p \in threads'[t].who)
        BY Zenon, <3>1, <3>3
      <4> QED BY Zenon, <2>1, <4>1
    <3> QED BY Zenon, <3>2, <3>3
  <2>2. CASE q # t
    <3>1. new[p][q] = byPerson[p][q] /\ threads'[q] = threads[q]
      BY Zenon, <1>2, <2>2
    <3>2. byPerson[p][q] = IF threads[q] # Nobody /\ p \in threads[q].who THEN 1 ELSE 0
      BY Zenon DEF PeopleIndexed
    <3> QED BY Zenon, <3>1, <3>2
  <2> QED BY Zenon, <2>1, <2>2
<1>5. \A p \in Person : \A q \in Thread :
         byPerson'[p][q] = IF threads'[q] # Nobody /\ p \in threads'[q].who THEN 1 ELSE 0
  BY <1>3, <1>4
<1> QED BY Zenon, <1>2, <1>3, <1>5 DEF PeopleIndexed

\* CreateThread, of a thread that is new.
LEMMA CreateStep ==
    ASSUME Agreeing, NEW t \in Thread, NEW who \in SUBSET Person, CreateThread(t, who)
    PROVE  Agreeing'
<1> DEFINE row == [who |-> who, count |-> 0]
<1>1. /\ t \notin made /\ made' = made \cup {t} /\ UNCHANGED <<messages, byThread, receipts, copy>>
      /\ threads' = [threads EXCEPT ![t] = row] /\ byPerson' = Reindex(t, {}, who)
      /\ tThreads' = [tThreads EXCEPT ![t] = row] /\ UNCHANGED <<tMessages, tReceipts>>
  BY Zenon DEF CreateThread, MemCreateThread, SqlCreateThread
<1>2. ConvTypes /\ SameTables /\ MessagesIndexed /\ PeopleIndexed
  BY Zenon DEF Agreeing
<1>3. row \in Row /\ row # Nobody /\ row.who = who
  BY ConversationAssumption DEF Row
<1> HIDE DEF row
<1>4. /\ threads' \in [Thread -> Row \cup {Nobody}] /\ threads'[t] = row
      /\ \A q \in Thread \ {t} : threads'[q] = threads[q]
  BY Zenon, <1>1, <1>2, <1>3 DEF ConvTypes
<1>5. threads[t] = Nobody
  BY Zenon, <1>1, <1>2 DEF ConvTypes
<1>6. /\ \A p \in Person : p \in who <=> (threads'[t] # Nobody /\ p \in threads'[t].who)
      /\ \A p \in Person : (p \in {} <=> (threads[t] # Nobody /\ p \in threads[t].who))
  BY Zenon, <1>3, <1>4, <1>5
<1>t. byPerson \in [Person -> [Thread -> Nat]]
  BY Zenon, <1>2 DEF ConvTypes
<1>7. byPerson' \in [Person -> [Thread -> Nat]] /\ PeopleIndexed'
  <2>1. byPerson' = Reindex(t, {}, who) /\ PeopleIndexed /\ \A q \in Thread \ {t} : threads'[q] = threads[q]
    BY Zenon, <1>1, <1>2, <1>4
  <2> QED BY <1>6, <1>t, <2>1, Repeopled
<1>8. ConvTypes'
  BY Zenon, <1>1, <1>2, <1>4, <1>7 DEF ConvTypes
<1>9. SameTables'
  BY Zenon, <1>1, <1>2 DEF SameTables
<1>10. MessagesIndexed'
  BY Zenon, <1>1, <1>2 DEF MessagesIndexed
<1> QED BY Zenon, <1>7, <1>8, <1>9, <1>10 DEF Agreeing

\* GetThread: what a caller has of a thread is a copy.
LEMMA GetThreadStep ==
    ASSUME Agreeing, NEW t \in Thread, GetThread(t)
    PROVE  Agreeing'
<1>1. /\ threads[t] # Nobody
      /\ copy' = [thread |-> t, count |-> threads[t].count, tCount |-> tThreads[t].count]
      /\ UNCHANGED <<threads, messages, byThread, byPerson, receipts, tThreads, tMessages, tReceipts, made>>
  BY Zenon DEF GetThread, memVars, sqlVars, historyVars
<1>2. threads[t].count \in Int /\ threads = tThreads
  BY Zenon, <1>1 DEF Agreeing, ConvTypes, SameTables, Row
<1>3. copy'.thread = t /\ copy'.count \in Int /\ copy'.count = copy'.tCount
  BY Zenon, <1>1, <1>2
<1>4. ConvTypes' /\ MessagesIndexed' /\ PeopleIndexed'
  BY Zenon, <1>1 DEF Agreeing, ConvTypes, MessagesIndexed, PeopleIndexed
<1>5. SameTables'
  BY Zenon, <1>1, <1>3 DEF Agreeing, SameTables
<1> QED BY Zenon, <1>4, <1>5 DEF Agreeing

\* UpdateThread writes a copy back, with the count it had.
LEMMA UpdateStep ==
    ASSUME Agreeing, NEW who \in SUBSET Person, UpdateThread(who)
    PROVE  Agreeing'
<1> DEFINE t == copy.thread
           row == [who |-> who, count |-> copy.count]
<1>1. /\ copy # Nobody /\ copy' = Nobody /\ UNCHANGED made
      /\ MemUpdateThread(t, who, copy.count) /\ SqlUpdateThread(t, who, copy.tCount)
  BY Zenon DEF UpdateThread
<1>2. ConvTypes /\ SameTables /\ MessagesIndexed /\ PeopleIndexed
  BY Zenon DEF Agreeing
<1>3. t \in Thread /\ copy.count \in Int /\ copy.tCount = copy.count
  BY Zenon, <1>1, <1>2 DEF SameTables
<1>4. CASE threads[t] = Nobody
  <2>1. /\ UNCHANGED <<threads, messages, byThread, byPerson, receipts>> /\ UNCHANGED <<tThreads, tMessages, tReceipts>>
    BY Zenon, <1>1, <1>2, <1>4 DEF MemUpdateThread, SqlUpdateThread, memVars, SameTables
  <2>2. ConvTypes' /\ SameTables' /\ MessagesIndexed' /\ PeopleIndexed'
    BY Zenon, <1>1, <1>2, <2>1 DEF ConvTypes, SameTables, MessagesIndexed, PeopleIndexed
  <2> QED BY Zenon, <2>2 DEF Agreeing
<1>5. CASE threads[t] # Nobody
  <2>1. /\ threads' = [threads EXCEPT ![t] = row] /\ byPerson' = Reindex(t, threads[t].who, who)
        /\ UNCHANGED <<messages, byThread, receipts>>
        /\ tThreads' = [tThreads EXCEPT ![t] = row] /\ UNCHANGED <<tMessages, tReceipts>>
    BY Zenon, <1>1, <1>2, <1>3, <1>5 DEF MemUpdateThread, SqlUpdateThread, SameTables
  <2>2. row \in Row /\ row # Nobody /\ row.who = who
    BY <1>3, ConversationAssumption DEF Row
  <2> HIDE DEF row, t
  <2>3. /\ threads' \in [Thread -> Row \cup {Nobody}] /\ threads'[t] = row
        /\ \A q \in Thread \ {t} : threads'[q] = threads[q]
    BY Zenon, <1>2, <1>3, <2>1, <2>2 DEF ConvTypes
  <2>4. /\ \A p \in Person : p \in who <=> (threads'[t] # Nobody /\ p \in threads'[t].who)
        /\ \A p \in Person : (p \in threads[t].who <=> (threads[t] # Nobody /\ p \in threads[t].who))
    BY Zenon, <1>5, <2>2, <2>3
  <2>t. byPerson \in [Person -> [Thread -> Nat]]
    BY Zenon, <1>2 DEF ConvTypes
  <2>5. byPerson' \in [Person -> [Thread -> Nat]] /\ PeopleIndexed'
    <3>1. /\ byPerson' = Reindex(t, threads[t].who, who) /\ PeopleIndexed
          /\ \A q \in Thread \ {t} : threads'[q] = threads[q]
      BY Zenon, <1>2, <2>1, <2>3
    <3> QED BY Zenon, <1>3, <2>4, <2>t, <3>1, Repeopled
  <2>6. ConvTypes'
    <3>1. t \in made
      BY Zenon, <1>2, <1>3, <1>5 DEF ConvTypes
    <3> QED BY Zenon, <1>1, <1>2, <2>1, <2>3, <2>5, <3>1 DEF ConvTypes
  <2>7. SameTables'
    BY Zenon, <1>1, <1>2, <2>1 DEF SameTables
  <2>8. MessagesIndexed'
    BY Zenon, <1>2, <2>1 DEF MessagesIndexed
  <2> QED BY Zenon, <2>5, <2>6, <2>7, <2>8 DEF Agreeing
<1> QED BY Zenon, <1>4, <1>5

\* DeleteThread, with the thread's messages and their receipts.
LEMMA DeleteThreadStep ==
    ASSUME Agreeing, enforced, NEW t \in Thread, DeleteThread(t)
    PROVE  Agreeing'
<1> DEFINE gone == {m \in Message : byThread[t][m] > 0}
           none == [m \in Message |-> 0]
<1>1. /\ threads[t] # Nobody /\ UNCHANGED <<copy, made>>
      /\ threads' = [threads EXCEPT ![t] = Nobody] /\ byPerson' = Reindex(t, threads[t].who, {})
      /\ messages' = Without(messages, gone) /\ receipts' = Drop(receipts, gone)
      /\ byThread' = [byThread EXCEPT ![t] = none]
  BY Zenon DEF DeleteThread, MemDeleteThread, historyVars
<1>2. ConvTypes /\ SameTables /\ MessagesIndexed /\ PeopleIndexed
  BY Zenon DEF Agreeing
<1>3. /\ tThreads' = [tThreads EXCEPT ![t] = Nobody]
      /\ tMessages' = Without(tMessages, Of(tMessages, t)) /\ tReceipts' = Drop(tReceipts, Of(tMessages, t))
  <2>1. Connections = {TRUE}
    BY Zenon DEF Connections
  <2> QED BY Zenon, <2>1 DEF DeleteThread, SqlDeleteThread
<1>4. /\ gone = Of(tMessages, t) /\ \A m \in Message : m \in gone <=> messages[m] = t
  <2>1. \A m \in Message : byThread[t][m] > 0 <=> messages[m] = t
    BY <1>2 DEF MessagesIndexed
  <2>2. messages = tMessages
    BY Zenon, <1>2 DEF SameTables
  <2> QED BY Zenon, <2>1, <2>2 DEF Of
<1>5. none \in [Message -> Nat] /\ \A m \in Message : none[m] = 0
  BY Zenon
<1> HIDE DEF gone, none
<1>6. /\ threads' \in [Thread -> Row \cup {Nobody}] /\ threads'[t] = Nobody
      /\ \A q \in Thread \ {t} : threads'[q] = threads[q]
      /\ byThread' \in [Thread -> [Message -> Nat]] /\ byThread'[t] = none
      /\ \A q \in Thread \ {t} : byThread'[q] = byThread[q]
  BY Zenon, <1>1, <1>2, <1>5 DEF ConvTypes
<1>7. /\ messages' \in [Message -> Thread \cup {Nobody}]
      /\ \A m \in Message : messages'[m] = IF messages[m] = t THEN Nobody ELSE messages[m]
  BY Zenon, <1>1, <1>2, <1>4 DEF ConvTypes, Without
<1>8. byPerson' \in [Person -> [Thread -> Nat]] /\ PeopleIndexed'
  <2>1. /\ \A p \in Person : p \in {} <=> (threads'[t] # Nobody /\ p \in threads'[t].who)
        /\ \A p \in Person : (p \in threads[t].who <=> (threads[t] # Nobody /\ p \in threads[t].who))
    BY Zenon, <1>1, <1>6
  <2>2. byPerson \in [Person -> [Thread -> Nat]]
    BY Zenon, <1>2 DEF ConvTypes
  <2>3. /\ byPerson' = Reindex(t, threads[t].who, {}) /\ PeopleIndexed
        /\ \A q \in Thread \ {t} : threads'[q] = threads[q]
    BY Zenon, <1>1, <1>2, <1>6
  <2> QED BY <2>1, <2>2, <2>3, Repeopled
<1>9. ConvTypes'
  BY Zenon, <1>1, <1>2, <1>6, <1>7, <1>8 DEF ConvTypes
<1>10. SameTables'
  BY Zenon, <1>1, <1>2, <1>3, <1>4 DEF SameTables
<1>11. MessagesIndexed'
  <2> SUFFICES ASSUME NEW q \in Thread, NEW m \in Message
               PROVE  byThread'[q][m] = IF messages'[m] = q THEN 1 ELSE 0
    BY Zenon DEF MessagesIndexed
  <2>n. q # Nobody
    BY Zenon, ConversationAssumption
  <2>1. CASE q = t
    <3>1. byThread'[q][m] = 0 /\ messages'[m] # q
      BY Zenon, <1>5, <1>6, <1>7, <2>n, <2>1
    <3> QED BY Zenon, <3>1
  <2>2. CASE q # t
    <3>1. byThread'[q][m] = byThread[q][m] /\ (messages'[m] = q <=> messages[m] = q)
      BY Zenon, <1>6, <1>7, <2>n, <2>2
    <3>2. byThread[q][m] = IF messages[m] = q THEN 1 ELSE 0
      BY Zenon, <1>2 DEF MessagesIndexed
    <3> QED BY Zenon, <3>1, <3>2
  <2> QED BY Zenon, <2>1, <2>2
<1> QED BY Zenon, <1>8, <1>9, <1>10, <1>11 DEF Agreeing

\* A row with another count.
LEMMA Recounted ==
    ASSUME NEW ts \in [Thread -> Row \cup {Nobody}], NEW t \in Thread, ts[t] # Nobody, NEW n \in Int, NEW new,
           new = [ts EXCEPT ![t].count = n]
    PROVE  /\ new \in [Thread -> Row \cup {Nobody}] /\ new[t] # Nobody /\ new[t].who = ts[t].who
           /\ \A q \in Thread \ {t} : new[q] = ts[q]
<1>1. ts[t] \in Row
  BY Zenon
<1>2. [ts[t] EXCEPT !.count = n] \in Row /\ [ts[t] EXCEPT !.count = n].who = ts[t].who
  BY Zenon, <1>1 DEF Row
<1>3. new = [ts EXCEPT ![t] = [ts[t] EXCEPT !.count = n]]
  BY Zenon
<1> DEFINE row == [ts[t] EXCEPT !.count = n]
<1>4. row \in Row /\ row.who = ts[t].who /\ new = [ts EXCEPT ![t] = row] /\ row # Nobody
  BY Zenon, <1>2, <1>3, ConversationAssumption DEF Row
<1> HIDE DEF row
<1>5. new \in [Thread -> Row \cup {Nobody}] /\ new[t] = row /\ \A q \in Thread \ {t} : new[q] = ts[q]
  BY Zenon, <1>4
<1> QED BY Zenon, <1>4, <1>5

\* A count changes, the participants do not.
LEMMA CountFrame ==
    ASSUME PeopleIndexed, UNCHANGED byPerson, NEW t \in Thread, threads[t] # Nobody,
           threads'[t] # Nobody, threads'[t].who = threads[t].who,
           \A q \in Thread \ {t} : threads'[q] = threads[q]
    PROVE  PeopleIndexed'
<1> SUFFICES ASSUME NEW p \in Person, NEW q \in Thread
             PROVE  byPerson'[p][q] = IF threads'[q] # Nobody /\ p \in threads'[q].who THEN 1 ELSE 0
  BY Zenon DEF PeopleIndexed
<1>1. byPerson[p][q] = IF threads[q] # Nobody /\ p \in threads[q].who THEN 1 ELSE 0
  BY Zenon DEF PeopleIndexed
<1>2. (threads'[q] # Nobody /\ p \in threads'[q].who) <=> (threads[q] # Nobody /\ p \in threads[q].who)
  BY Zenon
<1> QED BY Zenon, <1>1, <1>2

\* SaveMessage, of a message that is saved once.
LEMMA SaveStep ==
    ASSUME Agreeing, enforced, NEW t \in Thread, NEW m \in Message, SaveMessage(m, t), ~twice'
    PROVE  Agreeing'
<1>1. /\ MemSaveMessage(m, t) /\ SqlSaveMessage(m, t) /\ UNCHANGED <<copy, made>>
      /\ threads[t] # Nobody => messages[m] = Nobody
  BY Zenon DEF SaveMessage
<1>2. ConvTypes /\ SameTables /\ MessagesIndexed /\ PeopleIndexed
  BY Zenon DEF Agreeing
<1>3. threads = tThreads /\ messages = tMessages
  BY Zenon, <1>2 DEF SameTables
<1>s. IF tMessages[m] # Nobody \/ tThreads[t] = Nobody THEN UNCHANGED <<tThreads, tMessages, tReceipts>>
      ELSE /\ tMessages' = [tMessages EXCEPT ![m] = t] /\ UNCHANGED tReceipts
           /\ tThreads' = IF tThreads[t] = Nobody THEN tThreads ELSE [tThreads EXCEPT ![t].count = @ + 1]
  <2>1. Connections = {TRUE}
    BY Zenon DEF Connections
  <2> QED BY Zenon, <1>1, <2>1 DEF SqlSaveMessage, sqlVars
<1>4. CASE threads[t] = Nobody
  <2>1. /\ UNCHANGED <<threads, messages, byThread, byPerson, receipts>> /\ UNCHANGED <<tThreads, tMessages, tReceipts>>
    BY Zenon, <1>1, <1>3, <1>4, <1>s DEF MemSaveMessage, memVars
  <2>2. ConvTypes' /\ SameTables' /\ MessagesIndexed' /\ PeopleIndexed'
    BY Zenon, <1>1, <1>2, <2>1 DEF ConvTypes, SameTables, MessagesIndexed, PeopleIndexed
  <2> QED BY Zenon, <2>2 DEF Agreeing
<1>5. CASE threads[t] # Nobody
  <2>0. messages[m] = Nobody /\ t # Nobody
    BY Zenon, <1>1, <1>5, ConversationAssumption
  <2>1. /\ messages' = [messages EXCEPT ![m] = t] /\ byThread' = [byThread EXCEPT ![t][m] = @ + 1]
        /\ threads' = [threads EXCEPT ![t].count = @ + 1] /\ UNCHANGED <<byPerson, receipts>>
    BY Zenon, <1>1, <1>5 DEF MemSaveMessage
  <2>2. /\ tMessages' = [tMessages EXCEPT ![m] = t] /\ tThreads' = [tThreads EXCEPT ![t].count = @ + 1]
        /\ UNCHANGED tReceipts
    BY Zenon, <1>3, <1>5, <1>s, <2>0
  <2>3. threads[t].count + 1 \in Int
    <3>1. threads[t] \in Row
      BY Zenon, <1>2, <1>5 DEF ConvTypes
    <3> QED BY <3>1 DEF Row
  <2>4. /\ threads' \in [Thread -> Row \cup {Nobody}] /\ threads'[t] # Nobody /\ threads'[t].who = threads[t].who
        /\ \A q \in Thread \ {t} : threads'[q] = threads[q]
    <3>1. threads \in [Thread -> Row \cup {Nobody}] /\ threads' = [threads EXCEPT ![t].count = threads[t].count + 1]
      BY Zenon, <1>2, <2>1 DEF ConvTypes
    <3> DEFINE n == threads[t].count + 1
               new == threads'
    <3>2. n \in Int /\ new = [threads EXCEPT ![t].count = n]
      BY Zenon, <2>3, <3>1
    <3> HIDE DEF n, new
    <3>3. /\ new \in [Thread -> Row \cup {Nobody}] /\ new[t] # Nobody /\ new[t].who = threads[t].who
          /\ \A q \in Thread \ {t} : new[q] = threads[q]
      BY <1>5, <3>1, <3>2, Recounted
    <3> QED BY Zenon, <3>3 DEF new
  <2>5. PeopleIndexed'
    BY Zenon, <1>2, <1>5, <2>1, <2>4, CountFrame
  <2>6. /\ messages' \in [Message -> Thread \cup {Nobody}] /\ messages'[m] = t
        /\ \A k \in Message \ {m} : messages'[k] = messages[k]
    BY Zenon, <1>2, <2>1 DEF ConvTypes
  <2>7. /\ byThread' \in [Thread -> [Message -> Nat]] /\ byThread'[t][m] = byThread[t][m] + 1
        /\ \A q \in Thread, k \in Message : q # t \/ k # m => byThread'[q][k] = byThread[q][k]
    BY <1>2, <2>1 DEF ConvTypes
  <2>8. MessagesIndexed'
    <3> SUFFICES ASSUME NEW q \in Thread, NEW k \in Message
                 PROVE  byThread'[q][k] = IF messages'[k] = q THEN 1 ELSE 0
      BY Zenon DEF MessagesIndexed
    <3>1. byThread[q][k] = IF messages[k] = q THEN 1 ELSE 0
      BY Zenon, <1>2 DEF MessagesIndexed
    <3>2. CASE q = t /\ k = m
      <4>1. byThread[t][m] = 0
        BY Zenon, <3>1, <3>2, <2>0
      <4>2. byThread'[t][m] = 1
        BY <2>7, <4>1
      <4> QED BY Zenon, <2>6, <3>2, <4>2
    <3>3. CASE q # t /\ k = m
      <4>1. byThread'[q][k] = byThread[q][k] /\ messages'[k] # q /\ messages[k] # q
        BY Zenon, <2>0, <2>6, <2>7, <3>3, ConversationAssumption
      <4> QED BY Zenon, <3>1, <4>1
    <3>4. CASE k # m
      <4>1. byThread'[q][k] = byThread[q][k] /\ messages'[k] = messages[k]
        BY Zenon, <2>6, <2>7, <3>4
      <4> QED BY Zenon, <3>1, <4>1
    <3> QED BY Zenon, <3>2, <3>3, <3>4
  <2>9. ConvTypes'
    <3>1. t \in made
      BY Zenon, <1>2, <1>5 DEF ConvTypes
    <3> QED BY Zenon, <1>1, <1>2, <2>1, <2>4, <2>6, <2>7, <3>1 DEF ConvTypes
  <2>10. SameTables'
    BY Zenon, <1>1, <1>2, <2>1, <2>2 DEF SameTables
  <2> QED BY Zenon, <2>5, <2>8, <2>9, <2>10 DEF Agreeing
<1> QED BY Zenon, <1>4, <1>5

\* DeleteMessage, with the message's receipts.
LEMMA DeleteMessageStep ==
    ASSUME Agreeing, enforced, NEW m \in Message, DeleteMessage(m)
    PROVE  Agreeing'
<1> DEFINE t == messages[m]
<1>1. MemDeleteMessage(m) /\ SqlDeleteMessage(m) /\ UNCHANGED <<copy, made>>
  BY Zenon DEF DeleteMessage, historyVars
<1>2. ConvTypes /\ SameTables /\ MessagesIndexed /\ PeopleIndexed
  BY Zenon DEF Agreeing
<1>3. threads = tThreads /\ messages = tMessages /\ receipts = tReceipts
  BY Zenon, <1>2 DEF SameTables
<1>4. CASE t = Nobody
  <2>1. /\ UNCHANGED <<threads, messages, byThread, byPerson, receipts>> /\ UNCHANGED <<tThreads, tMessages, tReceipts>>
    BY Zenon, <1>1, <1>3, <1>4 DEF MemDeleteMessage, SqlDeleteMessage, memVars, sqlVars
  <2>2. ConvTypes' /\ SameTables' /\ MessagesIndexed' /\ PeopleIndexed'
    BY Zenon, <1>1, <1>2, <2>1 DEF ConvTypes, SameTables, MessagesIndexed, PeopleIndexed
  <2> QED BY Zenon, <2>2 DEF Agreeing
<1>5. CASE t # Nobody
  <2>0. t \in Thread
    BY Zenon, <1>2, <1>5 DEF ConvTypes
  <2>1. /\ messages' = Without(messages, {m}) /\ threads' = CountDown(threads, t)
        /\ byThread' = [byThread EXCEPT ![t][m] = IF @ > 0 THEN @ - 1 ELSE 0]
        /\ receipts' = Drop(receipts, {m}) /\ UNCHANGED byPerson
    BY Zenon, <1>1, <1>5 DEF MemDeleteMessage
  <2>2. /\ tMessages' = Without(tMessages, {m}) /\ tThreads' = CountDown(tThreads, t)
        /\ tReceipts' = Drop(tReceipts, {m})
    <3>1. Connections = {TRUE}
      BY Zenon DEF Connections
    <3> QED BY Zenon, <1>1, <1>3, <1>5, <3>1 DEF SqlDeleteMessage
  <2>3. byThread[t][m] = 1
    BY Zenon, <1>2, <2>0 DEF MessagesIndexed
  <2>m. messages[m] = t
    BY Zenon
  <2> HIDE DEF t
  <2>4. threads' \in [Thread -> Row \cup {Nobody}] /\ PeopleIndexed'
        /\ \A q \in Thread : threads[q] = Nobody => threads'[q] = Nobody
    <3>1. CASE threads[t] = Nobody
      <4>1. threads' = threads
        BY Zenon, <2>1, <3>1 DEF CountDown
      <4> QED BY Zenon, <1>2, <2>1, <4>1 DEF ConvTypes, PeopleIndexed
    <3>2. CASE threads[t] # Nobody
      <4> DEFINE n == threads[t].count - 1
                 new == threads'
      <4>1. threads \in [Thread -> Row \cup {Nobody}] /\ threads' = [threads EXCEPT ![t].count = threads[t].count - 1]
        BY Zenon, <1>2, <1>5, <2>1, <3>2 DEF ConvTypes, CountDown
      <4>2. n \in Int
        <5>1. threads[t] \in Row
          BY Zenon, <2>0, <3>2, <4>1
        <5> QED BY <5>1 DEF Row
      <4>3. new = [threads EXCEPT ![t].count = n]
        BY Zenon, <4>1
      <4> HIDE DEF n, new
      <4>4. /\ new \in [Thread -> Row \cup {Nobody}] /\ new[t] # Nobody /\ new[t].who = threads[t].who
            /\ \A q \in Thread \ {t} : new[q] = threads[q]
        BY <2>0, <3>2, <4>1, <4>2, <4>3, Recounted
      <4>5. PeopleIndexed'
        BY Zenon, <1>2, <2>0, <2>1, <3>2, <4>4, CountFrame DEF new
      <4> QED BY Zenon, <3>2, <4>4, <4>5 DEF new
    <3> QED BY Zenon, <3>1, <3>2
  <2>6. /\ messages' \in [Message -> Thread \cup {Nobody}] /\ messages'[m] = Nobody
        /\ \A k \in Message \ {m} : messages'[k] = messages[k]
    BY Zenon, <1>2, <2>1 DEF ConvTypes, Without
  <2>7. /\ byThread' \in [Thread -> [Message -> Nat]] /\ byThread'[t][m] = 0
        /\ \A q \in Thread, k \in Message : q # t \/ k # m => byThread'[q][k] = byThread[q][k]
    BY <1>2, <2>0, <2>1, <2>3 DEF ConvTypes
  <2>8. MessagesIndexed'
    <3> SUFFICES ASSUME NEW q \in Thread, NEW k \in Message
                 PROVE  byThread'[q][k] = IF messages'[k] = q THEN 1 ELSE 0
      BY Zenon DEF MessagesIndexed
    <3>1. byThread[q][k] = IF messages[k] = q THEN 1 ELSE 0
      BY Zenon, <1>2 DEF MessagesIndexed
    <3>n. q # Nobody
      BY Zenon, ConversationAssumption
    <3>2. CASE q = t /\ k = m
      BY Zenon, <2>6, <2>7, <3>2, <3>n
    <3>3. CASE q # t /\ k = m
      <4>1. byThread'[q][k] = byThread[q][k] /\ messages'[k] # q /\ messages[k] # q
        BY Zenon, <2>m, <2>6, <2>7, <3>3, <3>n
      <4> QED BY Zenon, <3>1, <4>1
    <3>4. CASE k # m
      <4>1. byThread'[q][k] = byThread[q][k] /\ messages'[k] = messages[k]
        BY Zenon, <2>6, <2>7, <3>4
      <4> QED BY Zenon, <3>1, <4>1
    <3> QED BY Zenon, <3>2, <3>3, <3>4
  <2>9. ConvTypes'
    BY Zenon, <1>1, <1>2, <2>1, <2>4, <2>6, <2>7 DEF ConvTypes
  <2>10. SameTables'
    BY Zenon, <1>1, <1>2, <2>1, <2>2 DEF SameTables
  <2> QED BY Zenon, <2>4, <2>8, <2>9, <2>10 DEF Agreeing
<1> QED BY Zenon, <1>4, <1>5

\* A receipt is kept for a message that is there.
LEMMA ReceiptStep ==
    ASSUME Agreeing, NEW m \in Message, NEW p, NEW isRead, MarkReceipt(m, p, isRead)
    PROVE  Agreeing'
<1>1. /\ receipts' = IF messages[m] = Nobody THEN receipts ELSE Mark(receipts, m, p, isRead)
      /\ tReceipts' = IF tMessages[m] = Nobody THEN tReceipts ELSE Mark(tReceipts, m, p, isRead)
      /\ UNCHANGED <<threads, messages, byThread, byPerson, tThreads, tMessages, copy, made>>
  BY Zenon DEF MarkReceipt, MemMark, SqlMark, historyVars
<1>2. SameTables'
  BY Zenon, <1>1 DEF Agreeing, SameTables
<1>3. ConvTypes' /\ MessagesIndexed' /\ PeopleIndexed'
  BY Zenon, <1>1 DEF Agreeing, ConvTypes, MessagesIndexed, PeopleIndexed
<1> QED BY Zenon, <1>2, <1>3 DEF Agreeing

\* The stores start empty.
LEMMA ConvStarts ==
    ASSUME ConvInit
    PROVE  ConvInv
<1> USE DEF ConvInit
<1>1. ConvTypes
  BY Zenon DEF ConvTypes
<1>2. SameTables
  BY Zenon DEF SameTables
<1>3. MessagesIndexed
  <2> SUFFICES ASSUME NEW t \in Thread, NEW m \in Message
               PROVE  byThread[t][m] = 0 /\ messages[m] # t
    BY Zenon DEF MessagesIndexed
  <2> QED BY Zenon, ConversationAssumption
<1>4. PeopleIndexed
  BY Zenon DEF PeopleIndexed
<1> QED BY Zenon, <1>1, <1>2, <1>3, <1>4 DEF ConvInv, Agreeing

\* A step may end the agreement but not begin it.
LEMMA ConvStep ==
    ASSUME ConvInv, ConvNext
    PROVE  ConvInv'
<1>1. ~twice' /\ enforced' => ~twice /\ enforced
  <2>1. ASSUME NEW t \in Thread, NEW m \in Message, SaveMessage(m, t) PROVE ~twice' /\ enforced' => ~twice /\ enforced
    BY Zenon, <2>1 DEF SaveMessage
  <2>2. ASSUME ReadTogether PROVE ~enforced'
    BY Zenon, <2>2 DEF ReadTogether
  <2>3. ASSUME NEW t \in Thread, GetThread(t) \/ DeleteThread(t) \/ \E who \in SUBSET Person : CreateThread(t, who)
        PROVE  UNCHANGED <<twice, enforced>>
    BY Zenon, <2>3 DEF GetThread, DeleteThread, CreateThread, historyVars
  <2>4. ASSUME NEW who \in SUBSET Person, UpdateThread(who) PROVE UNCHANGED <<twice, enforced>>
    BY Zenon, <2>4 DEF UpdateThread
  <2>5. ASSUME NEW m \in Message, DeleteMessage(m) \/ \E p \in Person, isRead \in BOOLEAN : MarkReceipt(m, p, isRead)
        PROVE  UNCHANGED <<twice, enforced>>
    BY Zenon, <2>5 DEF DeleteMessage, MarkReceipt, historyVars
  <2> QED BY Zenon, <2>1, <2>2, <2>3, <2>4, <2>5 DEF ConvNext
<1>3. ASSUME ~twice', enforced' PROVE Agreeing'
  <2>1. Agreeing /\ enforced
    BY Zenon, <1>1, <1>3 DEF ConvInv
  <2>2. ~ReadTogether
    BY Zenon, <1>3 DEF ReadTogether
  <2> QED BY Zenon, <1>3, <2>1, <2>2, CreateStep, GetThreadStep, UpdateStep, DeleteThreadStep, SaveStep,
             DeleteMessageStep, ReceiptStep DEF ConvNext
<1> QED BY Zenon, <1>3 DEF ConvInv

\* The two stores of conversations answer alike, whatever calls were made in whatever order
\* and however old the copies that callers write back, until a message is saved twice or a
\* connection without foreign keys joins the pool.  pkg/conversation: MemoryStore,
\* SQLiteStore.
THEOREM ConversationsAgree == ConvSpec => []StoresAgree
<1>1. ConvInit => ConvInv
  BY Zenon, ConvStarts
<1>2. ConvInv /\ [ConvNext]_convVars => ConvInv'
  <2> SUFFICES ASSUME ConvInv, [ConvNext]_convVars PROVE ConvInv'
    OBVIOUS
  <2>1. CASE UNCHANGED convVars
    BY Zenon, <2>1 DEF convVars, memVars, sqlVars, historyVars, ConvInv, Agreeing, ConvTypes, SameTables,
       MessagesIndexed, PeopleIndexed
  <2> QED BY Zenon, <2>1, ConvStep
<1>3. ConvInv => StoresAgree
  <2> SUFFICES ASSUME ConvInv, ~twice, enforced
               PROVE  /\ threads = tThreads /\ messages = tMessages /\ receipts = tReceipts
                      /\ \A t \in Thread : MemGetMessages(t) = SqlGetMessages(t)
                      /\ \A p \in Person : MemListThreads(p) = SqlListThreads(p)
    BY Zenon DEF StoresAgree
  <2>1. ConvTypes /\ SameTables /\ MessagesIndexed /\ PeopleIndexed
    BY Zenon DEF ConvInv, Agreeing
  <2>2. threads = tThreads /\ messages = tMessages /\ receipts = tReceipts
    BY Zenon, <2>1 DEF SameTables
  <2>3. ASSUME NEW t \in Thread PROVE MemGetMessages(t) = SqlGetMessages(t)
    <3>1. t # Nobody
      BY Zenon, ConversationAssumption
    <3>2. \A m \in Message : (IF messages[m] = Nobody THEN 0 ELSE byThread[t][m]) = IF tMessages[m] = t THEN 1 ELSE 0
      BY Zenon, <2>1, <2>2, <3>1 DEF MessagesIndexed
    <3> QED BY Zenon, <3>2 DEF MemGetMessages, SqlGetMessages
  <2>4. ASSUME NEW p \in Person PROVE MemListThreads(p) = SqlListThreads(p)
    <3>1. \A t \in Thread : (IF threads[t] = Nobody THEN 0 ELSE byPerson[p][t])
                             = IF tThreads[t] # Nobody /\ p \in tThreads[t].who THEN 1 ELSE 0
      BY Zenon, <2>1, <2>2 DEF PeopleIndexed
    <3> QED BY Zenon, <3>1 DEF MemListThreads, SqlListThreads
  <2> QED BY Zenon, <2>2, <2>3, <2>4
<1> QED BY <1>1, <1>2, <1>3, PTL DEF ConvSpec

-----------------------------------------------------------------------------
(***************************************************************************)
(* The stores of tenants and keys.  The three rows of a tenant agree in    *)
(* what each store is to keep; what a handler has read differs from them   *)
(* at most in the status and the verification; and the rows of a key agree *)
(* up to the second.                                                       *)
(***************************************************************************)
\* Time in whole seconds is even, and less than a second behind.
LEMMA WholeBelow ==
    ASSUME NEW t \in Nat
    PROVE  WholeSeconds(t) \in Nat /\ WholeSeconds(t) <= t /\ t <= WholeSeconds(t) + 1
           /\ WholeSeconds(t) % 2 = 0
<1>1. t % 2 \in {0, 1} /\ t = 2 * (t \div 2) + (t % 2) /\ t \div 2 \in Nat
  OBVIOUS
<1> QED BY <1>1 DEF WholeSeconds

\* It does not run backwards.
LEMMA WholeMonotone ==
    ASSUME NEW t \in Nat, NEW u \in Nat, t <= u
    PROVE  WholeSeconds(t) <= WholeSeconds(u)
<1>1. t % 2 \in {0, 1} /\ t = 2 * (t \div 2) + (t % 2) /\ t \div 2 \in Nat
  OBVIOUS
<1>2. u % 2 \in {0, 1} /\ u = 2 * (u \div 2) + (u % 2) /\ u \div 2 \in Nat
  OBVIOUS
<1> QED BY <1>1, <1>2 DEF WholeSeconds

\* The tables whose rows have some of the IDs.
Table(ids, row) == UNION {[A -> row] : A \in SUBSET ids}

\* A row in a table.
LEMMA Inserted ==
    ASSUME NEW S, NEW T, NEW f \in Table(S, T), NEW x \in S, NEW y \in T
    PROVE  Insert(f, x, y) \in Table(S, T)
<1>1. PICK A \in SUBSET S : f \in [A -> T]
  BY Zenon DEF Table
<1>2. DOMAIN f = A /\ \A z \in A : f[z] \in T
  BY Zenon, <1>1
<1> DEFINE g == [z \in A \cup {x} |-> IF z = x THEN y ELSE f[z]]
<1>3. Insert(f, x, y) = g
  BY Zenon, <1>2 DEF Insert
<1>4. g \in [A \cup {x} -> T]
  BY Zenon, <1>2
<1>5. A \cup {x} \in SUBSET S
  BY Zenon
<1> HIDE DEF g
<1> QED BY Zenon, <1>3, <1>4, <1>5 DEF Table

\* What a table holds is rows.
LEMMA TableRows ==
    ASSUME NEW S, NEW T, NEW f \in Table(S, T)
    PROVE  DOMAIN f \subseteq S /\ \A x \in DOMAIN f : f[x] \in T
BY Zenon DEF Table

\* A store in which the row of one tenant was written.
PutIn(new, s, a, row) ==
    /\ new \in Tables /\ new.keys = s.keys
    /\ DOMAIN new.tenants = DOMAIN s.tenants \cup {a} /\ new.tenants[a] = row
    /\ \A b \in DOMAIN s.tenants \ {a} : new.tenants[b] = s.tenants[b]

\* Such is what PutTenant and UpdateTenant of a store leave.
LEMMA TenantPut ==
    ASSUME NEW s \in Tables, NEW a \in Account, NEW row \in TenantRow, NEW new, new = WithTenant(s, a, row)
    PROVE  PutIn(new, s, a, row)
<1> DEFINE TT == Table(Account, TenantRow)
           KK == Table(KeyID, KeyRow)
           table == Insert(s.tenants, a, row)
<1>1. Tables = [tenants : TT, keys : KK]
  BY Zenon DEF Tables, Table
<1>2. s.tenants \in TT /\ s \in [tenants : TT, keys : KK]
  <2> HIDE DEF TT, KK
  <2> QED BY Zenon, <1>1
<1>3. table \in TT
  BY Zenon, <1>2, Inserted
<1>4. new = [s EXCEPT !.tenants = table]
  BY Zenon DEF WithTenant
<1>5. /\ DOMAIN table = DOMAIN s.tenants \cup {a} /\ table[a] = row
      /\ \A z \in DOMAIN s.tenants \ {a} : table[z] = s.tenants[z]
  BY Zenon DEF Insert
<1> HIDE DEF TT, KK, table
<1>6. new \in [tenants : TT, keys : KK] /\ new.tenants = table /\ new.keys = s.keys
  BY Zenon, <1>2, <1>3, <1>4
<1> QED BY Zenon, <1>1, <1>5, <1>6 DEF PutIn

\* A store in which the row of one key was written.
KeyPutIn(new, s, k, row) ==
    /\ new \in Tables /\ new.tenants = s.tenants
    /\ DOMAIN new.keys = DOMAIN s.keys \cup {k} /\ new.keys[k] = row
    /\ \A b \in DOMAIN s.keys \ {k} : new.keys[b] = s.keys[b]

\* Such is what PutAPIKey and RevokeAPIKey of a store leave.
LEMMA KeyPut ==
    ASSUME NEW s \in Tables, NEW k \in KeyID, NEW row \in KeyRow, NEW new, new = WithKey(s, k, row)
    PROVE  KeyPutIn(new, s, k, row)
<1> DEFINE TT == Table(Account, TenantRow)
           KK == Table(KeyID, KeyRow)
           table == Insert(s.keys, k, row)
<1>1. Tables = [tenants : TT, keys : KK]
  BY Zenon DEF Tables, Table
<1>2. s.keys \in KK /\ s \in [tenants : TT, keys : KK]
  <2> HIDE DEF TT, KK
  <2> QED BY Zenon, <1>1
<1>3. table \in KK
  BY Zenon, <1>2, Inserted
<1>4. new = [s EXCEPT !.keys = table]
  BY Zenon DEF WithKey
<1>5. /\ DOMAIN table = DOMAIN s.keys \cup {k} /\ table[k] = row
      /\ \A z \in DOMAIN s.keys \ {k} : table[z] = s.keys[z]
  BY Zenon DEF Insert
<1> HIDE DEF TT, KK, table
<1>6. new \in [tenants : TT, keys : KK] /\ new.keys = table /\ new.tenants = s.tenants
  BY Zenon, <1>2, <1>3, <1>4
<1> QED BY Zenon, <1>1, <1>5, <1>6 DEF KeyPutIn

\* What a store holds is rows of tenants and of keys.
LEMMA StoreRows ==
    ASSUME NEW s \in Tables
    PROVE  /\ DOMAIN s.tenants \subseteq Account /\ \A a \in DOMAIN s.tenants : s.tenants[a] \in TenantRow
           /\ DOMAIN s.keys \subseteq KeyID /\ \A k \in DOMAIN s.keys : s.keys[k] \in KeyRow
<1> DEFINE TT == Table(Account, TenantRow)
           KK == Table(KeyID, KeyRow)
<1>1. Tables = [tenants : TT, keys : KK]
  BY Zenon DEF Tables, Table
<1>2. s.keys \in KK /\ s.tenants \in TT
  <2> HIDE DEF TT, KK
  <2> QED BY Zenon, <1>1
<1> QED BY Zenon, <1>2, TableRows

(***************************************************************************)
(* What the rows of one tenant have in common, and with what a handler     *)
(* has read of them.                                                       *)
(***************************************************************************)
RowsAgree(a, mem, lite, pg, ref, over) ==
    /\ mem.email = lite.email /\ pg.email = lite.email
    /\ mem.verified = lite.verified /\ pg.verified = lite.verified
    /\ lite.created = WholeSeconds(pg.created) /\ pg.customer = NoCustomer
    /\ a \notin ref => pg.plan = lite.plan /\ pg.status = lite.status
    /\ a \notin ref /\ a \notin over =>
          mem.plan = lite.plan /\ mem.status = lite.status /\ mem.customer = lite.customer
    /\ lite.status = "suspended" => mem.status = "suspended"

\* Only the status and the verification change between a read and the update.
CopyFits(a, held, mem, lite, pg, ref) ==
    /\ held.lite \in TenantRow /\ held.pg \in TenantRow
    /\ held.lite.email = lite.email /\ held.lite.plan = lite.plan
    /\ held.lite.customer = lite.customer /\ held.lite.created = lite.created
    /\ held.pg.plan = pg.plan
    /\ a \notin ref => held.pg.status = held.lite.status
    /\ held.lite.status = "suspended" => mem.status = "suspended"

\* What a handler changes of a row.
LEMMA ChangedRow ==
    ASSUME NEW row \in TenantRow, NEW change \in Change
    PROVE  /\ Changed(row, change) \in TenantRow
           /\ Changed(row, change).email = row.email /\ Changed(row, change).status = row.status
           /\ Changed(row, change).verified = row.verified /\ Changed(row, change).created = row.created
           /\ Changed(row, change).plan = IF change \in Customer THEN row.plan ELSE "team"
           /\ Changed(row, change).customer = IF change \in Customer THEN change ELSE row.customer
<1>1. CASE change \in Customer
  <2>1. Changed(row, change) = [row EXCEPT !.customer = change]
    BY Zenon, <1>1 DEF Changed
  <2> QED BY Zenon, <1>1, <2>1 DEF TenantRow
<1>2. CASE change \notin Customer
  <2>1. change = "team"
    BY Zenon, <1>2 DEF Change
  <2>2. Changed(row, change) = [row EXCEPT !.plan = "team"]
    BY Zenon, <1>2, <2>1 DEF Changed
  <2> QED BY Zenon, <1>2, <2>2 DEF TenantRow
<1> QED BY Zenon, <1>1, <1>2

\* A suspension or a verification, of the row in each of the stores.
LEMMA StatusRow ==
    ASSUME NEW row \in TenantRow
    PROVE  LET new == [row EXCEPT !.status = "suspended"]
           IN  /\ new \in TenantRow /\ new.status = "suspended" /\ new.verified = row.verified
               /\ new.email = row.email /\ new.plan = row.plan /\ new.customer = row.customer
               /\ new.created = row.created
BY Zenon DEF TenantRow

\* A verification.
LEMMA VerifiedRow ==
    ASSUME NEW row \in TenantRow
    PROVE  LET new == [row EXCEPT !.verified = TRUE]
           IN  /\ new \in TenantRow /\ new.verified = TRUE /\ new.status = row.status
               /\ new.email = row.email /\ new.plan = row.plan /\ new.customer = row.customer
               /\ new.created = row.created
BY Zenon DEF TenantRow

\* The rows an update leaves in the databases.
LiteRow(clash, lite, row) == IF clash THEN lite ELSE [row EXCEPT !.verified = lite.verified]
PgRow(pg, row) == [pg EXCEPT !.plan = row.plan, !.status = row.status]

\* An update: of the object in memory, of all columns, of the columns that are not Stripe's.
LEMMA RowsUpdated ==
    ASSUME NEW a, NEW mem \in TenantRow, NEW lite \in TenantRow, NEW pg \in TenantRow, NEW held,
           NEW ref, NEW over, NEW change \in Change, NEW clash \in BOOLEAN,
           RowsAgree(a, mem, lite, pg, ref, over), CopyFits(a, held, mem, lite, pg, ref),
           NEW newMem, newMem = Changed(mem, change),
           NEW newLite, newLite = LiteRow(clash, lite, Changed(held.lite, change)),
           NEW newPg, newPg = PgRow(pg, Changed(held.pg, change)),
           NEW newRef, a \in newRef <=> a \in ref \/ clash,
           NEW newOver, a \in newOver <=> a \in over \/ Changed(held.lite, change).status # lite.status
    PROVE  /\ newMem \in TenantRow /\ newLite \in TenantRow /\ newPg \in TenantRow
           /\ RowsAgree(a, newMem, newLite, newPg, newRef, newOver)
           /\ ~clash => newLite.customer = Changed(held.lite, change).customer
<1> DEFINE wrote == Changed(held.lite, change)
           sent == Changed(held.pg, change)
<1>c. /\ held.lite \in TenantRow /\ held.pg \in TenantRow
      /\ held.lite.email = lite.email /\ held.lite.plan = lite.plan
      /\ held.lite.customer = lite.customer /\ held.lite.created = lite.created
      /\ held.pg.plan = pg.plan
      /\ a \notin ref => held.pg.status = held.lite.status
      /\ held.lite.status = "suspended" => mem.status = "suspended"
  BY Zenon DEF CopyFits
<1>r. /\ mem.email = lite.email /\ pg.email = lite.email
      /\ mem.verified = lite.verified /\ pg.verified = lite.verified
      /\ lite.created = WholeSeconds(pg.created) /\ pg.customer = NoCustomer
      /\ a \notin ref => pg.plan = lite.plan /\ pg.status = lite.status
      /\ a \notin ref /\ a \notin over =>
            mem.plan = lite.plan /\ mem.status = lite.status /\ mem.customer = lite.customer
      /\ lite.status = "suspended" => mem.status = "suspended"
  BY Zenon DEF RowsAgree
<1>1. /\ newMem \in TenantRow /\ newMem.email = mem.email /\ newMem.status = mem.status
      /\ newMem.verified = mem.verified
      /\ newMem.plan = (IF change \in Customer THEN mem.plan ELSE "team")
      /\ newMem.customer = (IF change \in Customer THEN change ELSE mem.customer)
  BY Zenon, ChangedRow
<1>2. /\ wrote \in TenantRow /\ wrote.email = lite.email /\ wrote.status = held.lite.status
      /\ wrote.created = lite.created
      /\ wrote.plan = (IF change \in Customer THEN lite.plan ELSE "team")
      /\ wrote.customer = (IF change \in Customer THEN change ELSE lite.customer)
  BY Zenon, <1>c, ChangedRow
<1>3. /\ sent \in TenantRow /\ sent.status = held.pg.status
      /\ sent.plan = (IF change \in Customer THEN pg.plan ELSE "team")
  BY Zenon, <1>c, ChangedRow
<1>v. lite.verified \in BOOLEAN
  BY Zenon DEF TenantRow
<1>w. newLite = (IF clash THEN lite ELSE [wrote EXCEPT !.verified = lite.verified])
      /\ newPg = [pg EXCEPT !.plan = sent.plan, !.status = sent.status]
      /\ (a \in newOver <=> a \in over \/ wrote.status # lite.status)
  BY Zenon DEF LiteRow, PgRow
<1> HIDE DEF wrote, sent
<1>4. /\ newPg \in TenantRow /\ newPg.verified = pg.verified /\ newPg.email = pg.email
      /\ newPg.customer = pg.customer /\ newPg.created = pg.created
      /\ newPg.plan = sent.plan /\ newPg.status = sent.status
  <2>1. sent \in TenantRow
    BY Zenon, <1>3
  <2>2. newPg = [pg EXCEPT !.plan = sent.plan, !.status = sent.status]
    BY Zenon, <1>w
  <2> QED BY Zenon, <2>1, <2>2 DEF TenantRow
<1>5. CASE clash
  <2>1. newLite = lite
    BY Zenon, <1>5, <1>w
  <2> QED BY Zenon, <1>r, <1>1, <1>4, <1>5, <2>1 DEF RowsAgree
<1>6. CASE ~clash
  <2>1. /\ newLite \in TenantRow /\ newLite.verified = lite.verified /\ newLite.email = wrote.email
        /\ newLite.status = wrote.status /\ newLite.plan = wrote.plan /\ newLite.customer = wrote.customer
        /\ newLite.created = wrote.created
    <3>1. wrote \in TenantRow
      BY Zenon, <1>2
    <3>2. newLite = [wrote EXCEPT !.verified = lite.verified]
      BY Zenon, <1>6, <1>w
    <3> QED BY Zenon, <1>v, <3>1, <3>2 DEF TenantRow
  <2>2. a \notin newRef => newPg.plan = newLite.plan /\ newPg.status = newLite.status
    BY Zenon, <1>c, <1>r, <1>2, <1>3, <1>4, <1>6, <2>1
  <2>3. a \notin newRef /\ a \notin newOver =>
           newMem.plan = newLite.plan /\ newMem.status = newLite.status /\ newMem.customer = newLite.customer
    BY Zenon, <1>r, <1>1, <1>2, <1>6, <1>w, <2>1
  <2>4. newLite.status = "suspended" => newMem.status = "suspended"
    BY Zenon, <1>c, <1>1, <1>2, <2>1
  <2>5. /\ newMem.email = newLite.email /\ newPg.email = newLite.email
        /\ newMem.verified = newLite.verified /\ newPg.verified = newLite.verified
        /\ newLite.created = WholeSeconds(newPg.created) /\ newPg.customer = NoCustomer
    BY Zenon, <1>r, <1>1, <1>2, <1>4, <2>1
  <2> QED BY Zenon, <1>1, <1>4, <2>1, <2>2, <2>3, <2>4, <2>5 DEF RowsAgree, wrote
<1> QED BY Zenon, <1>5, <1>6

(***************************************************************************)
(* The inductive invariant.                                                *)
(***************************************************************************)
StoresTyped ==
    /\ memory \in Tables /\ sqlite \in Tables /\ postgres \in Tables
    /\ moment \in 0 .. MaxMoment /\ refused \subseteq Account /\ overtaken \subseteq Account

SameTenants ==
    /\ DOMAIN memory.tenants = DOMAIN sqlite.tenants /\ DOMAIN postgres.tenants = DOMAIN sqlite.tenants
    /\ DOMAIN copies \subseteq DOMAIN sqlite.tenants

AllAgree ==
    \A a \in DOMAIN sqlite.tenants :
        RowsAgree(a, memory.tenants[a], sqlite.tenants[a], postgres.tenants[a], refused, overtaken)

AllFit ==
    \A a \in DOMAIN copies :
        CopyFits(a, copies[a], memory.tenants[a], sqlite.tenants[a], postgres.tenants[a], refused)

CustomersApart ==
    \A a, b \in DOMAIN sqlite.tenants :
        a # b /\ sqlite.tenants[a].customer = sqlite.tenants[b].customer =>
            sqlite.tenants[a].customer = NoCustomer

\* A key's rows; SQLite's expires with the second.
KeyRowsAgree(mem, lite, pg) ==
    /\ mem.owner = pg.owner /\ lite.owner = pg.owner
    /\ mem.revoked = pg.revoked /\ lite.revoked = pg.revoked
    /\ mem.expires = pg.expires
    /\ lite.expires = IF pg.expires = Never THEN Never ELSE WholeSeconds(pg.expires)

SameKeys ==
    /\ DOMAIN sqlite.keys = DOMAIN postgres.keys /\ DOMAIN postgres.keys \subseteq DOMAIN memory.keys
    /\ \A k \in DOMAIN postgres.keys :
        /\ KeyRowsAgree(memory.keys[k], sqlite.keys[k], postgres.keys[k])
        /\ sqlite.keys[k].owner \in DOMAIN sqlite.tenants

BillInv == StoresTyped /\ SameTenants /\ AllAgree /\ AllFit /\ CustomersApart /\ SameKeys

\* A call that writes the row of one tenant in each of the stores.
LEMMA TenantsStep ==
    ASSUME BillInv, NEW a \in Account, NEW mem, NEW lite, NEW pg,
           PutIn(memory', memory, a, mem), PutIn(sqlite', sqlite, a, lite), PutIn(postgres', postgres, a, pg),
           moment' = moment, refused' \subseteq Account, overtaken' \subseteq Account,
           \A b : b # a => (b \in refused' <=> b \in refused),
           \A b : b # a => (b \in overtaken' <=> b \in overtaken),
           RowsAgree(a, mem, lite, pg, refused', overtaken'),
           DOMAIN copies' \subseteq DOMAIN copies, \A b \in DOMAIN copies' : copies'[b] = copies[b],
           a \in DOMAIN copies' => CopyFits(a, copies[a], mem, lite, pg, refused'),
           \A b \in DOMAIN sqlite.tenants :
               b # a /\ sqlite.tenants[b].customer = lite.customer => lite.customer = NoCustomer
    PROVE  BillInv'
<1>i. StoresTyped /\ SameTenants /\ AllAgree /\ AllFit /\ CustomersApart /\ SameKeys
  BY Zenon DEF BillInv
<1>p. /\ memory' \in Tables /\ sqlite' \in Tables /\ postgres' \in Tables
      /\ memory'.keys = memory.keys /\ sqlite'.keys = sqlite.keys /\ postgres'.keys = postgres.keys
      /\ DOMAIN memory'.tenants = DOMAIN memory.tenants \cup {a}
      /\ DOMAIN sqlite'.tenants = DOMAIN sqlite.tenants \cup {a}
      /\ DOMAIN postgres'.tenants = DOMAIN postgres.tenants \cup {a}
      /\ memory'.tenants[a] = mem /\ sqlite'.tenants[a] = lite /\ postgres'.tenants[a] = pg
  BY Zenon DEF PutIn
<1>s. DOMAIN memory.tenants = DOMAIN sqlite.tenants /\ DOMAIN postgres.tenants = DOMAIN sqlite.tenants
      /\ DOMAIN copies \subseteq DOMAIN sqlite.tenants
  BY Zenon, <1>i DEF SameTenants
<1>o. \A b \in DOMAIN sqlite.tenants : b # a =>
          memory'.tenants[b] = memory.tenants[b] /\ sqlite'.tenants[b] = sqlite.tenants[b]
          /\ postgres'.tenants[b] = postgres.tenants[b]
  BY Zenon, <1>s DEF PutIn
<1>1. StoresTyped'
  BY Zenon, <1>i, <1>p DEF StoresTyped
<1>2. SameTenants'
  BY Zenon, <1>p, <1>s DEF SameTenants
<1>3. AllAgree'
  <2> SUFFICES ASSUME NEW b \in DOMAIN sqlite'.tenants
               PROVE  RowsAgree(b, memory'.tenants[b], sqlite'.tenants[b], postgres'.tenants[b],
                                refused', overtaken')
    BY Zenon DEF AllAgree
  <2>1. CASE b = a
    BY Zenon, <1>p, <2>1
  <2>2. CASE b # a
    <3>1. b \in DOMAIN sqlite.tenants
      BY Zenon, <1>p, <2>2
    <3>2. RowsAgree(b, memory.tenants[b], sqlite.tenants[b], postgres.tenants[b], refused, overtaken)
      BY Zenon, <1>i, <3>1 DEF AllAgree
    <3>3. RowsAgree(b, memory.tenants[b], sqlite.tenants[b], postgres.tenants[b], refused', overtaken')
      BY Zenon, <2>2, <3>2 DEF RowsAgree
    <3> QED BY Zenon, <1>o, <2>2, <3>1, <3>3
  <2> QED BY Zenon, <2>1, <2>2
<1>4. AllFit'
  <2> SUFFICES ASSUME NEW b \in DOMAIN copies'
               PROVE  CopyFits(b, copies'[b], memory'.tenants[b], sqlite'.tenants[b], postgres'.tenants[b],
                               refused')
    BY Zenon DEF AllFit
  <2>0. b \in DOMAIN copies /\ copies'[b] = copies[b]
    BY Zenon
  <2>1. CASE b = a
    BY Zenon, <1>p, <2>0, <2>1
  <2>2. CASE b # a
    <3>1. b \in DOMAIN sqlite.tenants
      BY Zenon, <1>s, <2>0
    <3>2. CopyFits(b, copies[b], memory.tenants[b], sqlite.tenants[b], postgres.tenants[b], refused)
      BY Zenon, <1>i, <2>0 DEF AllFit
    <3>3. CopyFits(b, copies[b], memory.tenants[b], sqlite.tenants[b], postgres.tenants[b], refused')
      BY Zenon, <2>2, <3>2 DEF CopyFits
    <3> QED BY Zenon, <1>o, <2>0, <2>2, <3>1, <3>3
  <2> QED BY Zenon, <2>1, <2>2
<1>5. CustomersApart'
  <2> SUFFICES ASSUME NEW b \in DOMAIN sqlite'.tenants, NEW c \in DOMAIN sqlite'.tenants, b # c,
                      sqlite'.tenants[b].customer = sqlite'.tenants[c].customer
               PROVE  sqlite'.tenants[b].customer = NoCustomer
    BY Zenon DEF CustomersApart
  <2>1. CASE b = a
    BY Zenon, <1>p, <1>o, <2>1
  <2>2. CASE c = a
    BY Zenon, <1>p, <1>o, <2>2
  <2>3. CASE b # a /\ c # a
    BY Zenon, <1>i, <1>p, <1>o, <2>3 DEF CustomersApart
  <2> QED BY Zenon, <2>1, <2>2, <2>3
<1>6. SameKeys'
  BY Zenon, <1>i, <1>p DEF SameKeys
<1> QED BY Zenon, <1>1, <1>2, <1>3, <1>4, <1>5, <1>6 DEF BillInv

\* A call that writes keys, and one that writes nothing.
LEMMA KeysStep ==
    ASSUME BillInv, memory' \in Tables, sqlite' \in Tables, postgres' \in Tables, moment' \in 0 .. MaxMoment,
           memory'.tenants = memory.tenants, sqlite'.tenants = sqlite.tenants,
           postgres'.tenants = postgres.tenants,
           copies' = copies, refused' = refused, overtaken' = overtaken, SameKeys'
    PROVE  BillInv'
<1>1. StoresTyped'
  BY Zenon DEF BillInv, StoresTyped
<1>2. SameTenants'
  BY Zenon DEF BillInv, SameTenants
<1>3. AllAgree'
  BY Zenon DEF BillInv, AllAgree
<1>4. AllFit'
  BY Zenon DEF BillInv, AllFit
<1>5. CustomersApart'
  BY Zenon DEF BillInv, CustomersApart
<1> QED BY Zenon, <1>1, <1>2, <1>3, <1>4, <1>5 DEF BillInv

\* The rows of a tenant that is new.
LEMMA FreshRows ==
    ASSUME NEW address \in Address, moment \in 0 .. MaxMoment,
           NEW row, row = NewAccount(address), NEW lite, lite = [row EXCEPT !.created = WholeSeconds(@)],
           NEW a, NEW ref, NEW over
    PROVE  /\ row \in TenantRow /\ lite \in TenantRow /\ lite.customer = NoCustomer
           /\ RowsAgree(a, row, lite, row, ref, over)
<1>0. MaxMoment \in Nat
  BY Zenon, BillingStoreAssumption
<1> DEFINE whole == WholeSeconds(moment)
<1>1. whole \in 0 .. MaxMoment
  <2>1. moment \in Nat /\ moment <= MaxMoment
    BY <1>0
  <2>2. whole \in Nat /\ whole <= moment
    BY Zenon, <2>1, WholeBelow
  <2> HIDE DEF whole
  <2> QED BY <1>0, <2>1, <2>2
<1>2. row = [email |-> address, plan |-> "free", status |-> "active", customer |-> NoCustomer,
             verified |-> FALSE, created |-> moment]
  BY Zenon DEF NewAccount
<1>3. lite = [row EXCEPT !.created = WholeSeconds(row.created)] /\ row.created = moment
  BY <1>2
<1>4. lite = [row EXCEPT !.created = whole]
  BY Zenon, <1>3
<1>5. whole = WholeSeconds(row.created)
  BY Zenon, <1>3
<1> HIDE DEF whole
<1>6. row \in TenantRow
  BY <1>2 DEF TenantRow
<1>7. lite \in TenantRow /\ lite.created = whole /\ lite.email = row.email /\ lite.plan = row.plan
      /\ lite.status = row.status /\ lite.customer = row.customer /\ lite.verified = row.verified
  BY Zenon, <1>1, <1>4, <1>6 DEF TenantRow
<1>8. row.customer = NoCustomer
  BY <1>2
<1> QED BY Zenon, <1>5, <1>6, <1>7, <1>8 DEF RowsAgree

\* PutTenant: SQLite cuts the time of creation to the second.
LEMMA PutTenantStep ==
    ASSUME BillInv, NEW a \in Account, NEW address \in Address, PutTenant(a, address)
    PROVE  BillInv'
<1> DEFINE row == NewAccount(address)
           lite == [row EXCEPT !.created = WholeSeconds(@)]
<1>1. /\ moment \in 0 .. MaxMoment /\ memory \in Tables /\ sqlite \in Tables /\ postgres \in Tables
      /\ refused \subseteq Account /\ overtaken \subseteq Account
      /\ DOMAIN copies \subseteq DOMAIN sqlite.tenants
  BY Zenon DEF BillInv, StoresTyped, SameTenants
<1>2. row \in TenantRow /\ lite \in TenantRow /\ lite.customer = NoCustomer
      /\ RowsAgree(a, row, lite, row, refused, overtaken)
  BY Zenon, <1>1, FreshRows
<1>3. /\ memory' = WithTenant(memory, a, row) /\ sqlite' = WithTenant(sqlite, a, lite)
      /\ postgres' = WithTenant(postgres, a, row)
  BY Zenon DEF PutTenant, MemoryPutTenant, SQLitePutTenant, PostgresPutTenant
<1>4. /\ a \notin DOMAIN sqlite.tenants
      /\ copies' = copies /\ refused' = refused /\ overtaken' = overtaken /\ moment' = moment
  BY Zenon DEF PutTenant
<1> HIDE DEF row, lite
<1>5. PutIn(memory', memory, a, row) /\ PutIn(sqlite', sqlite, a, lite) /\ PutIn(postgres', postgres, a, row)
  BY Zenon, <1>1, <1>2, <1>3, TenantPut
<1>6. RowsAgree(a, row, lite, row, refused', overtaken')
  BY Zenon, <1>2, <1>4
<1> QED BY Zenon, <1>1, <1>2, <1>4, <1>5, <1>6, TenantsStep

\* GetTenant: what the databases return is a copy.
LEMMA ReadTenantStep ==
    ASSUME BillInv, NEW a \in Account, ReadTenant(a)
    PROVE  BillInv'
<1> DEFINE held == [lite |-> sqlite.tenants[a], pg |-> postgres.tenants[a]]
<1>1. /\ a \in DOMAIN sqlite.tenants /\ copies' = Insert(copies, a, held)
      /\ memory' = memory /\ sqlite' = sqlite /\ postgres' = postgres
      /\ refused' = refused /\ overtaken' = overtaken /\ moment' = moment
  BY Zenon DEF ReadTenant, ScanTenant, PgScanTenant
<1>2. /\ DOMAIN copies' = DOMAIN copies \cup {a} /\ copies'[a] = held
      /\ \A b \in DOMAIN copies : b # a => copies'[b] = copies[b]
  <2> HIDE DEF held
  <2> QED BY Zenon, <1>1 DEF Insert
<1>3. sqlite.tenants[a] \in TenantRow /\ postgres.tenants[a] \in TenantRow
  BY Zenon, <1>1, StoreRows DEF BillInv, StoresTyped, SameTenants
<1>4. RowsAgree(a, memory.tenants[a], sqlite.tenants[a], postgres.tenants[a], refused, overtaken)
  BY Zenon, <1>1 DEF BillInv, AllAgree
<1>5. held.lite = sqlite.tenants[a] /\ held.pg = postgres.tenants[a]
  OBVIOUS
<1> HIDE DEF held
<1>6. CopyFits(a, held, memory.tenants[a], sqlite.tenants[a], postgres.tenants[a], refused)
  BY Zenon, <1>3, <1>4, <1>5 DEF CopyFits, RowsAgree
<1>7. AllFit'
  BY Zenon, <1>1, <1>2, <1>6 DEF BillInv, AllFit
<1>8. StoresTyped' /\ SameTenants'
  BY Zenon, <1>1, <1>2 DEF BillInv, StoresTyped, SameTenants
<1>9. AllAgree' /\ CustomersApart' /\ SameKeys'
  BY Zenon, <1>1 DEF BillInv, AllAgree, CustomersApart, SameKeys
<1> QED BY Zenon, <1>7, <1>8, <1>9 DEF BillInv

\* SuspendTenant writes the status in all stores, whatever handlers have read.
LEMMA SuspendStep ==
    ASSUME BillInv, NEW a \in Account, Suspend(a)
    PROVE  BillInv'
<1> DEFINE mem == memory.tenants[a]
           lite == sqlite.tenants[a]
           pg == postgres.tenants[a]
           newMem == [mem EXCEPT !.status = "suspended"]
           newLite == [lite EXCEPT !.status = "suspended"]
           newPg == [pg EXCEPT !.status = "suspended"]
<1>1. /\ memory \in Tables /\ sqlite \in Tables /\ postgres \in Tables
      /\ refused \subseteq Account /\ overtaken \subseteq Account
  BY Zenon DEF BillInv, StoresTyped
<1>2. /\ a \in DOMAIN sqlite.tenants /\ memory' = WithTenant(memory, a, newMem)
      /\ sqlite' = WithTenant(sqlite, a, newLite) /\ postgres' = WithTenant(postgres, a, newPg)
      /\ copies' = copies /\ refused' = refused /\ overtaken' = overtaken /\ moment' = moment
  BY Zenon DEF Suspend, MemorySuspendTenant, SQLiteSuspendTenant, PostgresSuspendTenant
<1>3. mem \in TenantRow /\ lite \in TenantRow /\ pg \in TenantRow
  BY Zenon, <1>1, <1>2, StoreRows DEF BillInv, SameTenants
<1>4. RowsAgree(a, mem, lite, pg, refused, overtaken)
  BY Zenon, <1>2 DEF BillInv, AllAgree
<1>5. a \in DOMAIN copies => CopyFits(a, copies[a], mem, lite, pg, refused)
  BY Zenon DEF BillInv, AllFit
<1>6. \A b \in DOMAIN sqlite.tenants :
         b # a /\ sqlite.tenants[b].customer = lite.customer => lite.customer = NoCustomer
  BY Zenon, <1>2 DEF BillInv, CustomersApart
<1> HIDE DEF mem, lite, pg
<1>7. /\ newMem \in TenantRow /\ newMem.email = mem.email /\ newMem.plan = mem.plan
      /\ newMem.customer = mem.customer /\ newMem.created = mem.created
      /\ newMem.status = "suspended" /\ newMem.verified = mem.verified
  BY Zenon, <1>3, StatusRow
<1>8. /\ newLite \in TenantRow /\ newLite.email = lite.email /\ newLite.plan = lite.plan
      /\ newLite.customer = lite.customer /\ newLite.created = lite.created
      /\ newLite.status = "suspended" /\ newLite.verified = lite.verified
  BY Zenon, <1>3, StatusRow
<1>9. /\ newPg \in TenantRow /\ newPg.email = pg.email /\ newPg.plan = pg.plan
      /\ newPg.customer = pg.customer /\ newPg.created = pg.created
      /\ newPg.status = "suspended" /\ newPg.verified = pg.verified
  BY Zenon, <1>3, StatusRow
<1> HIDE DEF newMem, newLite, newPg
<1>10. RowsAgree(a, newMem, newLite, newPg, refused', overtaken')
  BY Zenon, <1>2, <1>4, <1>7, <1>8, <1>9 DEF RowsAgree
<1>11. a \in DOMAIN copies' => CopyFits(a, copies[a], newMem, newLite, newPg, refused')
  BY Zenon, <1>2, <1>5, <1>7, <1>8, <1>9 DEF CopyFits
<1>12. /\ PutIn(memory', memory, a, newMem) /\ PutIn(sqlite', sqlite, a, newLite)
       /\ PutIn(postgres', postgres, a, newPg)
  BY Zenon, <1>1, <1>2, <1>7, <1>8, <1>9, TenantPut
<1> QED BY Zenon, <1>1, <1>2, <1>6, <1>8, <1>10, <1>11, <1>12, TenantsStep

\* MarkTenantEmailVerified writes a column that an update leaves alone.
LEMMA MarkVerifiedStep ==
    ASSUME BillInv, NEW a \in Account, MarkTenantEmailVerified(a)
    PROVE  BillInv'
<1> DEFINE mem == memory.tenants[a]
           lite == sqlite.tenants[a]
           pg == postgres.tenants[a]
           newMem == [mem EXCEPT !.verified = TRUE]
           newLite == [lite EXCEPT !.verified = TRUE]
           newPg == [pg EXCEPT !.verified = TRUE]
<1>1. /\ memory \in Tables /\ sqlite \in Tables /\ postgres \in Tables
      /\ refused \subseteq Account /\ overtaken \subseteq Account
  BY Zenon DEF BillInv, StoresTyped
<1>2. /\ a \in DOMAIN sqlite.tenants /\ memory' = WithTenant(memory, a, newMem)
      /\ sqlite' = WithTenant(sqlite, a, newLite) /\ postgres' = WithTenant(postgres, a, newPg)
      /\ copies' = copies /\ refused' = refused /\ overtaken' = overtaken /\ moment' = moment
  BY Zenon DEF MarkTenantEmailVerified, MemoryMarkTenantEmailVerified, SQLiteMarkTenantEmailVerified, PostgresMarkTenantEmailVerified
<1>3. mem \in TenantRow /\ lite \in TenantRow /\ pg \in TenantRow
  BY Zenon, <1>1, <1>2, StoreRows DEF BillInv, SameTenants
<1>4. RowsAgree(a, mem, lite, pg, refused, overtaken)
  BY Zenon, <1>2 DEF BillInv, AllAgree
<1>5. a \in DOMAIN copies => CopyFits(a, copies[a], mem, lite, pg, refused)
  BY Zenon DEF BillInv, AllFit
<1>6. \A b \in DOMAIN sqlite.tenants :
         b # a /\ sqlite.tenants[b].customer = lite.customer => lite.customer = NoCustomer
  BY Zenon, <1>2 DEF BillInv, CustomersApart
<1> HIDE DEF mem, lite, pg
<1>7. /\ newMem \in TenantRow /\ newMem.email = mem.email /\ newMem.plan = mem.plan
      /\ newMem.customer = mem.customer /\ newMem.created = mem.created
      /\ newMem.verified = TRUE /\ newMem.status = mem.status
  BY Zenon, <1>3, VerifiedRow
<1>8. /\ newLite \in TenantRow /\ newLite.email = lite.email /\ newLite.plan = lite.plan
      /\ newLite.customer = lite.customer /\ newLite.created = lite.created
      /\ newLite.verified = TRUE /\ newLite.status = lite.status
  BY Zenon, <1>3, VerifiedRow
<1>9. /\ newPg \in TenantRow /\ newPg.email = pg.email /\ newPg.plan = pg.plan
      /\ newPg.customer = pg.customer /\ newPg.created = pg.created
      /\ newPg.verified = TRUE /\ newPg.status = pg.status
  BY Zenon, <1>3, VerifiedRow
<1> HIDE DEF newMem, newLite, newPg
<1>10. RowsAgree(a, newMem, newLite, newPg, refused', overtaken')
  BY Zenon, <1>2, <1>4, <1>7, <1>8, <1>9 DEF RowsAgree
<1>11. a \in DOMAIN copies' => CopyFits(a, copies[a], newMem, newLite, newPg, refused')
  BY Zenon, <1>2, <1>5, <1>7, <1>8, <1>9 DEF CopyFits
<1>12. /\ PutIn(memory', memory, a, newMem) /\ PutIn(sqlite', sqlite, a, newLite)
       /\ PutIn(postgres', postgres, a, newPg)
  BY Zenon, <1>1, <1>2, <1>7, <1>8, <1>9, TenantPut
<1> QED BY Zenon, <1>1, <1>2, <1>6, <1>8, <1>10, <1>11, <1>12, TenantsStep

\* UpdateTenant: SQLite may refuse it, and Postgres leaves Stripe's columns.
LEMMA UpdateTenantStep ==
    ASSUME BillInv, NEW a \in Account, NEW change \in Change, UpdateTenant(a, change)
    PROVE  BillInv'
<1> DEFINE mem == memory.tenants[a]
           lite == sqlite.tenants[a]
           pg == postgres.tenants[a]
           held == copies[a]
           wrote == Changed(held.lite, change)
           clash == CustomerTaken(sqlite.tenants, a, wrote.customer)
           newMem == Changed(mem, change)
           newLite == IF clash THEN lite ELSE [wrote EXCEPT !.verified = lite.verified]
           newPg == [pg EXCEPT !.plan = Changed(held.pg, change).plan,
                               !.status = Changed(held.pg, change).status]
<1>1. /\ memory \in Tables /\ sqlite \in Tables /\ postgres \in Tables
      /\ refused \subseteq Account /\ overtaken \subseteq Account
  BY Zenon DEF BillInv, StoresTyped
<1>2. /\ a \in DOMAIN copies /\ memory' = WithTenant(memory, a, newMem)
      /\ postgres' = WithTenant(postgres, a, newPg) /\ moment' = moment
      /\ copies' = [b \in DOMAIN copies \ {a} |-> copies[b]]
  BY Zenon DEF UpdateTenant, MemoryUpdateTenant, PostgresUpdateTenant
<1>3. /\ sqlite' = IF clash THEN sqlite ELSE WithTenant(sqlite, a, [wrote EXCEPT !.verified = lite.verified])
      /\ refused' = refused \cup {b \in {a} : clash}
      /\ overtaken' = overtaken \cup {b \in {a} : wrote.status # lite.status}
  BY Zenon DEF UpdateTenant, SQLiteUpdateTenant
<1>4. /\ a \in DOMAIN sqlite.tenants
      /\ DOMAIN memory.tenants = DOMAIN sqlite.tenants /\ DOMAIN postgres.tenants = DOMAIN sqlite.tenants
  BY Zenon, <1>2 DEF BillInv, SameTenants
<1>5. mem \in TenantRow /\ lite \in TenantRow /\ pg \in TenantRow
  BY Zenon, <1>1, <1>4, StoreRows
<1>6. RowsAgree(a, mem, lite, pg, refused, overtaken)
  BY Zenon, <1>4 DEF BillInv, AllAgree
<1>7. CopyFits(a, held, mem, lite, pg, refused)
  BY Zenon, <1>2 DEF BillInv, AllFit
<1>8. /\ a \in refused' <=> a \in refused \/ clash
      /\ a \in overtaken' <=> a \in overtaken \/ wrote.status # lite.status
      /\ refused' \subseteq Account /\ overtaken' \subseteq Account
      /\ \A b : b # a => (b \in refused' <=> b \in refused)
      /\ \A b : b # a => (b \in overtaken' <=> b \in overtaken)
  <2> HIDE DEF clash, wrote, lite
  <2> QED BY Zenon, <1>1, <1>3
<1>9. clash \in BOOLEAN
  BY Zenon DEF CustomerTaken
<1>10. /\ newMem \in TenantRow /\ newLite \in TenantRow /\ newPg \in TenantRow
       /\ RowsAgree(a, newMem, newLite, newPg, refused', overtaken')
       /\ ~clash => newLite.customer = wrote.customer
  <2>1. newMem = Changed(mem, change)
    BY Zenon
  <2>2. newLite = LiteRow(clash, lite, Changed(held.lite, change))
    BY Zenon DEF LiteRow
  <2>3. newPg = PgRow(pg, Changed(held.pg, change))
    BY Zenon DEF PgRow
  <2>4. a \in overtaken' <=> a \in overtaken \/ Changed(held.lite, change).status # lite.status
    BY Zenon, <1>8
  <2>5. a \in refused' <=> a \in refused \/ clash
    BY Zenon, <1>8
  <2>6. wrote = Changed(held.lite, change)
    BY Zenon
  <2> HIDE DEF mem, lite, pg, held, clash, wrote, newMem, newLite, newPg
  <2>7. /\ newMem \in TenantRow /\ newLite \in TenantRow /\ newPg \in TenantRow
        /\ RowsAgree(a, newMem, newLite, newPg, refused', overtaken')
        /\ ~clash => newLite.customer = Changed(held.lite, change).customer
    BY <1>5, <1>6, <1>7, <1>9, <2>1, <2>2, <2>3, <2>4, <2>5, RowsUpdated
  <2> QED BY Zenon, <2>6, <2>7
<1>11. PutIn(memory', memory, a, newMem) /\ PutIn(postgres', postgres, a, newPg)
  <2> HIDE DEF newMem, newPg
  <2> QED BY Zenon, <1>1, <1>2, <1>10, TenantPut
<1>12. PutIn(sqlite', sqlite, a, newLite)
  <2>1. CASE clash
    <3>1. newLite = sqlite.tenants[a] /\ sqlite' = sqlite
      BY Zenon, <1>3, <2>1
    <3>2. DOMAIN sqlite.tenants = DOMAIN sqlite.tenants \cup {a}
      BY Zenon, <1>4
    <3> HIDE DEF newLite
    <3> QED BY Zenon, <1>1, <3>1, <3>2 DEF PutIn
  <2>2. CASE ~clash
    <3>1. sqlite' = WithTenant(sqlite, a, newLite)
      BY Zenon, <1>3, <2>2
    <3> HIDE DEF newLite
    <3> QED BY Zenon, <1>1, <1>10, <3>1, TenantPut
  <2> QED BY Zenon, <2>1, <2>2
<1>13. \A b \in DOMAIN sqlite.tenants :
          b # a /\ sqlite.tenants[b].customer = newLite.customer => newLite.customer = NoCustomer
  <2>1. CASE clash
    <3>1. newLite = sqlite.tenants[a]
      BY Zenon, <2>1
    <3> HIDE DEF newLite
    <3> QED BY Zenon, <1>4, <3>1 DEF BillInv, CustomersApart
  <2>2. CASE ~clash
    <3>1. newLite.customer = wrote.customer
      BY Zenon, <1>10, <2>2
    <3> HIDE DEF newLite, wrote
    <3> QED BY Zenon, <2>2, <3>1 DEF CustomerTaken
  <2> QED BY Zenon, <2>1, <2>2
<1>14. DOMAIN copies' \subseteq DOMAIN copies /\ a \notin DOMAIN copies'
       /\ \A b \in DOMAIN copies' : copies'[b] = copies[b]
  BY Zenon, <1>2
<1> HIDE DEF mem, lite, pg, held, clash, wrote, newMem, newLite, newPg
<1>15. RowsAgree(a, newMem, newLite, newPg, refused', overtaken')
  BY Zenon, <1>10
<1> QED BY Zenon, <1>2, <1>8, <1>11, <1>12, <1>13, <1>14, <1>15, TenantsStep

\* What SQLite keeps of a key's row.
LiteKey(row) == [row EXCEPT !.expires = IF @ = Never THEN @ ELSE WholeSeconds(@)]

\* The rows of a key that is new.
LEMMA FreshKeys ==
    ASSUME NEW a \in Account, moment \in 0 .. MaxMoment, NEW expires \in {Never, moment + 1},
           NEW row, row = [owner |-> a, expires |-> expires, revoked |-> FALSE],
           NEW lite, lite = LiteKey(row)
    PROVE  row \in KeyRow /\ lite \in KeyRow /\ lite.owner = a /\ KeyRowsAgree(row, lite, row)
<1>0. MaxMoment \in Nat /\ Never = MaxMoment + 2
  BY Zenon, BillingStoreAssumption DEF Never
<1> DEFINE kept == IF expires = Never THEN Never ELSE WholeSeconds(expires)
<1>1. expires \in 0 .. Never /\ expires \in Nat /\ Never \in Nat
  BY <1>0
<1>2. kept \in 0 .. Never
  <2>1. CASE expires = Never
    BY Zenon, <1>1, <2>1
  <2>2. CASE expires # Never
    <3>1. kept = WholeSeconds(expires)
      BY Zenon, <2>2
    <3>2. kept \in Nat /\ kept <= expires
      BY Zenon, <1>1, <3>1, WholeBelow
    <3> HIDE DEF kept
    <3> QED BY <1>1, <3>2
  <2> QED BY Zenon, <2>1, <2>2
<1>3. row \in KeyRow /\ row.owner = a /\ row.expires = expires
  BY Zenon, <1>1 DEF KeyRow
<1>4. lite = [row EXCEPT !.expires = IF row.expires = Never THEN row.expires ELSE WholeSeconds(row.expires)]
  BY Zenon, <1>3 DEF LiteKey
<1>5. lite = [row EXCEPT !.expires = kept]
  BY Zenon, <1>3, <1>4
<1>6. kept = IF row.expires = Never THEN Never ELSE WholeSeconds(row.expires)
  BY Zenon, <1>3
<1> HIDE DEF kept
<1>7. lite \in KeyRow /\ lite.expires = kept /\ lite.owner = row.owner /\ lite.revoked = row.revoked
  BY Zenon, <1>2, <1>3, <1>5 DEF KeyRow
<1> QED BY Zenon, <1>3, <1>6, <1>7 DEF KeyRowsAgree

\* PutAPIKey: the databases refuse the key of a tenant they do not have.
LEMMA PutAPIKeyStep ==
    ASSUME BillInv, NEW a \in Account, NEW k \in KeyID, NEW expires \in {Never, moment + 1},
           PutAPIKey(k, a, expires)
    PROVE  BillInv'
<1> DEFINE row == [owner |-> a, expires |-> expires, revoked |-> FALSE]
           lite == LiteKey(row)
<1>1. /\ moment \in 0 .. MaxMoment /\ memory \in Tables /\ sqlite \in Tables /\ postgres \in Tables
      /\ DOMAIN postgres.tenants = DOMAIN sqlite.tenants
  BY Zenon DEF BillInv, StoresTyped, SameTenants
<1>2. row \in KeyRow /\ lite \in KeyRow /\ lite.owner = a /\ KeyRowsAgree(row, lite, row)
  BY <1>1, FreshKeys
<1>o. row.owner = a
  OBVIOUS
<1>3. /\ k \notin DOMAIN memory.keys /\ memory' = WithKey(memory, k, row)
      /\ sqlite' = (IF row.owner \in DOMAIN sqlite.tenants THEN WithKey(sqlite, k, lite) ELSE sqlite)
      /\ postgres' = (IF row.owner \in DOMAIN postgres.tenants THEN WithKey(postgres, k, row) ELSE postgres)
      /\ copies' = copies /\ refused' = refused /\ overtaken' = overtaken /\ moment' = moment
  BY Zenon DEF PutAPIKey, MemoryPutAPIKey, SQLitePutAPIKey, PostgresPutAPIKey, LiteKey
<1>4. /\ DOMAIN sqlite.keys = DOMAIN postgres.keys /\ DOMAIN postgres.keys \subseteq DOMAIN memory.keys
      /\ \A j \in DOMAIN postgres.keys :
            KeyRowsAgree(memory.keys[j], sqlite.keys[j], postgres.keys[j])
            /\ sqlite.keys[j].owner \in DOMAIN sqlite.tenants
  BY Zenon DEF BillInv, SameKeys
<1> HIDE DEF row, lite
<1>5. /\ memory' \in Tables /\ memory'.tenants = memory.tenants
      /\ DOMAIN memory'.keys = DOMAIN memory.keys \cup {k} /\ memory'.keys[k] = row
      /\ \A j \in DOMAIN memory.keys \ {k} : memory'.keys[j] = memory.keys[j]
  <2>1. KeyPutIn(memory', memory, k, row)
    BY Zenon, <1>1, <1>2, <1>3, KeyPut
  <2> QED BY Zenon, <2>1 DEF KeyPutIn
<1>6. CASE a \in DOMAIN sqlite.tenants
  <2>0. sqlite' = WithKey(sqlite, k, lite) /\ postgres' = WithKey(postgres, k, row)
    BY Zenon, <1>1, <1>o, <1>3, <1>6
  <2>1. /\ sqlite' \in Tables /\ sqlite'.tenants = sqlite.tenants
        /\ DOMAIN sqlite'.keys = DOMAIN sqlite.keys \cup {k} /\ sqlite'.keys[k] = lite
        /\ \A j \in DOMAIN sqlite.keys \ {k} : sqlite'.keys[j] = sqlite.keys[j]
    <3>1. KeyPutIn(sqlite', sqlite, k, lite)
      BY Zenon, <1>1, <1>2, <2>0, KeyPut
    <3> QED BY Zenon, <3>1 DEF KeyPutIn
  <2>2. /\ postgres' \in Tables /\ postgres'.tenants = postgres.tenants
        /\ DOMAIN postgres'.keys = DOMAIN postgres.keys \cup {k} /\ postgres'.keys[k] = row
        /\ \A j \in DOMAIN postgres.keys \ {k} : postgres'.keys[j] = postgres.keys[j]
    <3>1. KeyPutIn(postgres', postgres, k, row)
      BY Zenon, <1>1, <1>2, <2>0, KeyPut
    <3> QED BY Zenon, <3>1 DEF KeyPutIn
  <2>3. DOMAIN sqlite'.keys = DOMAIN postgres'.keys /\ DOMAIN postgres'.keys \subseteq DOMAIN memory'.keys
    BY Zenon, <1>4, <1>5, <2>1, <2>2
  <2>4. ASSUME NEW j \in DOMAIN postgres'.keys
        PROVE  KeyRowsAgree(memory'.keys[j], sqlite'.keys[j], postgres'.keys[j])
               /\ sqlite'.keys[j].owner \in DOMAIN sqlite'.tenants
    <3>1. CASE j = k
      BY Zenon, <1>2, <1>5, <1>6, <2>1, <2>2, <3>1
    <3>2. CASE j # k
      <4>1. j \in DOMAIN postgres.keys
        BY Zenon, <2>2, <3>2
      <4>2. memory'.keys[j] = memory.keys[j] /\ sqlite'.keys[j] = sqlite.keys[j]
            /\ postgres'.keys[j] = postgres.keys[j]
        BY Zenon, <1>4, <1>5, <2>1, <2>2, <3>2, <4>1
      <4> QED BY Zenon, <1>4, <2>1, <4>1, <4>2
    <3> QED BY Zenon, <3>1, <3>2
  <2>5. SameKeys'
    BY Zenon, <2>3, <2>4 DEF SameKeys
  <2> QED BY Zenon, <1>1, <1>3, <1>5, <2>1, <2>2, <2>5, KeysStep
<1>7. CASE a \notin DOMAIN sqlite.tenants
  <2>0. sqlite' = sqlite /\ postgres' = postgres
    BY Zenon, <1>1, <1>o, <1>3, <1>7
  <2>1. SameKeys'
    BY Zenon, <1>3, <1>4, <1>5, <2>0 DEF SameKeys
  <2> QED BY Zenon, <1>1, <1>3, <1>5, <2>0, <2>1, KeysStep
<1> QED BY Zenon, <1>6, <1>7

\* The row of a key that is revoked.
LEMMA RevokedKey ==
    ASSUME NEW row \in KeyRow
    PROVE  LET new == [row EXCEPT !.revoked = TRUE]
           IN  new \in KeyRow /\ new.revoked = TRUE /\ new.owner = row.owner /\ new.expires = row.expires
BY Zenon DEF KeyRow

\* RevokeAPIKey, in the stores that have the key.
LEMMA RevokeAPIKeyStep ==
    ASSUME BillInv, NEW k \in KeyID, RevokeAPIKey(k)
    PROVE  BillInv'
<1> DEFINE mem == [memory.keys[k] EXCEPT !.revoked = TRUE]
           lite == [sqlite.keys[k] EXCEPT !.revoked = TRUE]
           pg == [postgres.keys[k] EXCEPT !.revoked = TRUE]
<1>1. moment \in 0 .. MaxMoment /\ memory \in Tables /\ sqlite \in Tables /\ postgres \in Tables
  BY Zenon DEF BillInv, StoresTyped
<1>3. /\ k \in DOMAIN memory.keys /\ memory' = WithKey(memory, k, mem)
      /\ sqlite' = (IF k \in DOMAIN sqlite.keys THEN WithKey(sqlite, k, lite) ELSE sqlite)
      /\ postgres' = (IF k \in DOMAIN postgres.keys THEN WithKey(postgres, k, pg) ELSE postgres)
      /\ copies' = copies /\ refused' = refused /\ overtaken' = overtaken /\ moment' = moment
  BY Zenon DEF RevokeAPIKey, MemoryRevokeAPIKey, SQLiteRevokeAPIKey, PostgresRevokeAPIKey
<1>4. /\ DOMAIN sqlite.keys = DOMAIN postgres.keys /\ DOMAIN postgres.keys \subseteq DOMAIN memory.keys
      /\ \A j \in DOMAIN postgres.keys :
            KeyRowsAgree(memory.keys[j], sqlite.keys[j], postgres.keys[j])
            /\ sqlite.keys[j].owner \in DOMAIN sqlite.tenants
  BY Zenon DEF BillInv, SameKeys
<1>m. /\ mem \in KeyRow /\ mem.revoked = TRUE /\ mem.owner = memory.keys[k].owner
      /\ mem.expires = memory.keys[k].expires
  BY Zenon, <1>1, <1>3, StoreRows, RevokedKey
<1>s. k \in DOMAIN sqlite.keys =>
          lite \in KeyRow /\ lite.revoked = TRUE /\ lite.owner = sqlite.keys[k].owner
          /\ lite.expires = sqlite.keys[k].expires
  BY Zenon, <1>1, <1>3, StoreRows, RevokedKey
<1>p. k \in DOMAIN postgres.keys =>
          pg \in KeyRow /\ pg.revoked = TRUE /\ pg.owner = postgres.keys[k].owner
          /\ pg.expires = postgres.keys[k].expires
  BY Zenon, <1>1, <1>3, StoreRows, RevokedKey
<1> HIDE DEF mem, lite, pg
<1>5. /\ memory' \in Tables /\ memory'.tenants = memory.tenants
      /\ DOMAIN memory'.keys = DOMAIN memory.keys \cup {k} /\ memory'.keys[k] = mem
      /\ \A j \in DOMAIN memory.keys \ {k} : memory'.keys[j] = memory.keys[j]
  <2>1. KeyPutIn(memory', memory, k, mem)
    BY Zenon, <1>1, <1>m, <1>3, KeyPut
  <2> QED BY Zenon, <2>1 DEF KeyPutIn
<1>6. CASE k \in DOMAIN postgres.keys
  <2>0. sqlite' = WithKey(sqlite, k, lite) /\ postgres' = WithKey(postgres, k, pg)
        /\ k \in DOMAIN sqlite.keys
    BY Zenon, <1>3, <1>4, <1>6
  <2>1. /\ sqlite' \in Tables /\ sqlite'.tenants = sqlite.tenants
        /\ DOMAIN sqlite'.keys = DOMAIN sqlite.keys \cup {k} /\ sqlite'.keys[k] = lite
        /\ \A j \in DOMAIN sqlite.keys \ {k} : sqlite'.keys[j] = sqlite.keys[j]
    <3>1. KeyPutIn(sqlite', sqlite, k, lite)
      BY Zenon, <1>1, <1>s, <2>0, KeyPut
    <3> QED BY Zenon, <3>1 DEF KeyPutIn
  <2>2. /\ postgres' \in Tables /\ postgres'.tenants = postgres.tenants
        /\ DOMAIN postgres'.keys = DOMAIN postgres.keys \cup {k} /\ postgres'.keys[k] = pg
        /\ \A j \in DOMAIN postgres.keys \ {k} : postgres'.keys[j] = postgres.keys[j]
    <3>1. KeyPutIn(postgres', postgres, k, pg)
      BY Zenon, <1>1, <1>p, <1>6, <2>0, KeyPut
    <3> QED BY Zenon, <3>1 DEF KeyPutIn
  <2>3. DOMAIN sqlite'.keys = DOMAIN postgres'.keys /\ DOMAIN postgres'.keys \subseteq DOMAIN memory'.keys
    BY Zenon, <1>4, <1>5, <2>1, <2>2
  <2>4. ASSUME NEW j \in DOMAIN postgres'.keys
        PROVE  KeyRowsAgree(memory'.keys[j], sqlite'.keys[j], postgres'.keys[j])
               /\ sqlite'.keys[j].owner \in DOMAIN sqlite'.tenants
    <3>0. j \in DOMAIN postgres.keys
      BY Zenon, <1>6, <2>2
    <3>1. CASE j = k
      <4>1. KeyRowsAgree(memory.keys[k], sqlite.keys[k], postgres.keys[k])
            /\ sqlite.keys[k].owner \in DOMAIN sqlite.tenants
        BY Zenon, <1>4, <1>6
      <4>2. KeyRowsAgree(mem, lite, pg)
        BY Zenon, <1>m, <1>s, <1>p, <1>6, <2>0, <4>1 DEF KeyRowsAgree
      <4> QED BY Zenon, <1>5, <1>s, <2>0, <2>1, <2>2, <3>1, <4>1, <4>2
    <3>2. CASE j # k
      <4>2. memory'.keys[j] = memory.keys[j] /\ sqlite'.keys[j] = sqlite.keys[j]
            /\ postgres'.keys[j] = postgres.keys[j]
        BY Zenon, <1>4, <1>5, <2>1, <2>2, <3>0, <3>2
      <4> QED BY Zenon, <1>4, <2>1, <3>0, <4>2
    <3> QED BY Zenon, <3>1, <3>2
  <2>5. SameKeys'
    BY Zenon, <2>3, <2>4 DEF SameKeys
  <2> QED BY Zenon, <1>1, <1>3, <1>5, <2>1, <2>2, <2>5, KeysStep
<1>7. CASE k \notin DOMAIN postgres.keys
  <2>0. sqlite' = sqlite /\ postgres' = postgres
    BY Zenon, <1>3, <1>4, <1>7
  <2>1. \A j \in DOMAIN postgres.keys : memory'.keys[j] = memory.keys[j]
    BY Zenon, <1>4, <1>5, <1>7
  <2>2. SameKeys'
    BY Zenon, <1>4, <1>5, <2>0, <2>1 DEF SameKeys
  <2> QED BY Zenon, <1>1, <1>3, <1>5, <2>0, <2>2, KeysStep
<1> QED BY Zenon, <1>6, <1>7

\* Time passes.
LEMMA BillTickStep ==
    ASSUME BillInv, BillingTick
    PROVE  BillInv'
<1>1. /\ moment < MaxMoment /\ moment' = moment + 1 /\ memory' = memory /\ sqlite' = sqlite
      /\ postgres' = postgres /\ copies' = copies /\ refused' = refused /\ overtaken' = overtaken
  BY Zenon DEF BillingTick
<1>2. /\ moment \in 0 .. MaxMoment /\ memory \in Tables /\ sqlite \in Tables /\ postgres \in Tables
      /\ SameKeys
  BY Zenon DEF BillInv, StoresTyped
<1>3. moment' \in 0 .. MaxMoment
  BY <1>1, <1>2, BillingStoreAssumption
<1>4. SameKeys'
  BY Zenon, <1>1, <1>2 DEF SameKeys
<1> QED BY Zenon, <1>1, <1>2, <1>3, <1>4, KeysStep

\* The stores start alike.
LEMMA BillStarts == BillingStoreInit => BillInv
<1> SUFFICES ASSUME BillingStoreInit PROVE BillInv
  OBVIOUS
<1> DEFINE row == NewAccount("ann@x")
<1>1. PICK accounts \in {{}, Account} :
          memory = [tenants |-> [a \in accounts |-> row], keys |-> Nothing]
  BY Zenon DEF BillingStoreInit
<1>2. /\ moment = 0 /\ sqlite = memory /\ postgres = memory /\ copies = Nothing
      /\ refused = {} /\ overtaken = {}
  BY Zenon DEF BillingStoreInit
<1>3. moment \in 0 .. MaxMoment /\ WholeSeconds(0) = 0
  BY <1>2, BillingStoreAssumption DEF WholeSeconds
<1>4. row = [email |-> "ann@x", plan |-> "free", status |-> "active", customer |-> NoCustomer,
             verified |-> FALSE, created |-> 0]
  BY Zenon, <1>2 DEF NewAccount
<1> HIDE DEF row
<1>5. row \in TenantRow /\ row.created = 0 /\ row.customer = NoCustomer
  BY Zenon, <1>2, <1>3, <1>4 DEF TenantRow, Address
<1>6. DOMAIN Nothing = {} /\ accounts \in SUBSET Account
  BY Zenon DEF Nothing
<1> DEFINE table == [a \in accounts |-> row]
<1>7. table \in Table(Account, TenantRow)
  <2>1. table \in [accounts -> TenantRow]
    BY Zenon, <1>5
  <2> HIDE DEF table
  <2> QED BY Zenon, <1>6, <2>1 DEF Table
<1>8. Nothing \in Table(KeyID, KeyRow)
  <2>1. Nothing \in [{} -> KeyRow]
    BY Zenon DEF Nothing
  <2> QED BY Zenon, <2>1 DEF Table
<1>9. memory.tenants = table /\ memory.keys = Nothing
  BY Zenon, <1>1
<1>10. memory \in Tables
  <2> DEFINE TT == Table(Account, TenantRow)
             KK == Table(KeyID, KeyRow)
  <2>1. memory = [tenants |-> table, keys |-> Nothing] /\ table \in TT /\ Nothing \in KK
    BY Zenon, <1>1, <1>7, <1>8
  <2>2. Tables = [tenants : TT, keys : KK]
    BY Zenon DEF Tables, Table
  <2> HIDE DEF TT, KK, table
  <2> QED BY Zenon, <2>1, <2>2
<1>11. DOMAIN table = accounts /\ \A a \in accounts : table[a] = row
  BY Zenon
<1> HIDE DEF table
<1>12. StoresTyped
  BY Zenon, <1>2, <1>3, <1>10 DEF StoresTyped
<1>13. SameTenants
  BY Zenon, <1>2, <1>6 DEF SameTenants
<1>14. \A a : RowsAgree(a, row, row, row, refused, overtaken)
  BY Zenon, <1>3, <1>5 DEF RowsAgree
<1>15. AllAgree
  BY Zenon, <1>2, <1>9, <1>11, <1>14 DEF AllAgree
<1>16. AllFit
  BY Zenon, <1>2, <1>6 DEF AllFit
<1>17. CustomersApart
  BY Zenon, <1>2, <1>5, <1>9, <1>11 DEF CustomersApart
<1>18. SameKeys
  BY Zenon, <1>2, <1>6, <1>9 DEF SameKeys
<1> QED BY Zenon, <1>12, <1>13, <1>15, <1>16, <1>17, <1>18 DEF BillInv

\* Every call keeps the invariant.
LEMMA BillStep == BillInv /\ [BillingStoreNext]_billingStoreVars => BillInv'
<1> SUFFICES ASSUME BillInv, [BillingStoreNext]_billingStoreVars PROVE BillInv'
  OBVIOUS
<1>1. ASSUME NEW a \in Account, NEW address \in Address, PutTenant(a, address) PROVE BillInv'
  BY Zenon, <1>1, PutTenantStep
<1>2. ASSUME NEW a \in Account, Suspend(a) PROVE BillInv'
  BY Zenon, <1>2, SuspendStep
<1>3. ASSUME NEW a \in Account, MarkTenantEmailVerified(a) PROVE BillInv'
  BY Zenon, <1>3, MarkVerifiedStep
<1>4. ASSUME NEW a \in Account, NEW change \in Change, UpdateTenant(a, change) PROVE BillInv'
  BY Zenon, <1>4, UpdateTenantStep
<1>5. ASSUME NEW a \in Account, NEW k \in KeyID, NEW expires \in {Never, moment + 1},
             PutAPIKey(k, a, expires)
      PROVE  BillInv'
  BY Zenon, <1>5, PutAPIKeyStep
<1>6. ASSUME NEW k \in KeyID, RevokeAPIKey(k) PROVE BillInv'
  BY Zenon, <1>6, RevokeAPIKeyStep
<1>7. ASSUME NEW a \in Account, ReadTenant(a) PROVE BillInv'
  BY Zenon, <1>7, ReadTenantStep
<1>8. CASE BillingTick
  BY Zenon, <1>8, BillTickStep
<1>9. CASE UNCHANGED billingStoreVars
  BY Zenon, <1>9 DEF BillInv, StoresTyped, SameTenants, AllAgree, AllFit, CustomersApart, SameKeys,
                     billingStoreVars
<1>10. CASE StoreCall
  BY Zenon, <1>1, <1>2, <1>3, <1>4, <1>5, <1>6, <1>10 DEF StoreCall
<1> QED BY Zenon, <1>7, <1>8, <1>9, <1>10 DEF BillingStoreNext

\* A set of numbers that is not empty has a least member: some tenant is the oldest.
LEMMA LeastNat ==
    ASSUME NEW T \in SUBSET Nat, T # {}
    PROVE  \E n \in T : \A m \in T : n <= m
<1> DEFINE R == {p \in Nat \X Nat : p[1] < p[2]}
<1>1. IsWellFoundedOn(R, Nat)
  BY NatLessThanWellFounded, Zenon DEF OpToRel
<1>2. \E n \in T : \A m \in T : ~(<<m, n>> \in R)
  <2> HIDE DEF R
  <2> QED
    BY <1>1, WFMin, Zenon
<1>3. PICK n \in T : \A m \in T : ~(<<m, n>> \in R)
  BY Zenon, <1>2
<1>4. ASSUME NEW m \in T
      PROVE  n <= m
  <2>1. ~(<<m, n>> \in R)
    BY Zenon, <1>3
  <2>2. <<m, n>> \in Nat \X Nat /\ <<m, n>>[1] = m /\ <<m, n>>[2] = n
    OBVIOUS
  <2>3. ~(m < n)
    BY Zenon, <2>1, <2>2
  <2> QED
    BY <2>3
<1> QED
  BY Zenon, <1>4

\* The rows of a tenant agree as far as TenantsAgree says.
LEMMA TenantsFollow == BillInv => TenantsAgree
<1> SUFFICES ASSUME BillInv, NEW a \in Account
             PROVE  /\ a \in DOMAIN memory.tenants <=> a \in DOMAIN sqlite.tenants
                    /\ a \in DOMAIN postgres.tenants <=> a \in DOMAIN sqlite.tenants
                    /\ a \in DOMAIN sqlite.tenants =>
                          LET mem == memory.tenants[a]  lite == sqlite.tenants[a]  pg == postgres.tenants[a]
                          IN  /\ a \notin refused => Common(pg) = Common(lite)
                              /\ pg.customer = NoCustomer
                              /\ ~CustomerTaken(sqlite.tenants, a, lite.customer)
                              /\ a \notin refused \cup overtaken =>
                                    Common(mem) = Common(lite) /\ mem.customer = lite.customer
                              /\ lite.status = "suspended" => mem.status = "suspended"
  BY Zenon DEF TenantsAgree
<1>1. DOMAIN memory.tenants = DOMAIN sqlite.tenants /\ DOMAIN postgres.tenants = DOMAIN sqlite.tenants
  BY Zenon DEF BillInv, SameTenants
<1>2. ASSUME a \in DOMAIN sqlite.tenants
      PROVE  RowsAgree(a, memory.tenants[a], sqlite.tenants[a], postgres.tenants[a], refused, overtaken)
             /\ ~CustomerTaken(sqlite.tenants, a, sqlite.tenants[a].customer)
  BY Zenon, <1>2 DEF BillInv, AllAgree, CustomersApart, CustomerTaken
<1> QED BY Zenon, <1>1, <1>2 DEF RowsAgree, Common

\* All stores find the same tenants by an address; the oldest is so to the second.
LEMMA AddressesFollow == BillInv => AddressesAgree
<1> SUFFICES ASSUME BillInv PROVE AddressesAgree
  OBVIOUS
<1> DEFINE found == WithAddress(postgres.tenants, "ann@x")
<1>1. /\ DOMAIN memory.tenants = DOMAIN sqlite.tenants /\ DOMAIN postgres.tenants = DOMAIN sqlite.tenants
      /\ \A a \in DOMAIN sqlite.tenants :
            /\ memory.tenants[a].email = sqlite.tenants[a].email
            /\ postgres.tenants[a].email = sqlite.tenants[a].email
            /\ sqlite.tenants[a].created = WholeSeconds(postgres.tenants[a].created)
  BY Zenon DEF BillInv, SameTenants, AllAgree, RowsAgree
<1>2. WithAddress(memory.tenants, "ann@x") = found /\ WithAddress(sqlite.tenants, "ann@x") = found
  BY Zenon, <1>1 DEF WithAddress
<1>3. \A a \in found : a \in DOMAIN sqlite.tenants /\ sqlite.tenants[a].email = "ann@x"
  BY Zenon, <1>1 DEF WithAddress
<1>4. \A a \in found : postgres.tenants[a].created \in Nat
  <2>1. \A a \in found : postgres.tenants[a] \in TenantRow
    BY Zenon, <1>1, <1>3, StoreRows DEF BillInv, StoresTyped
  <2>2. \A row \in TenantRow : row.created \in Nat
    BY BillingStoreAssumption DEF TenantRow
  <2> QED BY Zenon, <2>1, <2>2
<1>5. /\ MemoryGetTenantByEmail("ann@x") = found
      /\ \A address : SQLiteGetTenantByEmail(address) = Oldest(sqlite.tenants, found)
      /\ \A address : PostgresGetTenantByEmail(address) = Oldest(postgres.tenants, found)
  BY Zenon, <1>2 DEF MemoryGetTenantByEmail, SQLiteGetTenantByEmail, PostgresGetTenantByEmail, LowerCase
<1> HIDE DEF found
<1>6. \A a \in Oldest(sqlite.tenants, found) \cup Oldest(postgres.tenants, found) : a \in found
  BY Zenon DEF Oldest
<1>7. Oldest(postgres.tenants, found) \subseteq Oldest(sqlite.tenants, found)
  <2> SUFFICES ASSUME NEW a \in Oldest(postgres.tenants, found), NEW b \in found
               PROVE  sqlite.tenants[a].created <= sqlite.tenants[b].created
    BY Zenon, <1>6 DEF Oldest
  <2>1. a \in found /\ postgres.tenants[a].created <= postgres.tenants[b].created
    BY Zenon DEF Oldest
  <2>2. WholeSeconds(postgres.tenants[a].created) <= WholeSeconds(postgres.tenants[b].created)
    BY Zenon, <1>4, <2>1, WholeMonotone
  <2> QED BY Zenon, <1>1, <1>3, <2>1, <2>2
<1>8. found # {} => Oldest(postgres.tenants, found) # {}
  <2> SUFFICES ASSUME found # {} PROVE Oldest(postgres.tenants, found) # {}
    BY Zenon
  <2> DEFINE times == {postgres.tenants[a].created : a \in found}
  <2>1. times \in SUBSET Nat /\ times # {}
    BY Zenon, <1>4
  <2>2. PICK n \in times : \A m \in times : n <= m
    <3> HIDE DEF times
    <3> QED BY Zenon, <2>1, LeastNat
  <2>3. PICK a \in found : n = postgres.tenants[a].created
    BY Zenon
  <2>4. \A b \in found : postgres.tenants[a].created <= postgres.tenants[b].created
    BY Zenon, <2>2, <2>3
  <2> QED BY Zenon, <2>4 DEF Oldest
<1> QED BY Zenon, <1>3, <1>5, <1>6, <1>7, <1>8 DEF AddressesAgree, LowerCase

\* What the three rows of a key say of its validity.
LEMMA KeyValidity ==
    ASSUME moment \in 0 .. MaxMoment, NEW mem \in KeyRow, NEW lite \in KeyRow, NEW pg \in KeyRow,
           KeyRowsAgree(mem, lite, pg)
    PROVE  /\ IsValid(lite) => IsValid(pg)
           /\ IsValid(pg) => IsValid(mem)
           /\ IsValid(pg) /\ ~IsValid(lite) => pg.expires < moment + 2
           /\ ~lite.revoked /\ lite.expires > WholeSeconds(moment) => IsValid(lite)
           /\ ~pg.revoked /\ pg.expires > moment => IsValid(pg)
<1> DEFINE t == pg.expires
           u == lite.expires
           now == WholeSeconds(moment)
<1>1. MaxMoment \in Nat /\ Never \in Nat /\ moment \in Nat
  BY BillingStoreAssumption DEF Never
<1>2. t \in Nat /\ t <= Never
  BY <1>1 DEF KeyRow
<1>3. /\ mem.revoked = pg.revoked /\ lite.revoked = pg.revoked /\ mem.expires = t
      /\ u = IF t = Never THEN Never ELSE WholeSeconds(t)
  BY Zenon DEF KeyRowsAgree
<1>4. now \in Nat /\ now <= moment /\ moment <= now + 1 /\ now % 2 = 0
  BY Zenon, <1>1, WholeBelow
<1>5. t = Never => u = Never
  BY Zenon, <1>3
<1>6. t # Never => u \in Nat /\ u <= t /\ t <= u + 1 /\ u % 2 = 0
  BY Zenon, <1>2, <1>3, WholeBelow
<1>7. /\ IsValid(lite) <=> ~pg.revoked /\ (u = Never \/ moment <= u)
      /\ IsValid(pg) <=> ~pg.revoked /\ (t = Never \/ moment <= t)
      /\ IsValid(mem) <=> ~pg.revoked /\ (t = Never \/ moment <= t)
  BY Zenon, <1>3 DEF IsValid
<1> HIDE DEF t, u, now
<1>8. (u = Never \/ moment <= u) => (t = Never \/ moment <= t)
  BY <1>1, <1>2, <1>5, <1>6
<1>9. (t = Never \/ moment <= t) /\ ~(u = Never \/ moment <= u) => t < moment + 2
  BY <1>1, <1>2, <1>5, <1>6
<1>10. u > now => u = Never \/ moment <= u
  <2>1. CASE t = Never
    BY Zenon, <1>5, <2>1
  <2>2. CASE t # Never
    BY <1>1, <1>4, <1>6, <2>2
  <2> QED BY Zenon, <2>1, <2>2
<1>11. t > moment => t = Never \/ moment <= t
  BY <1>1, <1>2
<1> QED BY Zenon, <1>3, <1>7, <1>8, <1>9, <1>10, <1>11 DEF t, u, now

\* So do its keys.
LEMMA KeysFollowStores == BillInv => KeysAgree
<1> SUFFICES ASSUME BillInv, NEW a \in DOMAIN sqlite.tenants
             PROVE  /\ MemoryListAPIKeysActive(a) \subseteq ValidKeys(memory, a)
                    /\ SQLiteListAPIKeysActive(a) \subseteq ValidKeys(sqlite, a)
                    /\ PostgresListAPIKeysActive(a) \subseteq ValidKeys(postgres, a)
                    /\ ValidKeys(sqlite, a) \subseteq ValidKeys(postgres, a)
                    /\ ValidKeys(postgres, a) \subseteq ValidKeys(memory, a)
                    /\ \A k \in ValidKeys(postgres, a) \ ValidKeys(sqlite, a) :
                            postgres.keys[k].expires < moment + 2
                    /\ \A k \in DOMAIN postgres.keys \cup DOMAIN sqlite.keys :
                            k \in DOMAIN postgres.keys \cap DOMAIN sqlite.keys
                            /\ sqlite.keys[k].owner \in DOMAIN sqlite.tenants
  BY Zenon DEF KeysAgree
<1>1. /\ moment \in 0 .. MaxMoment /\ memory \in Tables /\ sqlite \in Tables /\ postgres \in Tables
      /\ DOMAIN sqlite.keys = DOMAIN postgres.keys /\ DOMAIN postgres.keys \subseteq DOMAIN memory.keys
      /\ \A k \in DOMAIN postgres.keys :
            /\ KeyRowsAgree(memory.keys[k], sqlite.keys[k], postgres.keys[k])
            /\ sqlite.keys[k].owner \in DOMAIN sqlite.tenants
  BY Zenon DEF BillInv, StoresTyped, SameKeys
<1>2. ASSUME NEW k \in DOMAIN postgres.keys
      PROVE  /\ IsValid(sqlite.keys[k]) => IsValid(postgres.keys[k])
             /\ IsValid(postgres.keys[k]) => IsValid(memory.keys[k])
             /\ IsValid(postgres.keys[k]) /\ ~IsValid(sqlite.keys[k]) => postgres.keys[k].expires < moment + 2
             /\ ~sqlite.keys[k].revoked /\ sqlite.keys[k].expires > WholeSeconds(moment) =>
                   IsValid(sqlite.keys[k])
             /\ ~postgres.keys[k].revoked /\ postgres.keys[k].expires > moment => IsValid(postgres.keys[k])
             /\ memory.keys[k].owner = postgres.keys[k].owner
             /\ sqlite.keys[k].owner = postgres.keys[k].owner
  <2>1. memory.keys[k] \in KeyRow /\ sqlite.keys[k] \in KeyRow /\ postgres.keys[k] \in KeyRow
    BY Zenon, <1>1, StoreRows
  <2>2. KeyRowsAgree(memory.keys[k], sqlite.keys[k], postgres.keys[k])
    BY Zenon, <1>1
  <2>3. memory.keys[k].owner = postgres.keys[k].owner /\ sqlite.keys[k].owner = postgres.keys[k].owner
    BY Zenon, <2>2 DEF KeyRowsAgree
  <2> QED BY <1>1, <2>1, <2>2, <2>3, KeyValidity
<1>3. MemoryListAPIKeysActive(a) \subseteq ValidKeys(memory, a)
  BY Zenon DEF MemoryListAPIKeysActive, ValidKeys
<1>4. SQLiteListAPIKeysActive(a) \subseteq ValidKeys(sqlite, a)
  BY Zenon, <1>1, <1>2 DEF SQLiteListAPIKeysActive, ValidKeys
<1>5. PostgresListAPIKeysActive(a) \subseteq ValidKeys(postgres, a)
  BY Zenon, <1>1, <1>2 DEF PostgresListAPIKeysActive, ValidKeys
<1>6. ValidKeys(sqlite, a) \subseteq ValidKeys(postgres, a)
  BY Zenon, <1>1, <1>2 DEF ValidKeys
<1>7. ValidKeys(postgres, a) \subseteq ValidKeys(memory, a)
  BY Zenon, <1>1, <1>2 DEF ValidKeys
<1>8. \A k \in ValidKeys(postgres, a) \ ValidKeys(sqlite, a) : postgres.keys[k].expires < moment + 2
  BY Zenon, <1>1, <1>2 DEF ValidKeys
<1>9. \A k \in DOMAIN postgres.keys \cup DOMAIN sqlite.keys :
          k \in DOMAIN postgres.keys \cap DOMAIN sqlite.keys
          /\ sqlite.keys[k].owner \in DOMAIN sqlite.tenants
  BY Zenon, <1>1
<1> QED BY Zenon, <1>3, <1>4, <1>5, <1>6, <1>7, <1>8, <1>9

\* MemoryStore, SQLiteStore and PostgresStore, given the same calls in any order, agree on
\* tenants, on their addresses and on their keys, as far as DriversAgree says.
THEOREM DriversAlwaysAgree == BillingStoreSpec => [](BillingStoreTypeOK /\ DriversAgree)
<1>1. BillInv => BillingStoreTypeOK /\ DriversAgree
  BY Zenon, TenantsFollow, AddressesFollow, KeysFollowStores
     DEF DriversAgree, BillingStoreTypeOK, BillInv, StoresTyped, SameTenants
<1> QED BY <1>1, BillStarts, BillStep, PTL DEF BillingStoreSpec
-----------------------------------------------------------------------------
\* The registry, the stores of conversations and the stores of billing give the same
\* answers by their indexes as without them, on one backend as on the other, and after a
\* crash as before it.
THEOREM BackendsAlwaysAgree == RegSpec /\ ConvSpec /\ BillingStoreSpec => []BackendsAgree
<1>1. RegTypeOK /\ LookupsAgree /\ RegistrationsSurvive /\ StoresAgree /\ BillingStoreTypeOK /\ DriversAgree =>
         BackendsAgree
  BY Zenon DEF BackendsAgree
<1> QED BY <1>1, RegistryIsSound, ConversationsAgree, DriversAlwaysAgree, PTL
=============================================================================
