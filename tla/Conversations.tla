--------------------------- MODULE Conversations ---------------------------
(***************************************************************************)
(* The two conversation stores of pkg/conversation, MemoryStore and        *)
(* SQLiteStore, given the same calls: the Store interface promises the     *)
(* same of both.  Every method of either is atomic (a mutex, and a         *)
(* transaction where SQLite needs two statements).  Callers change a       *)
(* thread by GetThread, their own changes and UpdateThread, in between     *)
(* which others may have saved messages: `copy' is what they hold.         *)
(*                                                                         *)
(* MemoryStore finds messages and threads through indexes, which are bags. *)
(* Thread IDs are made once (NewThread).  A message may be saved again     *)
(* with its ID.  SQLite enforces its foreign keys only on the connection   *)
(* that ran the PRAGMA; reads at the same time make the pool open another. *)
(***************************************************************************)
EXTENDS Integers, FiniteSets

CONSTANTS
    Thread, Message, Person,
    Nobody,       \* no thread, no copy
    MaxSaves      \* bound on calls of SaveMessage

ASSUME ConversationAssumption ==
    /\ MaxSaves \in Nat
    /\ Nobody \notin Thread /\ Nobody \notin [who : SUBSET Person, count : Int]

VARIABLES
    threads,    \* MemoryStore: the threads, [who, count] or Nobody
    messages,   \* MemoryStore: the thread of each message, or Nobody
    byThread,   \* MemoryStore.messagesByThread, as a bag of messages
    byPerson,   \* MemoryStore.threadsByDID, as a bag of threads
    receipts,   \* MemoryStore: [delivered, read], sets of <<message, person>>
    tThreads, tMessages, tReceipts,   \* the tables of SQLiteStore
    enforced,   \* every connection of the pool enforces foreign keys
    copy,       \* a thread some caller got from both stores, or Nobody
    made,       \* threads that were created
    saves,      \* calls of SaveMessage
    twice       \* history: a message was saved a second time

memVars == <<threads, messages, byThread, byPerson, receipts>>
sqlVars == <<tThreads, tMessages, tReceipts>>
historyVars == <<made, saves, twice>>
convVars == <<memVars, sqlVars, enforced, copy, historyVars>>

ThreadRecord == [who : SUBSET Person, count : (-MaxSaves)..MaxSaves]
Receipts == [delivered : SUBSET (Message \X Person), read : SUBSET (Message \X Person)]

ConvTypeOK ==
    /\ threads \in [Thread -> ThreadRecord \cup {Nobody}]
    /\ tThreads \in [Thread -> ThreadRecord \cup {Nobody}]
    /\ messages \in [Message -> Thread \cup {Nobody}]
    /\ tMessages \in [Message -> Thread \cup {Nobody}]
    /\ byThread \in [Thread -> [Message -> Nat]]
    /\ byPerson \in [Person -> [Thread -> Nat]]
    /\ receipts \in Receipts /\ tReceipts \in Receipts

ConvInit ==
    /\ threads = [t \in Thread |-> Nobody] /\ tThreads = threads
    /\ messages = [m \in Message |-> Nobody] /\ tMessages = messages
    /\ byThread = [t \in Thread |-> [m \in Message |-> 0]]
    /\ byPerson = [p \in Person |-> [t \in Thread |-> 0]]
    /\ receipts = [delivered |-> {}, read |-> {}] /\ tReceipts = receipts
    /\ enforced = TRUE
    /\ copy = Nobody
    /\ made = {} /\ twice = FALSE /\ saves = 0

Of(ms, t) == {m \in Message : ms[m] = t}
Without(ms, gone) == [m \in Message |-> IF m \in gone THEN Nobody ELSE ms[m]]
Drop(rs, gone) == [delivered |-> {x \in rs.delivered : x[1] \notin gone},
                   read |-> {x \in rs.read : x[1] \notin gone}]

\* The count of a deleted message's thread.
CountDown(ts, t) ==
    IF t = Nobody \/ ts[t] = Nobody THEN ts ELSE [ts EXCEPT ![t].count = @ - 1]

Mark(rs, m, p, isRead) ==
    [delivered |-> rs.delivered \cup {<<m, p>>},
     read |-> IF isRead THEN rs.read \cup {<<m, p>>} ELSE rs.read]

(***************************************************************************)
(* MemoryStore                                                             *)
(***************************************************************************)
\* Mutant: adds to the index and never removes from it.
ReindexAdding(t, old, who) ==
    [p \in Person |->
        IF p \in who \ old THEN [byPerson[p] EXCEPT ![t] = @ + 1] ELSE byPerson[p]]

\* threadsByDID when the participants of t change; an entry is removed once.
Reindex(t, old, who) ==
    [p \in Person |->
        CASE p \in who \ old -> [byPerson[p] EXCEPT ![t] = @ + 1]
          [] p \in old \ who /\ byPerson[p][t] > 0 -> [byPerson[p] EXCEPT ![t] = @ - 1]
          [] OTHER -> byPerson[p]]

MemCreateThread(t, who) ==
    /\ threads' = [threads EXCEPT ![t] = [who |-> who, count |-> 0]]
    /\ byPerson' = Reindex(t, {}, who)
    /\ UNCHANGED <<messages, byThread, receipts>>

\* Writes the whole record, the count of the caller's copy included.
MemUpdateThread(t, who, count) ==
    IF threads[t] = Nobody THEN UNCHANGED memVars
    ELSE /\ threads' = [threads EXCEPT ![t] = [who |-> who, count |-> count]]
         /\ byPerson' = Reindex(t, threads[t].who, who)
         /\ UNCHANGED <<messages, byThread, receipts>>

\* Deletes the messages that the index names.
MemDeleteThread(t) ==
    LET gone == {m \in Message : byThread[t][m] > 0} IN
    /\ threads' = [threads EXCEPT ![t] = Nobody]
    /\ byPerson' = Reindex(t, threads[t].who, {})
    /\ messages' = Without(messages, gone)
    /\ receipts' = Drop(receipts, gone)
    /\ byThread' = [byThread EXCEPT ![t] = [m \in Message |-> 0]]

\* A message that is there is overwritten, indexed and counted again.
MemSaveMessage(m, t) ==
    IF threads[t] = Nobody THEN UNCHANGED memVars
    ELSE /\ messages' = [messages EXCEPT ![m] = t]
         /\ byThread' = [byThread EXCEPT ![t][m] = @ + 1]
         /\ threads' = [threads EXCEPT ![t].count = @ + 1]
         /\ UNCHANGED <<byPerson, receipts>>

MemDeleteMessage(m) ==
    IF messages[m] = Nobody THEN UNCHANGED memVars
    ELSE /\ messages' = Without(messages, {m})
         /\ byThread' = [byThread EXCEPT ![messages[m]][m] = IF @ > 0 THEN @ - 1 ELSE 0]
         /\ threads' = CountDown(threads, messages[m])
         /\ receipts' = Drop(receipts, {m})
         /\ UNCHANGED byPerson

MemMark(m, p, isRead) ==
    /\ receipts' = IF messages[m] = Nobody THEN receipts ELSE Mark(receipts, m, p, isRead)
    /\ UNCHANGED <<threads, messages, byThread, byPerson>>

(***************************************************************************)
(* SQLiteStore                                                             *)
(***************************************************************************)
\* Whether the connection a statement happens to get enforces foreign keys.
Connections == IF enforced THEN {TRUE} ELSE {TRUE, FALSE}

SqlCreateThread(t, who) ==
    /\ tThreads' = [tThreads EXCEPT ![t] = [who |-> who, count |-> 0]]
    /\ UNCHANGED <<tMessages, tReceipts>>

SqlUpdateThread(t, who, count) ==
    /\ tThreads' = IF tThreads[t] = Nobody THEN tThreads
                   ELSE [tThreads EXCEPT ![t] = [who |-> who, count |-> count]]
    /\ UNCHANGED <<tMessages, tReceipts>>

\* ON DELETE CASCADE, from the thread to messages and on to receipts.
SqlDeleteThread(t) ==
    /\ tThreads' = [tThreads EXCEPT ![t] = Nobody]
    /\ \E cascades \in Connections :
          LET gone == IF cascades THEN Of(tMessages, t) ELSE {} IN
          /\ tMessages' = Without(tMessages, gone)
          /\ tReceipts' = Drop(tReceipts, gone)

\* One transaction: the primary key refuses a message that is there, the
\* foreign key one without a thread.
SqlSaveMessage(m, t) ==
    \E checks \in Connections :
        IF tMessages[m] # Nobody \/ (checks /\ tThreads[t] = Nobody)
        THEN UNCHANGED sqlVars
        ELSE /\ tMessages' = [tMessages EXCEPT ![m] = t]
             /\ tThreads' = IF tThreads[t] = Nobody THEN tThreads
                            ELSE [tThreads EXCEPT ![t].count = @ + 1]
             /\ UNCHANGED tReceipts

SqlDeleteMessage(m) ==
    IF tMessages[m] = Nobody THEN UNCHANGED sqlVars
    ELSE /\ tMessages' = Without(tMessages, {m})
         /\ tThreads' = CountDown(tThreads, tMessages[m])
         /\ \E cascades \in Connections :
               tReceipts' = IF cascades THEN Drop(tReceipts, {m}) ELSE tReceipts

\* An upsert that keeps the time of delivery.
SqlMark(m, p, isRead) ==
    /\ tReceipts' = IF tMessages[m] = Nobody THEN tReceipts ELSE Mark(tReceipts, m, p, isRead)
    /\ UNCHANGED <<tThreads, tMessages>>

\* What ListThreads of a person and GetMessages of a thread return, and how
\* often, in each of the stores, with no other filter and no page limit.
MemListThreads(p) == [t \in Thread |-> IF threads[t] = Nobody THEN 0 ELSE byPerson[p][t]]
SqlListThreads(p) ==
    [t \in Thread |-> IF tThreads[t] # Nobody /\ p \in tThreads[t].who THEN 1 ELSE 0]
MemGetMessages(t) == [m \in Message |-> IF messages[m] = Nobody THEN 0 ELSE byThread[t][m]]
SqlGetMessages(t) == [m \in Message |-> IF tMessages[m] = t THEN 1 ELSE 0]

(***************************************************************************)
(* The calls                                                               *)
(***************************************************************************)
CreateThread(t, who) ==
    /\ t \notin made
    /\ MemCreateThread(t, who) /\ SqlCreateThread(t, who)
    /\ made' = made \cup {t}
    /\ UNCHANGED <<enforced, copy, saves, twice>>

GetThread(t) ==
    /\ threads[t] # Nobody
    /\ copy' = [thread |-> t, count |-> threads[t].count, tCount |-> tThreads[t].count]
    /\ UNCHANGED <<memVars, sqlVars, enforced, historyVars>>

UpdateThread(who) ==
    /\ copy # Nobody
    /\ LET t == copy.thread IN
          /\ MemUpdateThread(t, who, copy.count) /\ SqlUpdateThread(t, who, copy.tCount)
    /\ copy' = Nobody
    /\ UNCHANGED <<enforced, made, saves, twice>>

DeleteThread(t) ==
    /\ threads[t] # Nobody
    /\ MemDeleteThread(t) /\ SqlDeleteThread(t)
    /\ UNCHANGED <<enforced, copy, historyVars>>

SaveMessage(m, t) ==
    /\ t \in made
    /\ saves < MaxSaves /\ saves' = saves + 1
    /\ MemSaveMessage(m, t) /\ SqlSaveMessage(m, t)
    /\ twice' = (twice \/ (threads[t] # Nobody /\ messages[m] # Nobody))
    /\ UNCHANGED <<enforced, copy, made>>

DeleteMessage(m) ==
    /\ MemDeleteMessage(m) /\ SqlDeleteMessage(m)
    /\ UNCHANGED <<enforced, copy, historyVars>>

\* MarkDelivered and MarkRead.
MarkReceipt(m, p, isRead) ==
    /\ MemMark(m, p, isRead) /\ SqlMark(m, p, isRead)
    /\ UNCHANGED <<enforced, copy, historyVars>>

\* Two reads at once: the pool opens a second connection.
ReadTogether ==
    /\ enforced
    /\ enforced' = FALSE
    /\ UNCHANGED <<memVars, sqlVars, copy, historyVars>>

ConvNext ==
    \/ \E t \in Thread :
          \/ \E who \in SUBSET Person : CreateThread(t, who)
          \/ GetThread(t) \/ DeleteThread(t)
          \/ \E m \in Message : SaveMessage(m, t)
    \/ \E who \in SUBSET Person : UpdateThread(who)
    \/ \E m \in Message :
          \/ DeleteMessage(m)
          \/ \E p \in Person, isRead \in BOOLEAN : MarkReceipt(m, p, isRead)
    \/ ReadTogether

ConvSpec == ConvInit /\ [][ConvNext]_convVars

\* As long as no message is saved twice and no connection without foreign keys
\* is in the pool, both stores hold the same, and the indexes of MemoryStore
\* answer as the tables do: complete, and naming nothing twice.
StoresAgree ==
    ~twice /\ enforced =>
        /\ threads = tThreads /\ messages = tMessages /\ receipts = tReceipts
        /\ \A t \in Thread : MemGetMessages(t) = SqlGetMessages(t)
        /\ \A p \in Person : MemListThreads(p) = SqlListThreads(p)

=============================================================================
