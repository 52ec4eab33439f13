--------------------------- MODULE TenantLimiter ---------------------------
(***************************************************************************)
(* billing.TenantRateLimiterPool for one tenant (tenants share nothing but *)
(* the map): connections of the tenant ask for a token at the same time,   *)
(* and the first to come creates the bucket from the tenant's quota, which *)
(* may change in between.  A bucket keeps the quota it was created with.   *)
(* The relay never calls Evict.                                            *)
(***************************************************************************)
EXTENDS Clock

CONSTANTS
    Conn,      \* connections of the tenant
    Quotas,      \* the quotas the tenant has one after another: [rate, burst]
    Default,     \* the quota used when the tenant cannot be read
    None

ASSUME LimiterAssumption ==
    /\ None \notin Conn
    /\ \A q \in Quotas \cup {Default} : q.rate \in Nat /\ q.burst \in Nat

VARIABLES
    bucket,    \* the pool's entry: None, or the caller that created it
    made,      \* the bucket each caller has created, None if it has not
    at, held,  \* per caller: where in Allow, and the quota or bucket it holds
    quota,     \* the tenant's quota in the store
    granted    \* history: tokens granted in all

poolVars == <<bucket, made, at, held, quota, now, granted>>

PoolInit ==
    /\ bucket = None
    /\ made = [c \in Conn |-> None]
    /\ at = [c \in Conn |-> "out"]
    /\ held = [c \in Conn |-> None]
    /\ quota \in Quotas
    /\ now = 0
    /\ granted = 0

Goto(c, l) == at' = [at EXCEPT ![c] = l]

\* Allow, under the read lock.
Look(c) ==
    /\ at[c] = "out"
    /\ IF bucket # None
       THEN Goto(c, "take") /\ held' = [held EXCEPT ![c] = bucket]
       ELSE Goto(c, "read") /\ UNCHANGED held
    /\ UNCHANGED <<bucket, made, quota, now, granted>>

\* GetTenant, without a lock; it may fail.
ReadQuota(c) ==
    /\ at[c] = "read"
    /\ \E q \in {quota, Default} : held' = [held EXCEPT ![c] = q]
    /\ Goto(c, "install")
    /\ UNCHANGED <<bucket, made, quota, now, granted>>

newTenantBucket(q) == [rate |-> q.rate, burst |-> q.burst, tokens |-> q.burst, last |-> now]

\* Mutant: does not look again under the write lock.
InstallBlindly(c) ==
    /\ at[c] = "install"
    /\ made' = [made EXCEPT ![c] = newTenantBucket(held[c])]
    /\ bucket' = c
    /\ held' = [held EXCEPT ![c] = c]
    /\ Goto(c, "take")
    /\ UNCHANGED <<quota, now, granted>>

\* Under the write lock: create the bucket unless another caller has.
Install(c) ==
    /\ at[c] = "install"
    /\ IF bucket = None
       THEN /\ made' = [made EXCEPT ![c] = newTenantBucket(held[c])]
            /\ bucket' = c
       ELSE UNCHANGED <<made, bucket>>
    /\ held' = [held EXCEPT ![c] = bucket']
    /\ Goto(c, "take")
    /\ UNCHANGED <<quota, now, granted>>

Refilled(b) ==
    LET grown == b.tokens + (now - b.last) * b.rate
    IN  IF grown > b.burst THEN b.burst ELSE grown

\* tenantBucket.Allow on the bucket the caller holds.
Take(c) ==
    /\ at[c] = "take"
    /\ LET b  == made[held[c]]
           ok == Refilled(b) >= 1
       IN  /\ made' = [made EXCEPT ![held[c]] =
                          [b EXCEPT !.tokens = IF ok THEN Refilled(b) - 1 ELSE Refilled(b),
                                    !.last = now]]
           /\ granted' = IF ok THEN granted + 1 ELSE granted
    /\ held' = [held EXCEPT ![c] = None]
    /\ Goto(c, "out")
    /\ UNCHANGED <<bucket, quota, now>>

PlanChange ==
    /\ quota' \in Quotas \ {quota}
    /\ UNCHANGED <<bucket, made, at, held, now, granted>>

PoolTick ==
    /\ Advance
    /\ UNCHANGED <<bucket, made, at, held, quota, granted>>

PoolNext ==
    \/ \E c \in Conn : Look(c) \/ ReadQuota(c) \/ Install(c) \/ Take(c)
    \/ PlanChange \/ PoolTick

PoolSpec == PoolInit /\ [][PoolNext]_poolVars

\* However its connections race, a tenant gets no more than the burst and the
\* rate of one plan, the one its bucket was created with.
OneBudget ==
    IF bucket = None THEN granted = 0
    ELSE granted <= made[bucket].burst + now * made[bucket].rate

=============================================================================
