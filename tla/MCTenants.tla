------------------------------ MODULE MCTenants ------------------------------
(***************************************************************************)
(* What admits the requests of a tenant and what keeps its account, for    *)
(* TLC: the limiters and the circuit breaker, the usage meter, the audit   *)
(* log, the account's record, signup, the verification of addresses and    *)
(* the authorization server, logins with outside tokens, the keys by which *)
(* agents know each other, access rules, and the migration of databases.   *)
(* They share nothing but the clock, so a behaviour exercises one of them, *)
(* `part', while the others rest in their initial states.                  *)
(***************************************************************************)
EXTENDS CircuitBreaker, TokenBucket, Limiters, BillingRecords,
        QuotaNotices, TenantAccounts, Signups, OAuthGrants, Logins,
        PeerKeys, AccessControl, TLC

CONSTANTS s1, s2

VARIABLE part

\* A slow plan with a burst and a fast one without.
TwoPlans == {[rate |-> 1, burst |-> 2], [rate |-> 2, burst |-> 1]}

FallBack == [rate |-> 1, burst |-> 1]

\* A free and a paid signup with the same address.
SomeEmails == s1 :> "ann@x" @@ s2 :> "ann@x"

\* A token that names no key and expires, and one of the next key.
SomeTokens == {[key |-> "k1", kid |-> NoKid, exp |-> 1], [key |-> "k2", kid |-> "k2", exp |-> 9]}
SomeKeyLists == << <<"k1">>, <<"k2">> >>

\* Agents that keep their identities; and that do not, with a relay that pins keys, that
\* has its agents in SQLite, that has them in memory.
Configured(k, p, m, d) == [keeps |-> k, pins |-> p, inMemory |-> m, discovers |-> d]
SomeSetups ==
    {Configured({"sender", "receiver"}, FALSE, TRUE, {"sender"}), Configured({}, TRUE, TRUE, {}),
     Configured({"receiver"}, FALSE, FALSE, {"sender"}), Configured({}, FALSE, TRUE, {})}

SomeNames == {<<"a">>, <<"a", "b">>, <<"b", "a">>}
SomePatterns == {<<"*">>, <<"a", "*">>, <<"a", "b">>}

ownBucketVars == <<tokens, lastUpdate, from, admitted, fullAt, spent>>
ownPoolVars == <<bucket, made, at, held, quota, granted>>
ownWindowVars == <<window, count, reset, asked, slid, fixed>>
limitVars == <<breakerVars, ownBucketVars, ownPoolVars, ownWindowVars, ownAuthVars, now>>
accountingVars == <<chainVars, meterVars, accountVars, signupVars, mailVars, grantVars>>
entryVars == <<noticeVars, loginVars, peerKeyVars, aclVars, migrationVars>>

vars == <<limitVars, accountingVars, entryVars, part>>

Init ==
    /\ BreakerInit /\ BucketInit /\ PoolInit /\ WindowInit /\ AuthInit
    /\ ChainInit /\ MeterInit /\ AccountInit /\ SignupInit /\ MailInit /\ GrantInit
    /\ NoticeInit /\ LoginInit /\ PeerKeyInit /\ NewPolicyBuilder /\ MigrationInit
    /\ part \in {"breaker", "bucket", "pool", "window", "auth", "chain", "meter", "account",
                "signup", "mail", "grants", "notices", "logins", "keys",
                "access", "migrations"}
    /\ part # "pool" => quota = [rate |-> 1, burst |-> 2]
    /\ part # "account" => tenant = NewTenant
    /\ part # "logins" => provisions
    /\ part # "keys" => setup.pins
    /\ part # "migrations" => database = "billing"

LimitNext ==
    \/ /\ part = "breaker" /\ BreakerNext
       /\ UNCHANGED <<ownBucketVars, ownPoolVars, ownWindowVars, ownAuthVars, now>>
    \/ /\ part = "bucket" /\ BucketNext
       /\ UNCHANGED <<breakerVars, ownPoolVars, ownWindowVars, ownAuthVars>>
    \/ /\ part = "pool" /\ PoolNext
       /\ UNCHANGED <<breakerVars, ownBucketVars, ownWindowVars, ownAuthVars>>
    \/ /\ part = "window" /\ WindowNext
       /\ UNCHANGED <<breakerVars, ownBucketVars, ownPoolVars, ownAuthVars>>
    \/ /\ part = "auth" /\ AuthNext
       /\ UNCHANGED <<breakerVars, ownBucketVars, ownPoolVars, ownWindowVars>>

AccountingNext ==
    \/ /\ part = "chain" /\ ChainNext
       /\ UNCHANGED <<meterVars, accountVars, signupVars, mailVars, grantVars>>
    \/ /\ part = "meter" /\ MeterNext
       /\ UNCHANGED <<chainVars, accountVars, signupVars, mailVars, grantVars>>
    \/ /\ part = "account" /\ AccountNext
       /\ UNCHANGED <<chainVars, meterVars, signupVars, mailVars, grantVars>>
    \/ /\ part = "signup" /\ SignupNext
       /\ UNCHANGED <<chainVars, meterVars, accountVars, mailVars, grantVars>>
    \/ /\ part = "mail" /\ MailNext
       /\ UNCHANGED <<chainVars, meterVars, accountVars, signupVars, grantVars>>
    \/ /\ part = "grants" /\ GrantNext
       /\ UNCHANGED <<chainVars, meterVars, accountVars, signupVars, mailVars>>

EntryNext ==
    \/ /\ part = "notices" /\ NoticeNext
       /\ UNCHANGED <<loginVars, peerKeyVars, aclVars, migrationVars>>
    \/ /\ part = "logins" /\ LoginNext
       /\ UNCHANGED <<noticeVars, peerKeyVars, aclVars, migrationVars>>
    \/ /\ part = "keys" /\ PeerKeyNext
       /\ UNCHANGED <<noticeVars, loginVars, aclVars, migrationVars>>
    \/ /\ part = "access" /\ AclNext
       /\ UNCHANGED <<noticeVars, loginVars, peerKeyVars, migrationVars>>
    \/ /\ part = "migrations" /\ MigrationNext
       /\ UNCHANGED <<noticeVars, loginVars, peerKeyVars, aclVars>>

Next ==
    /\ UNCHANGED part
    /\ \/ LimitNext /\ UNCHANGED <<accountingVars, entryVars>>
       \/ AccountingNext /\ UNCHANGED <<limitVars, entryVars>>
       \/ EntryNext /\ UNCHANGED <<limitVars, accountingVars>>

\* Callers of the breaker keep calling, functions return, time passes; the
\* reconciler runs again and again, and Stripe and the store answer it in the end.
\* (Only the variables of a part change in its steps.)
Spec ==
    /\ Init /\ [][Next]_vars
    /\ \A c \in Caller : /\ WF_breakerVars(part = "breaker" /\ Begin(c))
                         /\ WF_breakerVars(part = "breaker" /\ Finish(c))
    /\ WF_breakerVars(part = "breaker" /\ BreakerTick)
    /\ WF_accountVars(part = "account" /\ ListTenants)
    /\ SF_accountVars(part = "account" /\ GetSubscription)
    /\ SF_accountVars(part = "account" /\ Reconcile)

\* Every part keeps its values within their types.
TypesOK ==
    /\ part = "breaker" => BreakerTypeOK
    /\ part = "bucket" => BucketTypeOK
    /\ part = "auth" => AuthTypeOK
    /\ part = "chain" => ChainTypeOK
    /\ part = "meter" => MeterTypeOK
    /\ part = "account" => AccountTypeOK
    /\ part = "signup" => SignupTypeOK
    /\ part = "mail" => MailTypeOK
    /\ part = "grants" => GrantTypeOK
    /\ part = "notices" => NoticeTypeOK
    /\ part = "logins" => LoginTypeOK
    /\ part = "keys" => PeerKeyTypeOK
    /\ part = "migrations" => MigrationTypeOK

\* Whatever rules a policy has been given, CheckAccess decides by the first that speaks
\* of the request (RulesInOrder).
AccessInOrder == part = "access" => RulesInOrder

\* What a failure has put wrong is put right: the breaker closes for good once nothing
\* fails any more (Recovers), and the billing status of a tenant agrees with Stripe in
\* the end, whatever events were lost (Reconciled).
Restored == Recovers /\ Reconciled
=============================================================================
