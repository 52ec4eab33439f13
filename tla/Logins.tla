------------------------------- MODULE Logins -------------------------------
(***************************************************************************)
(* Requests with a token of an outside identity provider: OAuth2Validator  *)
(* (adapters/a2a/auth.go), which caches the provider's keys, and           *)
(* OAuth2Middleware (pkg/billing), which looks up the tenant of the        *)
(* token's subject and creates it at the first login.  All logins here are *)
(* of one subject.                                                         *)
(*                                                                         *)
(* A login is cut where it takes or releases jwksMu, where the provider    *)
(* answers, and at the statements of the store.  The keys are fetched      *)
(* under the write lock, so nobody reads the cache meanwhile.              *)
(*                                                                         *)
(* The keys of agents (PeerKeys) share nothing with these; LoginsSound is  *)
(* about both.                                                             *)
(***************************************************************************)
EXTENDS Integers, PeerKeys

CONSTANTS
    Login,         \* requests, each made once
    Token,         \* tokens: [key: it is signed with, kid: the key it names or NoKid, exp]
    KeyList,       \* the lists of keys the provider publishes, one after the other
    NoKid, NoLogin,
    jwksTTL,       \* how long fetched keys are used
    FetchTimeout,  \* how long a fetch may take
    MaxMoment      \* bound on time

ASSUME LoginAssumption ==
    /\ jwksTTL \in Nat \ {0} /\ FetchTimeout \in Nat /\ MaxMoment \in Nat
    /\ Len(KeyList) \in Nat \ {0} /\ DOMAIN KeyList = 1 .. Len(KeyList)
    /\ NoLogin \notin Login

VARIABLES
    moment,
    release,       \* which of the lists the provider publishes
    since,         \* when each of them came out
    jwks, jwksExp, \* the cache; jwks = <<>> before the first fetch
    fetching,      \* the login that holds jwksMu, or NoLogin
    answer,        \* what the provider has answered it, <<>> if nothing yet
    begun,         \* when it asked
    fetchedAt,     \* moments of successful fetches, in order
    login,         \* Login -> [at, token, tenant, when: it had its verdict]
    tenants,       \* tenants created for the subject; one is named by its login
    blocked,       \* of those, the suspended ones
    identity,      \* the tenant the subject is linked to, or NoLogin
    provisions,    \* autoProvisionPlan is set
    raced          \* a first login was under way when another one looked up the subject,
                   \* or one failed between its statements

keyVars == <<jwks, jwksExp, fetching, answer, begun, fetchedAt>>
providerVars == <<moment, release, since>>
tenantSide == <<tenants, blocked, identity, provisions, raced>>
loginVars == <<providerVars, keyVars, login, tenantSide>>

KeysOf(r) == {KeyList[r][i] : i \in DOMAIN KeyList[r]}

AnyToken == CHOOSE t \in Token : TRUE

LoginInit ==
    /\ moment = 0 /\ release = 1
    /\ since = [r \in DOMAIN KeyList |-> 0]
    /\ jwks = <<>> /\ jwksExp = 0
    /\ fetching = NoLogin /\ answer = <<>> /\ begun = 0 /\ fetchedAt = <<>>
    /\ login = [l \in Login |-> [at |-> "new", token |-> AnyToken, tenant |-> NoLogin, when |-> 0]]
    /\ tenants = {} /\ blocked = {} /\ identity = NoLogin /\ raced = FALSE
    /\ provisions \in BOOLEAN

Goes(l, a) == login' = [login EXCEPT ![l].at = a]

(***************************************************************************)
(* ValidateToken                                                           *)
(***************************************************************************)

\* The expiry, which is not looked at again, and whether format, issuer, audience and
\* scopes are as they should be.
ValidateToken(l) ==
    /\ login[l].at = "new"
    /\ \E t \in Token, meets \in BOOLEAN :
          login' = [login EXCEPT ![l].at = IF meets /\ moment <= t.exp THEN "read" ELSE "refused",
                                 ![l].token = t]
    /\ UNCHANGED <<providerVars, keyVars, tenantSide>>

\* verifySignature with the first key that has the ID, or the first of all.
verifySignature(t, keys) ==
    LET match == {i \in DOMAIN keys : t.kid \in {keys[i], NoKid}}
    IN  CASE match = {} -> "unknown"
          [] \E i \in match : keys[i] = t.key /\ \A j \in match : i <= j -> "valid"
          [] OTHER -> "refused"

LoginVerdict(l, keys) ==
    login' = [login EXCEPT ![l].at = verifySignature(login[l].token, keys), ![l].when = moment]

\* Mutant of CacheFresh: a cache that has just expired is still used.
CacheFreshUntil == jwks # <<>> /\ moment <= jwksExp

CacheFresh == jwks # <<>> /\ moment < jwksExp

\* getJWKS under the read lock.
ReadCache(l) ==
    /\ login[l].at = "read" /\ fetching = NoLogin
    /\ \/ CacheFresh /\ LoginVerdict(l, jwks)
       \/ ~CacheFresh /\ Goes(l, "lock")
    /\ UNCHANGED <<providerVars, keyVars, tenantSide>>

\* Mutant of LockCache: whoever has waited for the lock fetches.
LockCacheAlways(l) ==
    /\ login[l].at = "lock" /\ fetching = NoLogin
    /\ Goes(l, "fetch") /\ fetching' = l /\ answer' = <<>> /\ begun' = moment
    /\ UNCHANGED <<providerVars, jwks, jwksExp, fetchedAt, tenantSide>>

\* getJWKS under the write lock, which looks again before it fetches.
LockCache(l) ==
    /\ login[l].at = "lock" /\ fetching = NoLogin
    /\ \/ CacheFresh /\ LoginVerdict(l, jwks) /\ UNCHANGED <<fetching, answer, begun>>
       \/ ~CacheFresh /\ Goes(l, "fetch") /\ fetching' = l /\ answer' = <<>> /\ begun' = moment
    /\ UNCHANGED <<providerVars, jwks, jwksExp, fetchedAt, tenantSide>>

\* The provider answers with what it publishes at that moment.
Answer ==
    /\ fetching # NoLogin /\ answer = <<>>
    /\ answer' = KeyList[release]
    /\ UNCHANGED <<providerVars, jwks, jwksExp, fetching, begun, fetchedAt, login, tenantSide>>

\* The answer arrives: the keys are kept for the TTL, counted from now.
FetchJWKS(l) ==
    /\ fetching = l /\ answer # <<>>
    /\ jwks' = answer /\ jwksExp' = moment + jwksTTL
    /\ fetchedAt' = Append(fetchedAt, moment)
    /\ LoginVerdict(l, answer)
    /\ fetching' = NoLogin /\ answer' = <<>> /\ begun' = 0
    /\ UNCHANGED <<providerVars, tenantSide>>

\* The fetch fails or times out: the old keys stay, expired.
FetchFails(l) ==
    /\ fetching = l
    /\ Goes(l, "refused") /\ fetching' = NoLogin /\ answer' = <<>> /\ begun' = 0
    /\ UNCHANGED <<providerVars, jwks, jwksExp, fetchedAt, tenantSide>>

(***************************************************************************)
(* OAuth2Middleware                                                        *)
(***************************************************************************)

FirstLogins == {l \in Login : login[l].at \in {"create", "link"}}

\* Mutant of GetOAuthIdentityTenant: the link of a suspended tenant is not found.
GetActiveIdentity == identity \notin blocked \cup {NoLogin}

GetOAuthIdentityTenant == identity # NoLogin

\* The tenant of the subject, or the start of its first login; the statement may fail.
Resolve(l) ==
    /\ login[l].at = "valid"
    /\ \/ /\ GetOAuthIdentityTenant /\ UNCHANGED raced
          /\ login' = [login EXCEPT ![l].at = "found", ![l].tenant = identity]
       \/ /\ ~GetOAuthIdentityTenant /\ provisions /\ Goes(l, "create")
          /\ raced' = (raced \/ (identity = NoLogin /\ FirstLogins # {}))
       \/ Goes(l, "refused") /\ UNCHANGED raced
    /\ UNCHANGED <<providerVars, keyVars, tenants, blocked, identity, provisions>>

\* NewTenant and PutTenant.
PutNewTenant(l) ==
    /\ login[l].at = "create"
    /\ \/ tenants' = tenants \cup {l} /\ Goes(l, "link")
       \/ UNCHANGED tenants /\ Goes(l, "refused")
    /\ UNCHANGED <<providerVars, keyVars, blocked, identity, provisions, raced>>

\* PutOAuthIdentity, which replaces the tenant of an identity that is there.
PutOAuthIdentity(l) ==
    /\ login[l].at = "link"
    /\ \/ /\ identity' = l /\ UNCHANGED raced
          /\ login' = [login EXCEPT ![l].at = "found", ![l].tenant = l]
       \/ Goes(l, "refused") /\ raced' = TRUE /\ UNCHANGED identity
    /\ UNCHANGED <<providerVars, keyVars, tenants, blocked, provisions>>

\* GetTenant, which may fail, and IsActive, then the request itself.
GetTenant(l) ==
    /\ login[l].at = "found"
    /\ \/ login[l].tenant \notin blocked /\ Goes(l, "served")
       \/ Goes(l, "refused")
    /\ UNCHANGED <<providerVars, keyVars, tenantSide>>

(***************************************************************************)
(* Around them                                                             *)
(***************************************************************************)

\* An administrator suspends the tenant the subject is linked to.
SuspendLinked ==
    /\ identity \notin blocked \cup {NoLogin}
    /\ blocked' = blocked \cup {identity}
    /\ UNCHANGED <<providerVars, keyVars, login, tenants, identity, provisions, raced>>

\* The provider publishes its next list.
RotateKeys ==
    /\ release < Len(KeyList) /\ release' = release + 1
    /\ since' = [since EXCEPT ![release'] = moment]
    /\ UNCHANGED <<moment, keyVars, login, tenantSide>>

\* Time passes; a fetch does not outlast its timeout.
MomentPasses ==
    /\ moment < MaxMoment /\ moment' = moment + 1
    /\ fetching # NoLogin => moment < begun + FetchTimeout
    /\ UNCHANGED <<release, since, keyVars, login, tenantSide>>

LoginNext ==
    \/ \E l \in Login :
          \/ ValidateToken(l) \/ ReadCache(l) \/ LockCache(l) \/ FetchJWKS(l) \/ FetchFails(l)
          \/ Resolve(l) \/ PutNewTenant(l) \/ PutOAuthIdentity(l) \/ GetTenant(l)
    \/ Answer \/ SuspendLinked \/ RotateKeys \/ MomentPasses

LoginSpec == LoginInit /\ [][LoginNext]_loginVars

(***************************************************************************)
(* Properties                                                              *)
(***************************************************************************)

LoginTypeOK ==
    /\ moment \in 0 .. MaxMoment /\ release \in DOMAIN KeyList
    /\ fetching \in Login \cup {NoLogin} /\ identity \in Login \cup {NoLogin}
    /\ \A l \in Login : login[l].at \in {"new", "read", "lock", "fetch", "valid", "unknown",
                                         "refused", "create", "link", "found", "served"}
    /\ tenants \subseteq Login /\ blocked \subseteq tenants
    /\ {provisions, raced} \subseteq BOOLEAN

\* The lists that were out at some time of the last TTL and one fetch before m.
Recent(m) ==
    {r \in 1 .. release :
        since[r] <= m /\ (r < release => since[r + 1] + jwksTTL + FetchTimeout > m)}

\* A signature is accepted only with a key the provider has published within the
\* TTL and one fetch, and a key it has published all that time is never unknown;
\* however many logins find the keys expired, they are fetched once per TTL.
KeysCurrent ==
    /\ \A l \in Login :
          /\ login[l].at = "valid" => \E r \in Recent(login[l].when) : login[l].token.key \in KeysOf(r)
          /\ login[l].at = "unknown" => \E r \in Recent(login[l].when) : login[l].token.kid \notin KeysOf(r)
    /\ \A i \in 1 .. Len(fetchedAt) - 1 : fetchedAt[i + 1] >= fetchedAt[i] + jwksTTL

\* A subject has one tenant: its first login creates and links it and every later
\* one is served as it, unless first logins have raced or one has failed halfway;
\* the tenant of a link always exists.
OneTenantEach ==
    /\ ~raced =>
          /\ tenants \subseteq {identity} \cup FirstLogins
          /\ \A l \in Login : login[l].at = "served" => login[l].tenant = identity
    /\ identity # NoLogin => identity \in tenants
    /\ ~provisions => tenants = {}

\* A request or a message is taken to be from whom it is: by the keys outside tokens are
\* checked with (KeysCurrent) and the tenant their subject has (OneTenantEach), and by the
\* keys agents know each other by (KeysFollow, PinnedOnce).
LoginsSound == KeysCurrent /\ OneTenantEach /\ KeysFollow /\ PinnedOnce
=============================================================================
