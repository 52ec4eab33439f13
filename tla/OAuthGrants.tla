----------------------------- MODULE OAuthGrants -----------------------------
(***************************************************************************)
(* The authorization server (pkg/oauth) on its SQLite store                *)
(* (pkg/billing/oauth_store.go): a user signs in and consents, a client    *)
(* exchanges the code for tokens, refreshes and revokes them.  The store   *)
(* has one connection: a transaction holds it from Begin to Commit, and    *)
(* every other statement waits for it.  Deadlines pass at any time.        *)
(***************************************************************************)
EXTENDS Naturals, Sequences

CONSTANTS
    Client,        \* registered clients, after their registration
    Tenant,
    TokenRequest,  \* requests to the token endpoint, each used once
    MaxCodes       \* bound: codes given out

ASSUME GrantAssumption == MaxCodes \in Nat

VARIABLES
    clients,   \* oauth_clients
    signedIn,  \* the session cookie of the browser: a tenant, "" for none
    atIdP,     \* a login at the identity provider has begun
    forms,     \* consent pages with a session that is valid: [client, tenant]
    codes,     \* oauth_codes, in order of their creation
    refresh,   \* oauth_refresh_tokens, in order of their creation
    access,    \* access tokens issued: [tenant, code]
    request,   \* TokenRequest -> where it is, and what it has read
    holder,    \* who holds the connection of the store
    ended      \* codes whose live refresh token was revoked by the client

grantVars == <<clients, signedIn, atIdP, forms, codes, refresh, access, request, holder, ended>>
browser == <<signedIn, atIdP, forms>>

Waiting == [at |-> "new", row |-> 0, client |-> "", ok |-> FALSE]

GrantInit ==
    /\ clients = {} /\ signedIn = "" /\ atIdP = FALSE /\ forms = {}
    /\ codes = <<>> /\ refresh = <<>> /\ access = {}
    /\ request = [r \in TokenRequest |-> Waiting]
    /\ holder = {} /\ ended = {}

(***************************************************************************)
(* Registration, sign-in and consent                                       *)
(***************************************************************************)

DCRHandler(c) ==
    /\ holder = {} /\ clients' = clients \cup {c}
    /\ UNCHANGED <<browser, codes, refresh, access, request, holder, ended>>

\* Without a session the browser goes to the identity provider; with one it gets
\* the consent page, which carries a session of its own.
HandleAuthorize(c) ==
    /\ holder = {} /\ c \in clients
    /\ \/ signedIn = "" /\ atIdP' = TRUE /\ UNCHANGED forms
       \/ /\ signedIn # ""
          /\ forms' = forms \cup {[client |-> c, tenant |-> signedIn]} /\ UNCHANGED atIdP
    /\ UNCHANGED <<clients, signedIn, codes, refresh, access, request, holder, ended>>

\* Then the browser is sent back to HandleAuthorize, unless the login took too long.
HandleGoogleCallback(t) ==
    /\ holder = {} /\ atIdP
    /\ signedIn' = t /\ atIdP' = FALSE
    /\ UNCHANGED <<clients, forms, codes, refresh, access, request, holder, ended>>

SessionExpires ==
    /\ \/ signedIn # "" /\ signedIn' = "" /\ UNCHANGED forms
       \/ \E f \in forms : forms' = forms \ {f} /\ UNCHANGED signedIn
    /\ UNCHANGED <<clients, atIdP, codes, refresh, access, request, holder, ended>>

\* The page may be submitted again: each time there is a new code.
HandleConfirm(f) ==
    /\ holder = {} /\ Len(codes) < MaxCodes
    /\ f.client \in clients
    /\ codes' = Append(codes, [client |-> f.client, tenant |-> f.tenant,
                               used |-> FALSE, expired |-> FALSE])
    /\ UNCHANGED <<clients, browser, refresh, access, request, holder, ended>>

(***************************************************************************)
(* The token endpoint                                                      *)
(***************************************************************************)

Ended == [Waiting EXCEPT !.at = "done"]

\* Mutant of BeginTx: the transaction does not keep others off the store.
BeginTxShared(r) == UNCHANGED holder

\* A transaction takes the connection.
BeginTx(r) == holder = {} /\ holder' = {r}

\* handleAuthCode, up to the SELECT of UseCode.
ReadCode(r, i, c) ==
    /\ request[r].at = "new" /\ c \in clients /\ BeginTx(r)
    /\ request' = [request EXCEPT ![r] = [at |-> "use", row |-> i, client |-> c,
                                          ok |-> ~codes[i].used /\ ~codes[i].expired]]
    /\ UNCHANGED <<clients, browser, codes, refresh, access, ended>>

\* The rest of UseCode; the code is used up even if it is not the client's.
UseCode(r) ==
    LET i == request[r].row
    IN  /\ request[r].at = "use" /\ holder' = {}
        /\ \/ /\ request[r].ok
              /\ codes' = [codes EXCEPT ![i].used = TRUE]
              /\ request' = [request EXCEPT ![r] = IF @.client = codes[i].client
                                                   THEN [@ EXCEPT !.at = "put"] ELSE Ended]
           \/ ~request[r].ok /\ request' = [request EXCEPT ![r] = Ended] /\ UNCHANGED codes
        /\ UNCHANGED <<clients, browser, refresh, access, ended>>

\* A refresh token is stored, and an access token issued with it.
Issue(r, tokens, tenant, i) ==
    /\ refresh' = Append(tokens, [tenant |-> tenant, code |-> i, revoked |-> FALSE,
                                  expired |-> FALSE])
    /\ access' = access \cup {[tenant |-> tenant, code |-> i]}
    /\ request' = [request EXCEPT ![r] = Ended]

PutRefreshToken(r) ==
    /\ request[r].at = "put" /\ holder = {}
    /\ Issue(r, refresh, codes[request[r].row].tenant, request[r].row)
    /\ UNCHANGED <<clients, browser, codes, holder, ended>>

\* handleRefresh, up to the SELECT of RotateRefreshToken.
ReadRefreshToken(r, i) ==
    /\ request[r].at = "new" /\ BeginTx(r)
    /\ request' = [request EXCEPT ![r] = [at |-> "rotate", row |-> i, client |-> "",
                                          ok |-> ~refresh[i].revoked /\ ~refresh[i].expired]]
    /\ UNCHANGED <<clients, browser, codes, refresh, access, ended>>

\* The old token is revoked; the new one has neither tenant nor scope.
RotateRefreshToken(r) ==
    LET i == request[r].row
    IN  /\ request[r].at = "rotate" /\ holder' = {}
        /\ \/ request[r].ok /\ Issue(r, [refresh EXCEPT ![i].revoked = TRUE], "", refresh[i].code)
           \/ /\ ~request[r].ok /\ request' = [request EXCEPT ![r] = Ended]
              /\ UNCHANGED <<refresh, access>>
        /\ UNCHANGED <<clients, browser, codes, ended>>

\* A statement fails or the relay ends: an open transaction is rolled back.
RequestFails(r) ==
    /\ request[r].at \in {"use", "put", "rotate"}
    /\ request' = [request EXCEPT ![r] = Ended]
    /\ holder' = holder \ {r}
    /\ UNCHANGED <<clients, browser, codes, refresh, access, ended>>

RevokeRefreshToken(i) ==
    /\ holder = {}
    /\ refresh' = [refresh EXCEPT ![i].revoked = TRUE]
    /\ ended' = IF refresh[i].revoked THEN ended ELSE ended \cup {refresh[i].code}
    /\ UNCHANGED <<clients, browser, codes, access, request, holder>>

GrantExpires ==
    /\ \/ \E i \in DOMAIN codes : codes' = [codes EXCEPT ![i].expired = TRUE] /\ UNCHANGED refresh
       \/ \E i \in DOMAIN refresh :
             refresh' = [refresh EXCEPT ![i].expired = TRUE] /\ UNCHANGED codes
    /\ UNCHANGED <<clients, browser, access, request, holder, ended>>

GrantNext ==
    \/ \E c \in Client : DCRHandler(c) \/ HandleAuthorize(c)
    \/ \E t \in Tenant : HandleGoogleCallback(t)
    \/ SessionExpires
    \/ \E f \in forms : HandleConfirm(f)
    \/ \E r \in TokenRequest :
          \/ \E i \in DOMAIN codes, c \in Client : ReadCode(r, i, c)
          \/ \E i \in DOMAIN refresh : ReadRefreshToken(r, i)
          \/ UseCode(r) \/ PutRefreshToken(r) \/ RotateRefreshToken(r) \/ RequestFails(r)
    \/ \E i \in DOMAIN refresh : RevokeRefreshToken(i)
    \/ GrantExpires

GrantSpec == GrantInit /\ [][GrantNext]_grantVars

(***************************************************************************)
(* Properties                                                              *)
(***************************************************************************)

GrantTypeOK ==
    /\ clients \subseteq Client /\ signedIn \in Tenant \cup {""} /\ atIdP \in BOOLEAN
    /\ forms \subseteq [client : Client, tenant : Tenant]
    /\ codes \in Seq([client : Client, tenant : Tenant, used : BOOLEAN, expired : BOOLEAN])
    /\ refresh \in Seq([tenant : Tenant \cup {""}, code : 1 .. MaxCodes,
                        revoked : BOOLEAN, expired : BOOLEAN])
    /\ access \subseteq [tenant : Tenant \cup {""}, code : 1 .. MaxCodes]
    /\ request \in [TokenRequest -> [at : {"new", "use", "put", "rotate", "done"},
                                     row : Nat, client : Client \cup {""}, ok : BOOLEAN]]
    /\ holder \subseteq TokenRequest /\ ended \subseteq 1 .. MaxCodes

Live(i) == {n \in DOMAIN refresh : refresh[n].code = i /\ ~refresh[n].revoked}

\* A consent is good for one chain of refresh tokens: however its code and its
\* tokens are presented, again or at the same time (UseCode, RotateRefreshToken),
\* one token at most is live, and none once the client has revoked it.
GrantsOnce ==
    \A i \in DOMAIN codes :
        /\ \A n, m \in Live(i) : n = m
        /\ i \in ended => Live(i) = {}

\* An access token carries "sub=tenantID" to be resolved "back to a
\* billing.Tenant" (pkg/oauth/authorize.go:169): it names the tenant that has
\* consented, a refreshed one as well.
TokensNameTenant ==
    \A a \in access : a.tenant = codes[a.code].tenant
=============================================================================
