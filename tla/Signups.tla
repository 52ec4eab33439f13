------------------------------ MODULE Signups -------------------------------
(***************************************************************************)
(* How the self-service accounts of the relay are made and their addresses *)
(* verified.                                                               *)
(***************************************************************************)
EXTENDS Integers, Sequences, FiniteSets

(***************************************************************************)
(* How accounts come to be (cmd/relay/signup.go) and how their API keys    *)
(* are used (BearerMiddleware in pkg/billing/middleware.go), over the      *)
(* SQLite store, cut at its statements.  Nothing makes e-mail addresses    *)
(* unique in the table.  A signup names the tenant and the key it creates. *)
(***************************************************************************)
CONSTANTS
    Signup,       \* signups, each used once
    PaidSignup,   \* those for a paid plan
    SignupEmail,  \* Signup -> e-mail address
    Access        \* requests with an API key, each used once

ASSUME SignupAssumption == PaidSignup \subseteq Signup

VARIABLES
    signups,    \* Signup -> where it is, and the accounts there were when it looked
    accounts,   \* tenants, by the signup that created them
    apiKeys,    \* Signup -> "none" | "valid" | "revoked"
    uses,       \* Access -> where it is, and its key
    hook,       \* webhooks that have read an account: [tenant, account]
    paidUp,     \* history: accounts whose checkout has completed
    crossed     \* history: signups crossed each other, or a lookup failed

signupVars == <<signups, accounts, apiKeys, uses, hook, paidUp, crossed>>

SignupInit ==
    /\ signups = [s \in Signup |-> [at |-> "new", saw |-> {}]]
    /\ accounts = <<>> /\ apiKeys = [s \in Signup |-> "none"]
    /\ uses = [a \in Access |-> [at |-> "new", key |-> {}]]
    /\ hook = {} /\ paidUp = {} /\ crossed = FALSE

(***************************************************************************)
(* signupHandler                                                           *)
(***************************************************************************)

GetTenantByEmail(e) == {s \in DOMAIN accounts : SignupEmail[s] = e}

\* A lookup that fails counts as "not found".
LookUpEmail(s) ==
    /\ signups[s].at = "new"
    /\ \/ /\ GetTenantByEmail(SignupEmail[s]) # {}
          /\ signups' = [signups EXCEPT ![s].at = "refused"] /\ UNCHANGED crossed
       \/ \E failed \in BOOLEAN :
             /\ failed \/ GetTenantByEmail(SignupEmail[s]) = {}
             /\ crossed' = (crossed \/ failed)
             /\ signups' = [signups EXCEPT ![s] =
                   [at |-> IF s \in PaidSignup THEN "checkout" ELSE "tenant",
                    saw |-> DOMAIN accounts]]
    /\ UNCHANGED <<accounts, apiKeys, uses, hook, paidUp>>

\* CreateCheckoutSession, a call of Stripe.
CreateCheckout(s) ==
    /\ signups[s].at = "checkout"
    /\ \E next \in {"tenant", "failed"} : signups' = [signups EXCEPT ![s].at = next]
    /\ UNCHANGED <<accounts, apiKeys, uses, hook, paidUp, crossed>>

\* Mutant of NewAccount: the status is left to the webhook.
NewAccountActive(s) == [billing |-> "active", status |-> "active"]

NewAccount(s) == [billing |-> IF s \in PaidSignup THEN "incomplete" ELSE "active",
                  status |-> "active"]

PutTenant(s) ==
    /\ signups[s].at = "tenant"
    /\ \/ /\ accounts' = [t \in DOMAIN accounts \cup {s} |->
                           IF t = s THEN NewAccount(s) ELSE accounts[t]]
          /\ signups' = [signups EXCEPT ![s].at = "key"]
          /\ crossed' = (crossed \/ signups[s].saw # DOMAIN accounts)
       \/ /\ signups' = [signups EXCEPT ![s].at = "failed"]
          /\ UNCHANGED <<accounts, crossed>>
    /\ UNCHANGED <<apiKeys, uses, hook, paidUp>>

\* The last step that may fail; the answer shows the key.
PutAPIKey(s) ==
    /\ signups[s].at = "key"
    /\ \/ /\ apiKeys' = [apiKeys EXCEPT ![s] = "valid"]
          /\ signups' = [signups EXCEPT ![s].at = "created"]
       \/ /\ signups' = [signups EXCEPT ![s].at = "failed"]
          /\ UNCHANGED apiKeys
    /\ UNCHANGED <<accounts, uses, hook, paidUp, crossed>>

(***************************************************************************)
(* Use of the key                                                          *)
(***************************************************************************)

\* GetAPIKeyByHash and IsValid.
ReadKey(a, s) ==
    /\ uses[a].at = "new"
    /\ uses' = [uses EXCEPT ![a] =
          [at |-> IF apiKeys[s] = "valid" THEN "tenant" ELSE "refused", key |-> {s}]]
    /\ UNCHANGED <<signups, accounts, apiKeys, hook, paidUp, crossed>>

\* What the middleware makes of the tenant of a key.
Verdict(account) ==
    CASE account.billing \in {"incomplete", "past_due"} -> "unpaid"
      [] account.billing = "active" /\ account.status = "active" -> "served"
      [] OTHER -> "suspended"

\* GetTenant and the gates behind it; the store may fail.
Gate(a) ==
    /\ uses[a].at = "tenant"
    /\ \E answer \in {"refused"} \cup {Verdict(accounts[s]) : s \in uses[a].key \cap DOMAIN accounts} :
          uses' = [uses EXCEPT ![a].at = answer]
    /\ UNCHANGED <<signups, accounts, apiKeys, hook, paidUp, crossed>>

\* billing-admin revoke-key, or the dashboard.
RevokeKey(s) ==
    /\ apiKeys[s] = "valid" /\ apiKeys' = [apiKeys EXCEPT ![s] = "revoked"]
    /\ UNCHANGED <<signups, accounts, uses, hook, paidUp, crossed>>

\* billing-admin suspend-tenant.
Suspend(s) ==
    /\ s \in DOMAIN accounts /\ accounts[s].status = "active"
    /\ accounts' = [accounts EXCEPT ![s].status = "suspended"]
    /\ UNCHANGED <<signups, apiKeys, uses, hook, paidUp, crossed>>

\* A webhook reads the account: its checkout has completed, or a payment failed.
HookReads(s) ==
    /\ hook = {} /\ s \in PaidSignup \cap DOMAIN accounts
    /\ \E from \in {"incomplete", "active"} :
          /\ accounts[s].billing = from
          /\ hook' = {[tenant |-> s, account |-> [accounts[s] EXCEPT !.billing =
                          IF from = "active" THEN "past_due" ELSE "active"]]}
    /\ paidUp' = paidUp \cup {s}
    /\ UNCHANGED <<signups, accounts, apiKeys, uses, crossed>>

\* UpdateTenant writes the copy back.
HookWrites(h) ==
    /\ accounts' = [accounts EXCEPT ![h.tenant] = h.account]
    /\ hook' = {}
    /\ UNCHANGED <<signups, apiKeys, uses, paidUp, crossed>>

SignupNext ==
    \/ \E s \in Signup :
          \/ LookUpEmail(s) \/ CreateCheckout(s) \/ PutTenant(s) \/ PutAPIKey(s)
          \/ RevokeKey(s) \/ Suspend(s) \/ HookReads(s)
          \/ \E a \in Access : ReadKey(a, s)
    \/ \E a \in Access : Gate(a)
    \/ \E h \in hook : HookWrites(h)

SignupSpec == SignupInit /\ [][SignupNext]_signupVars

SignupTypeOK ==
    /\ signups \in [Signup -> [at : {"new", "refused", "checkout", "tenant", "key", "created",
                                     "failed"}, saw : SUBSET Signup]]
    /\ DOMAIN accounts \subseteq Signup
    /\ \A s \in DOMAIN accounts : accounts[s] \in
          [billing : {"active", "incomplete", "past_due"}, status : {"active", "suspended"}]
    /\ apiKeys \in [Signup -> {"none", "valid", "revoked"}]
    /\ uses \in [Access -> [at : {"new", "tenant", "refused", "unpaid", "suspended", "served"},
                            key : SUBSET Signup]]
    /\ paidUp \subseteq Signup /\ crossed \in BOOLEAN

\* A signup that was answered with a key has an account behind it; a request with
\* the key of a paid plan is not served before its checkout completed; and an
\* address has one account, unless signups crossed each other or a lookup failed.
AccountsSound ==
    /\ \A s \in Signup : signups[s].at = "created" => s \in DOMAIN accounts /\ apiKeys[s] # "none"
    /\ \A a \in Access : uses[a].at = "served" => uses[a].key \cap PaidSignup \subseteq paidUp
    /\ ~crossed => \A s, t \in DOMAIN accounts : SignupEmail[s] = SignupEmail[t] => s = t

(***************************************************************************)
(* How the e-mail address of an account is verified: links that signup and *)
(* resend (cmd/relay/signup.go, email_resend.go) send to it, visits of     *)
(* them (verify_email.go), and the webhooks that write the account at the  *)
(* same time, over the SQLite store, cut at its statements.  One account.  *)
(***************************************************************************)
CONSTANTS
    Visit,         \* visits, each used once
    LinkLife,      \* 24 hours
    ResendWindow,  \* a minute
    MaxResends,    \* bound: links sent again
    MaxMinute      \* bound: the clock

ASSUME MailAssumption ==
    LinkLife \in Nat /\ ResendWindow \in Nat /\ MaxResends \in Nat /\ MaxMinute \in Nat

VARIABLES
    verified,   \* email_verified_at is set
    mailing,    \* goroutines that are to send a link
    links,      \* rows of email_verification_tokens: [n, until]
    linksMade,  \* number of the last link that reached the address
    visits,     \* Visit -> where it is, and its link
    copy,       \* email_verified_at of the record a webhook has read, if any
    lastResend, \* resendLimiter.last of the address, if it has an entry
    minute,     \* the clock
    resent,     \* history: when links were sent again
    reused      \* history: links that two visits read, or whose DELETE failed

mailVars == <<verified, mailing, links, linksMade, visits, copy, lastResend, minute,
              resent, reused>>

\* Signup has just answered.
MailInit ==
    /\ verified = FALSE /\ mailing = 1 /\ links = {} /\ linksMade = 0
    /\ visits = [v \in Visit |-> [at |-> "new", link |-> 0]] /\ copy = {}
    /\ lastResend = {} /\ minute = 0 /\ resent = <<>> /\ reused = {}

\* PutEmailVerificationToken, then Send.  Each may fail, and a link that does not
\* arrive is one nobody will use: its row is left out.
sendVerificationEmail ==
    /\ mailing > 0 /\ mailing' = mailing - 1
    /\ \/ /\ linksMade' = linksMade + 1
          /\ links' = links \cup {[n |-> linksMade', until |-> minute + LinkLife]}
       \/ UNCHANGED <<linksMade, links>>
    /\ UNCHANGED <<verified, visits, copy, lastResend, minute, resent, reused>>

(***************************************************************************)
(* verifyEmailHandler                                                      *)
(***************************************************************************)

\* The SELECT of ConsumeEmailVerificationToken.
OpenLink(v, n) ==
    /\ visits[v].at = "new"
    /\ LET rows == {l \in links : l.n = n}
       IN  \/ rows = {} /\ visits' = [visits EXCEPT ![v] = [at |-> "refused", link |-> n]]
           \/ \E l \in rows :
                 visits' = [visits EXCEPT ![v] =
                    [at |-> IF minute > l.until THEN "expired" ELSE "read", link |-> n]]
    /\ reused' = reused \cup {visits[w].link : w \in {u \in Visit :
                                 visits[u].link = n /\ visits[u].at = "read"}}
    /\ UNCHANGED <<verified, mailing, links, linksMade, copy, lastResend, minute, resent>>

\* The DELETE, whose error is ignored.
DeleteLink(v) ==
    /\ visits[v].at \in {"read", "expired"}
    /\ \/ links' = {l \in links : l.n # visits[v].link} /\ UNCHANGED reused
       \/ reused' = reused \cup {visits[v].link} /\ UNCHANGED links
    /\ visits' = [visits EXCEPT ![v].at = IF @ = "read" THEN "mark" ELSE "refused"]
    /\ UNCHANGED <<verified, mailing, linksMade, copy, lastResend, minute, resent>>

\* MarkTenantEmailVerified; if it fails the link is spent all the same.
MarkVerified(v) ==
    /\ visits[v].at = "mark"
    /\ \/ verified' = TRUE /\ visits' = [visits EXCEPT ![v].at = "verified"]
       \/ visits' = [visits EXCEPT ![v].at = "failed"] /\ UNCHANGED verified
    /\ UNCHANGED <<mailing, links, linksMade, copy, lastResend, minute, resent, reused>>

(***************************************************************************)
(* resendVerificationHandler                                               *)
(***************************************************************************)

\* resendLimiter.allow.
ResendAllowed == \A t \in lastResend : minute - t >= ResendWindow

\* The IP address of the sender has a limit of its own, which may refuse when the
\* e-mail address has already been entered; nor does a verified address get a link.
Resend ==
    /\ ResendAllowed /\ Len(resent) < MaxResends
    /\ lastResend' = {minute}
    /\ \/ ~verified /\ mailing' = mailing + 1 /\ resent' = Append(resent, minute)
       \/ UNCHANGED <<mailing, resent>>
    /\ UNCHANGED <<verified, links, linksMade, visits, copy, minute, reused>>

\* The resend of another address prunes the map.
Prune ==
    /\ \E t \in lastResend : minute - t > ResendWindow
    /\ lastResend' = {}
    /\ UNCHANGED <<verified, mailing, links, linksMade, visits, copy, minute, resent, reused>>

(***************************************************************************)
(* Webhooks, and the clock                                                 *)
(***************************************************************************)

HookReadsTenant ==
    /\ copy = {} /\ copy' = {verified}
    /\ UNCHANGED <<verified, mailing, links, linksMade, visits, lastResend, minute,
                   resent, reused>>

\* Mutant of HookWritesTenant: every column of the copy is written.
HookWritesWhole ==
    /\ copy # {} /\ copy' = {} /\ verified' \in copy
    /\ UNCHANGED <<mailing, links, linksMade, visits, lastResend, minute, resent, reused>>

\* UpdateTenant does not write email_verified_at.
HookWritesTenant ==
    /\ copy # {} /\ copy' = {}
    /\ UNCHANGED <<verified, mailing, links, linksMade, visits, lastResend, minute,
                   resent, reused>>

MinutePasses ==
    /\ minute < MaxMinute /\ minute' = minute + 1
    /\ UNCHANGED <<verified, mailing, links, linksMade, visits, copy, lastResend, resent,
                   reused>>

MailNext ==
    \/ sendVerificationEmail \/ Resend \/ Prune
    \/ \E v \in Visit : (\E n \in 1 .. linksMade : OpenLink(v, n)) \/ DeleteLink(v) \/ MarkVerified(v)
    \/ HookReadsTenant \/ HookWritesTenant \/ MinutePasses

MailSpec == MailInit /\ [][MailNext]_mailVars

MailTypeOK ==
    /\ verified \in BOOLEAN /\ mailing \in Nat /\ copy \subseteq BOOLEAN
    /\ linksMade \in Nat /\ \A l \in links : l.n \in 1 .. linksMade
    /\ visits \in [Visit -> [at : {"new", "read", "expired", "mark", "verified", "refused",
                                   "failed"}, link : 0 .. linksMade]]
    /\ lastResend \subseteq 0 .. MaxMinute

\* A link verifies once, unless two visits read it before one deleted it or the
\* DELETE failed; what it verified stays so, whatever webhooks write meanwhile; and
\* the address is sent links again no oftener than once in a window, whatever other
\* addresses prune.
LinksOnce ==
    /\ \A v, w \in Visit :
          /\ visits[v].at = "verified" => verified
          /\ visits[v].at = "verified" /\ visits[w].at = "verified"
                /\ visits[v].link = visits[w].link => v = w \/ visits[v].link \in reused
    /\ \A i, j \in DOMAIN resent : i < j => resent[j] - resent[i] >= ResendWindow

-----------------------------------------------------------------------------
\* The steps from the form to a verified account agree with each other: what is kept
\* of a signup (AccountsSound), and the links sent by mail (LinksOnce).
SignupsSound == AccountsSound /\ LinksOnce

=============================================================================
