---------------------------- MODULE AccessControl ----------------------------
(***************************************************************************)
(* pkg/security: the policy by which an agent admits requests and a relay  *)
(* registrations, built rule by rule, and the loops that evaluate it.      *)
(* Names and patterns are sequences of letters, of which "*" is one.       *)
(***************************************************************************)
EXTENDS Naturals, SequencesExt

CONSTANTS
    Name,          \* DIDs and methods that are asked for
    Pattern,       \* patterns in rules
    MaxRules

VARIABLE policy    \* ACLPolicy

aclVars == <<policy>>

HasSuffix(s, letter) == s # <<>> /\ Last(s) = letter

\* strings.HasPrefix after strings.TrimSuffix.
BeginsWith(name, pattern) == IsPrefix(Front(pattern), name)

matchesPrincipal(pattern, principal) ==
    IF pattern = <<"*">> THEN TRUE
    ELSE IF HasSuffix(pattern, "*") THEN BeginsWith(principal, pattern)
    ELSE pattern = principal

\* Mutant: the star is not taken off.
MatchWithStar(patterns, action) ==
    \E i \in DOMAIN patterns :
        \/ patterns[i] = <<"*">>
        \/ HasSuffix(patterns[i], "*") /\ IsPrefix(patterns[i], action)
        \/ patterns[i] = action

matchesAction(patterns, action) ==
    \E i \in DOMAIN patterns :
        \/ patterns[i] = <<"*">>
        \/ HasSuffix(patterns[i], "*") /\ BeginsWith(action, patterns[i])
        \/ patterns[i] = action

\* The namespace of a gateway.
didMatchesNamespace(did, namespace) ==
    IF HasSuffix(namespace, "*") THEN BeginsWith(did, namespace) ELSE did = namespace

\* One turn of the loop over the rules: it goes on until a rule returns.
Evaluate(verdict, rule, principal, action) ==
    IF /\ verdict = "none" /\ rule.effect \in {"allow", "deny"}
       /\ matchesPrincipal(rule.principal, principal) /\ matchesAction(rule.actions, action)
    THEN rule.effect ELSE verdict

\* Mutant: the last rule that matches decides.
CheckLast(acl, principal, action) ==
    LET verdict == FoldRight(LAMBDA r, v : Evaluate(v, r, principal, action), acl.rules, "none")
    IN  verdict = "allow" \/ (verdict = "none" /\ acl.defaultAllow)

CheckAccess(acl, principal, action) ==
    LET verdict == FoldLeft(LAMBDA v, r : Evaluate(v, r, principal, action), "none", acl.rules)
    IN  verdict = "allow" \/ (verdict = "none" /\ acl.defaultAllow)

-----------------------------------------------------------------------------
(* PolicyBuilder; Build hands out the policy it works on. *)

NewPolicyBuilder == policy = [defaultAllow |-> FALSE, rules |-> <<>>]

SetDefaultAllow(allow) == policy' = [policy EXCEPT !.defaultAllow = allow]

AddRule(principal, actions, effect) ==
    /\ Len(policy.rules) < MaxRules
    /\ policy' = [policy EXCEPT !.rules =
                    Append(@, [principal |-> principal, actions |-> actions, effect |-> effect])]

AllowRule(principal, actions) == AddRule(principal, actions, "allow")

DenyRule(principal, actions) == AddRule(principal, actions, "deny")

\* A policy may also be written by hand; CheckAccess does not know every effect.
OtherRule(principal, actions) == AddRule(principal, actions, "other")

AclNext ==
    \/ SetDefaultAllow(TRUE)
    \/ \E principal, first, second \in Pattern, n \in 0 .. 2 :
          LET actions == SubSeq(<<first, second>>, 1, n)
          IN  \/ AllowRule(principal, actions)
              \/ DenyRule(principal, actions)
              \/ OtherRule(principal, actions)

-----------------------------------------------------------------------------
\* What a pattern stands for: itself, and with a star at its end every continuation.
Denotes(pattern, name) ==
    \/ pattern = name
    \/ \E k \in 0 .. Len(name) : pattern = SubSeq(name, 1, k) \o <<"*">>

Decides(rule, principal, action) ==
    /\ rule.effect # "other" /\ Denotes(rule.principal, principal)
    /\ \E i \in DOMAIN rule.actions : Denotes(rule.actions[i], action)

\* Whatever the rules and their order, a request is decided by the first rule that
\* speaks of it and by the default only if none does, so that rules added later never
\* overrule one that stands; and principals, actions and namespaces of gateways,
\* which three functions match, have one meaning.
RulesInOrder ==
    /\ \A principal, action \in Name :
          LET speak == {i \in DOMAIN policy.rules : Decides(policy.rules[i], principal, action)}
          IN  CheckAccess(policy, principal, action) <=>
                IF speak = {} THEN policy.defaultAllow
                ELSE policy.rules[Min(speak)].effect = "allow"
    /\ \A name \in Name, pattern \in Pattern :
          /\ didMatchesNamespace(name, pattern) <=> Denotes(pattern, name)
          /\ matchesPrincipal(pattern, name) <=> matchesAction(<<pattern>>, name)
=============================================================================
