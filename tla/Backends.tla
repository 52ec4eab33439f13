------------------------------ MODULE Backends ------------------------------
(***************************************************************************)
(* What is kept by more than one kind of store: the agents of the relay,   *)
(* conversations, and tenants with their keys.  The three share nothing.   *)
(***************************************************************************)
EXTENDS Registry, Conversations, BillingStores

\* The indexes of a store, and the stores of different kinds, give the same answers
\* (LookupsAgree of the registry, StoresAgree of conversations, DriversAgree of
\* tenants and keys), after a crash as before it (RegistrationsSurvive).
BackendsAgree == LookupsAgree /\ StoresAgree /\ DriversAgree /\ RegistrationsSurvive
=============================================================================
