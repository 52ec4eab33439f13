--------------------------- MODULE BillingRecords ---------------------------
(***************************************************************************)
(* What the billing database keeps: the audit log, and the schema under    *)
(* it.                                                                     *)
(***************************************************************************)
EXTENDS AuditChain, Migrations

\* What the billing database holds can be relied on: the audit log (ChainTrusted),
\* and the schema under it (SchemaWhole).
RecordsSound == ChainTrusted /\ SchemaWhole
=============================================================================
