----------------------------- MODULE MCBilling -----------------------------
EXTENDS BillingProps

CONSTANT g1

\* Every order belongs to the one organisation, so that issuers of different
\* orders write the same row.
MCOrgOf == [o \in Orders |-> g1]
=============================================================================
