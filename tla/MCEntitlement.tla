--------------------------- MODULE MCEntitlement ---------------------------
EXTENDS EntitlementProps

\* The daily sweep beside each of the other writers.
MCDeployments == {{"sweep", w} : w \in Writers \ {"sweep"}}

MCSchedulerDeployed == {{"sweep", "scheduler"}}
MCWebhookDeployed   == {{"sweep", "webhook"}}
=============================================================================
