---------------------------- MODULE MCWebhookQueue ----------------------------
\* The queue under fairness; its faults are checked in MCShop.
EXTENDS WebhookQueueProperties
=============================================================================
