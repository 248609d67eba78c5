--------------------------- MODULE MCSubscription ---------------------------
\* Subscription on small instances: one reference, two deliveries, one administrator.
EXTENDS Subscription

Body(p, s) == [plan |-> p, status |-> s, ends |-> Keep]

\* Upgrading, going back to a trial, suspending, cancelling.
MCPatches == {Body("premium", Keep), Body("trial", Keep), Body(Keep, "suspended"), Body(Keep, "cancelled")}
=============================================================================
