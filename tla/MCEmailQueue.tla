---------------------------- MODULE MCEmailQueue ----------------------------
\* EmailQueue on a small instance: the retry jobs of two replicas and two emails.
EXTENDS EmailQueue
=============================================================================
