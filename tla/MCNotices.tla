----------------------------- MODULE MCNotices -----------------------------
\* Notices on a small instance: two replicas, a reminder run, two queued rows, two parents.
EXTENDS Notices

MCAudience == [a \in About |-> IF a = 2 THEN {1, 2} ELSE {1}]
MCChannel == [a \in About |-> {"app", "mail", "sms"}]
=============================================================================
