--------------------------- MODULE NoticeDelivery ---------------------------
(***************************************************************************)
(* What the parent-notification queue promises, with no word of workers,   *)
(* batches or locks: a notice that was written is told to every parent it  *)
(* is owed to, at least once, before it is closed, and is not left open.   *)
(* Notices implements it (services/notificationWorker.ts).                 *)
(***************************************************************************)
CONSTANTS
    Notice,     \* queued rows of audit_logs
    Parent,
    Owed,       \* Owed[n]: the parents to be told of n
    Healthy     \* the notices whose recipients can be looked up

VARIABLES notice, told

dvars == <<notice, told>>

DeliveryInit ==
    /\ notice = [n \in Notice |-> "unwritten"]
    /\ told = {}

Write(n) ==
    /\ notice[n] = "unwritten"
    /\ notice' = [notice EXCEPT ![n] = "open"]
    /\ UNCHANGED told

\* A parent is told; being told again changes nothing.
Tell(n, p) ==
    /\ notice[n] # "unwritten"
    /\ p \in Owed[n] /\ <<n, p>> \notin told
    /\ told' = told \cup {<<n, p>>}
    /\ UNCHANGED notice

Close(n) ==
    /\ notice[n] = "open"
    /\ \A p \in Owed[n] : <<n, p>> \in told
    /\ notice' = [notice EXCEPT ![n] = "closed"]
    /\ UNCHANGED told

\* The school is deleted with everything of its own.
Drop(n) ==
    /\ notice[n] = "open"
    /\ notice' = [notice EXCEPT ![n] = "dropped"]
    /\ UNCHANGED told

DeliveryNext ==
    \E n \in Notice : Write(n) \/ Close(n) \/ Drop(n) \/ (\E p \in Parent : Tell(n, p))

SafeDelivery == DeliveryInit /\ [][DeliveryNext]_dvars

DeliverySpec ==
    /\ SafeDelivery
    /\ \A n \in Healthy : WF_dvars(Close(n)) /\ (\A p \in Parent : WF_dvars(notice[n] = "open" /\ Tell(n, p)))
=============================================================================
