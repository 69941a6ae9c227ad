------------------------ MODULE MCNotificationOutbox ------------------------
(* Instances of NotificationOutbox for TLC.  Workers, and requests, are alike. *)
EXTENDS NotificationOutbox, TLC

CONSTANTS e1, e2, t1, t2, r1, r2, w1, w2

Symmetric == Permutations(Workers) \cup Permutations(Requests) \cup Permutations(Events)
=============================================================================
