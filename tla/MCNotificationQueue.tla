------------------------ MODULE MCNotificationQueue ------------------------
(* Small instances of NotificationQueue for TLC. *)
EXTENDS NotificationQueue, TLC

(* The replicas are interchangeable. *)
Symmetry == Permutations(Consumers)
=============================================================================
