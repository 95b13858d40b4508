--------------------------- MODULE MCNotificationRepo ---------------------------
(* A small store for TLC: see MCNotificationRepo.cfg for the bounds. *)
EXTENDS NotificationRepo, TLC
=============================================================================
