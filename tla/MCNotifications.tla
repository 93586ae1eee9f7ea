--------------------------- MODULE MCNotifications ---------------------------
(* A small instance of NotificationWorker.                                  *)
EXTENDS NotificationWorker

CONSTANTS e1, e2
=============================================================================
