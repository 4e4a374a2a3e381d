-------------------------- MODULE MCNotifications --------------------------
(***************************************************************************)
(* Small instances of Notifications: c1 answers, c2 may do anything, c3    *)
(* has no notifier.                                                        *)
(***************************************************************************)
EXTENDS Notifications

CONSTANTS c1, c2, c3, c4
=============================================================================
