------------------------------ MODULE MCAlerts ------------------------------
(***************************************************************************)
(* Alerts to two chats.                                                    *)
(***************************************************************************)
EXTENDS Alerts

CONSTANTS c1, c2

MCChats == <<c1, c2>>
=============================================================================
