------------------------------- MODULE MCBot -------------------------------
(* A user who is allowed, one who is not in a chat that is, a stranger. *)
EXTENDS Bot

CONSTANTS user, guest, group, elsewhere

MCIncoming ==
  {[user |-> user, chat |-> elsewhere, text |-> "command"],
   [user |-> Nobody, chat |-> group, text |-> "bad"],
   [user |-> guest, chat |-> elsewhere, text |-> "command"]}
=============================================================================
