------------------------------ MODULE MCInspect -------------------------------
(***************************************************************************)
(* Values with everything an escape, a quotation or a delimiter may meet.  *)
(***************************************************************************)
EXTENDS Inspect

MCUsual == [ts |-> 2, level |-> "warn", value |-> <<"word", " ", "other">>]
MCLevels == {"info", "error"}
MCValues == {<<>>, <<"word", " ", "other">>, <<"word", "quote", "other">>,
             <<"word", "backslash">>, <<"quote">>, <<"word", ",", "other", ",", "other">>}
=============================================================================
