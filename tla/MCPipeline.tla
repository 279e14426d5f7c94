----------------------------- MODULE MCPipeline -----------------------------
(* Lines of two times, one whose time is none, and a continuation. *)
EXTENDS Pipeline

MCLines ==
  {[ts |-> 1, bad |-> FALSE, cont |-> FALSE], [ts |-> 2, bad |-> FALSE, cont |-> FALSE],
   [ts |-> Untimed, bad |-> TRUE, cont |-> FALSE], [ts |-> Untimed, bad |-> FALSE, cont |-> TRUE]}
=============================================================================
