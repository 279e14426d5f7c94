------------------------------- MODULE MCServer -------------------------------
(***************************************************************************)
(* A file and an archive.  What decides over the status is combined with   *)
(* ping alone, and the calls that take a while come in a few kinds.        *)
(***************************************************************************)
EXTENDS Server

CONSTANTS c1, c2, file, archive

MCSpecs == <<file, archive>>
MCArchived == <<TRUE, FALSE>>

Ask(body) ==
  [flaws |-> {}, body |-> body, version |-> "none", header |-> "none", named |-> TRUE, source |-> "all"]
MCAsked ==
  {Ask(body) : body \in {"junk", "binary", "array", "no_method", "blank", "response",
                         "error_response", "notification", "ping", "method", "tool", "search", "watch_once"}}
  \cup {[Ask("ping") EXCEPT !.flaws = f] :
          f \in {{"unreadable", "token"}, {"origin", "path"}, {"verb"}}}
  \cup {[Ask("method") EXCEPT !.version = "modern", !.header = h, !.named = n] :
          h \in {"none", "modern"}, n \in BOOLEAN}
  \cup {[Ask("method") EXCEPT !.version = v, !.header = v] : v \in {"legacy", "other"}}
  \cup {[Ask("watch_once") EXCEPT !.source = s] : s \in {file, "unknown"}}
MCRequests == [c \in Conns |-> IF c = c1 THEN MCAsked ELSE {Ask("search")}]
=============================================================================
