------------------------------ MODULE Bookmarks ------------------------------
(***************************************************************************)
(* The bookmark sidecar (pulse-tui/src/bookmarks_store.rs, and the parts   *)
(* of App that restore and flush): one file, shared by every program of    *)
(* the user, with the bookmarks of each log by tab.                        *)
(*                                                                         *)
(* A program indexes a log, restores the bookmarks the sidecar has for it, *)
(* and saves its own when it quits: load, change, write a temporary file,  *)
(* rename it.  Any program may be killed at any step.  Meanwhile the logs  *)
(* grow, are rotated (a new inode) or are written anew in place.           *)
(*                                                                         *)
(* The directory has two names, the sidecar and the temporary file, each   *)
(* of a file object: a rename leaves the object in the hands of whoever    *)
(* still has it open.                                                      *)
(*                                                                         *)
(* A record is <<version, n>>: of the log as it was since it was last      *)
(* replaced, the n-th.  A program that follows its log numbers on the      *)
(* records that its tail reads, whatever it missed before.  A bookmark is  *)
(* [row, of]: the code keeps the row only; the log and the record that it  *)
(* was set on are history, as are the fields version and mixed and the     *)
(* variables last and overlapped.                                          *)
(***************************************************************************)
EXTENDS Integers, FiniteSets, Sequences, Functions

CONSTANTS
  Programs,
  Logs,
  Tabs,        (* tabs 1 .. Tabs; the first shows every row                *)
  Changing,    (* the logs that grow, are rotated or are written anew      *)
  FirstRows,   (* the rows of a log at first                               *)
  MaxRow,      (* bound on the rows of a log                               *)
  MaxLive,     (* bound on the rows a program adds while it follows        *)
  Marked,      (* the rows bookmarks are set on                            *)
  MAX_SOURCES, (* logs the sidecar remembers (256)                         *)
  MaxChanges,  (* bound on how often logs are rotated or written anew      *)
  MaxTime,     (* bound on the clock                                       *)
  MaxRuns      (* bound on the runs of a program, and so on the saves      *)

ASSUME BookmarksAssumption ==
  /\ Changing \subseteq Logs /\ Marked \subseteq Nat
  /\ Tabs \in Nat \ {0} /\ FirstRows \in Nat /\ MaxRow \in Nat /\ MaxLive \in Nat /\ MAX_SOURCES \in Nat \ {0}
  /\ MaxChanges \in Nat /\ MaxTime \in Nat /\ MaxRuns \in Nat

VARIABLES
  log,     (* for each log its [inode, version, rows, half]; half: its     *)
           (* last line has no end yet                                     *)
  now,     (* the clock, in seconds                                        *)
  prog,    (* each program's [pc, log, version, rows, live, next, marks,   *)
           (* mixed]: the records it indexed, those it followed and where  *)
           (* its tail is (nowhere: <<>>); and while it saves the [book,   *)
           (* quit, at] it saves, since when and in which object           *)
  content, (* what each file object holds                                  *)
  named,   (* [sidecar, tmp]: the objects with a name, 0 for none          *)
  runs,    (* how often a program was started                              *)
  last,    (* for each log, what was saved for it last and arrived         *)
  overlapped (* whether a save began while another was under way           *)

vars == <<log, now, prog, content, named, runs, last, overlapped>>

NoBook == [l \in {} |-> {}]
Broken == [json |-> FALSE, book |-> NoBook]   (* an empty file, or a mixture *)

NoMarks == [t \in 1 .. Tabs |-> {}]

(* The rows a tab shows: all in the first, every other row, say, in a      *)
(* severity tab. *)
Shown(t, rows) == {r \in 0 .. rows - 1 : t = 1 \/ r % 2 = 0}

Idle == [pc |-> "off", log |-> "none", version |-> 0, rows |-> 0, live |-> <<>>, next |-> <<>>,
         marks |-> NoMarks, mixed |-> FALSE, book |-> NoBook, quit |-> 0, at |-> 0]

Saving == {"write", "fill", "rename"}

Init ==
  /\ log = [l \in Logs |-> [inode |-> 0, version |-> 0, rows |-> FirstRows, half |-> FALSE]]
  /\ now = 0
  /\ prog = [p \in Programs |-> Idle]
  /\ content = <<>>
  /\ named = [sidecar |-> 0, tmp |-> 0]
  /\ runs = 0
  /\ last = NoBook
  /\ overlapped = FALSE

-----------------------------------------------------------------------------
(* The world: time passes, a log grows, is rotated or written anew.        *)
Tick == now < MaxTime /\ now' = now + 1 /\ UNCHANGED <<log, prog, content, named, runs, last, overlapped>>

(* (Only to who follows a log it matters that a line has no end yet.) *)
Grow(l) ==
  /\ \/ /\ log[l].half
        /\ log' = [log EXCEPT ![l].half = FALSE]
     \/ /\ ~log[l].half /\ log[l].rows < MaxRow
        /\ \E h \in BOOLEAN :
             (h => MaxLive > 0) /\ log' = [log EXCEPT ![l].rows = @ + 1, ![l].half = h]
  /\ UNCHANGED <<now, prog, content, named, runs, last, overlapped>>

Changes == FoldFunction(+, 0, [l \in Logs |-> log[l].version])

Rotate(l) ==
  /\ Changes < MaxChanges
  /\ \E n \in 0 .. MaxRow :
       log' = [log EXCEPT ![l] = [inode |-> @.inode + 1, version |-> @.version + 1, rows |-> n,
                                  half |-> FALSE]]
  /\ UNCHANGED <<now, prog, content, named, runs, last, overlapped>>

Rewrite(l) ==
  /\ Changes < MaxChanges /\ log[l].rows > 0
  /\ log' = [log EXCEPT ![l].version = @ + 1, ![l].rows = 0, ![l].half = FALSE]
  /\ UNCHANGED <<now, prog, content, named, runs, last, overlapped>>

(* How long a log is, in halves of lines. *)
Size(l) == 2 * log[l].rows - (IF log[l].half THEN 1 ELSE 0)

-----------------------------------------------------------------------------
(* load_or_empty: a file that is missing or malformed is an empty sidecar. *)
Loaded == IF named.sidecar = 0 THEN NoBook ELSE content[named.sidecar].book

(* Faulty: a log that shrank keeps its entry. *)
RestoreByInode(book, l) ==
  IF l \notin DOMAIN book \/ book[l].inode # log[l].inode
  THEN NoMarks ELSE book[l].tabs

(* Sidecar::restore: what is known of a log, unless it was rotated or is   *)
(* shorter now. *)
Restore(book, l) ==
  IF l \notin DOMAIN book \/ book[l].inode # log[l].inode \/ book[l].size > Size(l)
  THEN NoMarks ELSE book[l].tabs

(* The rows a program shows, and the record of each. *)
Rows(p) == prog[p].rows + Len(prog[p].live)
RecordAt(p, r) == IF r < prog[p].rows THEN <<prog[p].version, r>> ELSE prog[p].live[r - prog[p].rows + 1]

(* History: whether a program that shows some version of a log, and is to  *)
(* be given what is known of the log as it is now, cannot know that they   *)
(* are not the same: its log was replaced since it was indexed; or it was  *)
(* when these bookmarks were saved, or one of them was on a row that has   *)
(* another number in the log; or the log was written anew in place and is  *)
(* as long again as it was.                                                *)
Mixed(l, version) ==
  \/ log[l].version # version
  \/ /\ l \in DOMAIN Loaded
     /\ Loaded[l].inode = log[l].inode /\ Loaded[l].size <= Size(l)
     /\ Loaded[l].mixed \/ Loaded[l].version # log[l].version

(* The same of what a program is about to save. *)
MixedUp(p) ==
  \/ prog[p].mixed \/ prog[p].version # log[prog[p].log].version
  \/ \E t \in 1 .. Tabs : \E m \in prog[p].marks[t] :
       RecordAt(p, m.row) # <<prog[p].version, m.row>>

(* The log is indexed ... *)
Index(p, l) ==
  /\ prog[p].pc = "off" /\ runs < MaxRuns
  /\ runs' = runs + 1
  /\ prog' = [prog EXCEPT ![p] = [Idle EXCEPT !.pc = "open", !.log = l,
                                     !.version = log[l].version, !.rows = log[l].rows]]
  /\ UNCHANGED <<log, now, content, named, last, overlapped>>

(* ... and App::new_with_source restores: of each tab, the bookmarks below *)
(* the number of its rows. *)
Restored(p) ==
  [t \in 1 .. Tabs |->
     {m \in Restore(Loaded, prog[p].log)[t] : m.row < Cardinality(Shown(t, prog[p].rows))}]

RestoreMarks(p) ==
  /\ prog[p].pc = "open"
  /\ prog' = [prog EXCEPT ![p].pc = "up", ![p].marks = Restored(p),
                          ![p].mixed = Mixed(prog[p].log, prog[p].version)]
  /\ UNCHANGED <<log, now, content, named, runs, last, overlapped>>

(* Under --follow a thread then opens the log at its end, which may be in  *)
(* the middle of a line, *)
Follow(p) ==
  /\ prog[p].pc = "up" /\ MaxLive > 0 /\ prog[p].next = <<>>
  /\ LET l == log[prog[p].log]
     IN  prog' = [prog EXCEPT ![p].next =
                    <<l.version, IF l.half /\ l.rows > 0 THEN l.rows - 1 ELSE l.rows>>]
  /\ UNCHANGED <<log, now, content, named, runs, last, overlapped>>

(* and each line that ends after it is a row, numbered on.  (A log that    *)
(* was replaced is read from its start.  What the tail may miss of the old *)
(* one is Tail's subject.) *)
Ingest(p) ==
  /\ prog[p].pc = "up" /\ prog[p].next # <<>> /\ Len(prog[p].live) < MaxLive
  /\ LET l  == log[prog[p].log]
         at == IF prog[p].next[1] = l.version THEN prog[p].next ELSE <<l.version, 0>>
     IN  /\ at[2] < l.rows - (IF l.half THEN 1 ELSE 0)
         /\ prog' = [prog EXCEPT ![p].live = Append(@, at), ![p].next = <<at[1], at[2] + 1>>]
  /\ UNCHANGED <<log, now, content, named, runs, last, overlapped>>

(* View::toggle_bookmark, on a row of a tab. *)
Toggle(p, t, r) ==
  /\ prog[p].pc = "up"
  /\ r \in Shown(t, Rows(p))
  /\ LET here == {m \in prog[p].marks[t] : m.row = r}
     IN  prog' = [prog EXCEPT ![p].marks[t] =
                    IF here # {} THEN @ \ here
                    ELSE @ \cup {[row |-> r, of |-> <<prog[p].log, RecordAt(p, r)>>]}]
  /\ UNCHANGED <<log, now, content, named, runs, last, overlapped>>

-----------------------------------------------------------------------------
(* evict_if_oversize: over the limit the entry saved longest ago goes; of  *)
(* those of one second, any may. *)
Evicted(book) ==
  IF Cardinality(DOMAIN book) <= MAX_SOURCES THEN {book}
  ELSE {Restrict(book, DOMAIN book \ {l}) :
          l \in {k \in DOMAIN book : \A o \in DOMAIN book : book[k].updated <= book[o].updated}}

(* upsert: a log without bookmarks leaves the sidecar. *)
Upsert(book, l, entry) ==
  IF \A t \in 1 .. Tabs : entry.tabs[t] = {} THEN {Restrict(book, DOMAIN book \ {l})}
  ELSE Evicted([k \in DOMAIN book \cup {l} |-> IF k = l THEN entry ELSE book[k]])

(* flush_bookmarks, once the loop has ended: the log is identified as it   *)
(* is now, and the sidecar loaded anew. *)
Quit(p) ==
  /\ prog[p].pc = "up"
  /\ LET l == prog[p].log
     IN  \E book \in Upsert(Loaded, l,
               [inode |-> log[l].inode, size |-> Size(l), version |-> log[l].version,
                tabs |-> prog[p].marks, updated |-> now, mixed |-> MixedUp(p)]) :
           prog' = [prog EXCEPT ![p].pc = "write", ![p].book = book, ![p].quit = now]
  /\ overlapped' = (overlapped \/ \E q \in Programs : prog[q].pc \in Saving)
  /\ UNCHANGED <<log, now, content, named, runs, last>>

(* Faulty: the sidecar is written in place. *)
OpenInPlace(p) ==
  /\ prog[p].pc = "write"
  /\ LET f == IF named.sidecar = 0 THEN Len(content) + 1 ELSE named.sidecar
     IN  /\ content' = [i \in DOMAIN content \cup {f} |-> IF i = f THEN Broken ELSE content[i]]
         /\ named' = [named EXCEPT !.sidecar = f, !.tmp = f]
         /\ prog' = [prog EXCEPT ![p].pc = "fill", ![p].at = f]
  /\ UNCHANGED <<log, now, runs, last, overlapped>>

(* save: fs::write opens the temporary file, and empties the one there is, *)
OpenTmp(p) ==
  /\ prog[p].pc = "write"
  /\ LET f == IF named.tmp = 0 THEN Len(content) + 1 ELSE named.tmp
     IN  /\ content' = [i \in DOMAIN content \cup {f} |-> IF i = f THEN Broken ELSE content[i]]
         /\ named' = [named EXCEPT !.tmp = f]
         /\ prog' = [prog EXCEPT ![p].pc = "fill", ![p].at = f]
  /\ UNCHANGED <<log, now, runs, last, overlapped>>

(* writes it, over what another program wrote since, which stays behind    *)
(* where it is longer, *)
Fill(p) ==
  /\ prog[p].pc = "fill"
  /\ \E text \in {[json |-> TRUE, book |-> prog[p].book]}
                    \cup (IF content[prog[p].at].json THEN {Broken} ELSE {}) :
       content' = [content EXCEPT ![prog[p].at] = text]
  /\ prog' = [prog EXCEPT ![p].pc = "rename"]
  /\ UNCHANGED <<log, now, named, runs, last, overlapped>>

(* and renames whatever has the temporary name by then; with nothing there *)
(* the save failed and is only logged. *)
Rename(p) ==
  /\ prog[p].pc = "rename"
  /\ IF named.tmp = 0 THEN UNCHANGED <<named, last>>
     ELSE /\ named' = [sidecar |-> named.tmp, tmp |-> 0]
          /\ last' = [l \in DOMAIN last \cup {prog[p].log} |->
                        IF l = prog[p].log THEN [tabs |-> prog[p].marks, updated |-> prog[p].quit]
                        ELSE last[l]]
  /\ prog' = [prog EXCEPT ![p] = Idle]
  /\ UNCHANGED <<log, now, content, runs, overlapped>>

(* A program is killed, or its disk is full: it has not saved. *)
Stop(p) ==
  /\ prog[p].pc # "off"
  /\ prog' = [prog EXCEPT ![p] = Idle]
  /\ UNCHANGED <<log, now, content, named, runs, last, overlapped>>

(* Nobody opens a log any more. *)
Ended ==
  /\ runs = MaxRuns /\ \A p \in Programs : prog[p].pc = "off"
  /\ UNCHANGED vars

Next ==
  \/ Tick
  \/ \E l \in Changing : Grow(l) \/ Rotate(l) \/ Rewrite(l)
  \/ \E p \in Programs :
       \/ \E l \in Logs : Index(p, l)
       \/ RestoreMarks(p) \/ Follow(p) \/ Ingest(p)
       \/ \E t \in 1 .. Tabs, r \in Marked : Toggle(p, t, r)
       \/ Quit(p) \/ OpenTmp(p) \/ Fill(p) \/ Rename(p) \/ Stop(p)
  \/ Ended

Spec == Init /\ [][Next]_vars

-----------------------------------------------------------------------------
(* While no two saves overlap, and whatever a program is killed or a disk  *)
(* filled in the middle of, the sidecar can be read, and has for every log *)
(* what was saved for it last, unless as many logs as it remembers were    *)
(* saved since. *)
SavesKept ==
  ~overlapped =>
    /\ named.sidecar # 0 => content[named.sidecar] # Broken
    /\ \A l \in DOMAIN last :
         IF last[l].tabs = NoMarks THEN l \notin DOMAIN Loaded
         ELSE IF l \in DOMAIN Loaded THEN Loaded[l].tabs = last[l].tabs
         ELSE MAX_SOURCES <=
                Cardinality({k \in DOMAIN last \ {l} : last[k].updated >= last[l].updated})

(* Whether a bookmark is on the record it was set on. *)
OnItsRecord(p, m) == m.row \in Shown(1, Rows(p)) /\ m.of = <<prog[p].log, RecordAt(p, m.row)>>

(* Also when saves overlap, a bookmark is shown on the record it was set   *)
(* on, of the log it was set in: the inode and the size tell a log that    *)
(* was rotated or cut off, and the rows of a program that follows grow     *)
(* behind those it has.  The only exceptions are those no program can      *)
(* tell: a log replaced under a program that showed it, or regrown, and a  *)
(* bookmark that was set on a row with another number than its line's.     *)
MarksTrue ==
  \A p \in Programs : prog[p].pc = "up" /\ ~prog[p].mixed =>
    \A t \in 1 .. Tabs : \A m \in prog[p].marks[t] : OnItsRecord(p, m)

(* "As long as the file only grows the saved line_ids still point at the   *)
(* same records on the next open", and else they "are stale and dropped"   *)
(* (bookmarks_store.rs).  The code keeps neither: --follow numbers on      *)
(* after lines it missed, and a program that quits gives its bookmarks the *)
(* inode that its log has by then.                                         *)
MarksStay ==
  \A p \in Programs : prog[p].pc = "up" =>
    \A t \in 1 .. Tabs : \A m \in prog[p].marks[t] : OnItsRecord(p, m)

(* The bookmarks restored are those not "past the current engine" (the     *)
(* comment in new_with_source).  The code compares record numbers with the *)
(* number of rows of a tab.                                                *)
RestoredInFull ==
  \A p \in Programs : prog[p].pc = "open" =>
    \A t \in 1 .. Tabs :
      {m \in Restore(Loaded, prog[p].log)[t] : m.row < prog[p].rows} \subseteq Restored(p)[t]
=============================================================================
