-------------------------------- MODULE Tail --------------------------------
(***************************************************************************)
(* Following a log file (mgi-pulse-core/src/io/tail.rs, TailReader) and    *)
(* cutting it into records (mgi-pulse-core/src/io/stream.rs,               *)
(* StreamProducer), against a writer that flushes part of a line at a time *)
(* and a rotator that replaces the file (rename and create) or empties it  *)
(* in place (copytruncate).                                                *)
(*                                                                         *)
(* A generation is one life of the log: a file from its creation, or from  *)
(* one truncation to the next.  The smallest thing written is a piece: its *)
(* generation, its place there, and whether a line ends with it.  Offsets  *)
(* count pieces.                                                           *)
(***************************************************************************)
EXTENDS Integers, SequencesExt

CONSTANTS
  Modes,        (* how logs are rotated: "create", "copytruncate"          *)
  BufCap,       (* capacity of the BufReader, in pieces                    *)
  MaxPieces,    (* bound on the pieces ever written                        *)
  MaxGens,      (* bound on the generations                                *)
  RegrowBeforePoll  (* whether an emptied log may grow past the reader's   *)
                    (* position before the reader looks at it again        *)

ASSUME TailAssumption ==
  /\ Modes \subseteq {"create", "copytruncate"}
  /\ BufCap \in Nat \ {0} /\ MaxPieces \in Nat /\ MaxGens \in Nat \ {0}
  /\ RegrowBeforePoll \in BOOLEAN

(* No file at the path. *)
Missing == 0

VARIABLES
  mode,      (* how this log is rotated                                    *)
  gens,      (* the pieces of every generation                             *)
  files,     (* the generation each inode holds now                        *)
  path,      (* the inode at the path, or Missing                          *)
  writer,    (* the inode the writer has open                              *)
  fd,        (* the inode the reader has open                              *)
  offset,    (* the position of that descriptor                            *)
  buf,       (* BufReader's buffer                                         *)
  inode,     (* TailReader::inode                                          *)
  read_pos,  (* TailReader::read_pos                                       *)
  scratch,   (* StreamProducer::scratch, the line being read               *)
  out,       (* the records produced                                       *)
  pc,        (* where the reader is                                        *)
  stop       (* the stop flag                                              *)

disk == <<mode, gens, files, path, writer>>
cursor == <<fd, offset, buf, inode, read_pos>>
vars == <<disk, cursor, scratch, out, pc, stop>>

Piece(g, i) == [gen |-> g, at |-> i, eol |-> gens[g][i]]
Size(ino) == Len(gens[files[ino]])
Pieces(g, from, to) == [i \in 1 .. to - from + 1 |-> Piece(g, from + i - 1)]
Written == FoldSeq(LAMBDA g, n : n + Len(g), 0, gens)

(* A reader that opens an existing log at its start or at its end. *)
Init ==
  /\ mode \in Modes
  /\ gens \in {<<c>> : c \in {<<>>, <<TRUE>>, <<FALSE>>}}
  /\ files = <<1>>
  /\ path = 1 /\ writer = 1
  /\ fd = 1 /\ inode = 1
  /\ offset \in {0, Len(gens[1])}
  /\ read_pos = offset
  /\ buf = <<>>
  /\ scratch = <<>> /\ out = <<>>
  /\ pc = "fill"
  /\ stop = FALSE

-----------------------------------------------------------------------------
(* The log was emptied and the reader has not looked since. *)
Unnoticed ==
  /\ fd = writer /\ pc # "emptied"
  /\ \/ offset > Size(fd)
     \/ \E p \in ToSet(buf) : p.gen # files[fd]

(* The writer flushes a piece, the end of a line or not. *)
Write(eol) ==
  /\ Written < MaxPieces
  /\ RegrowBeforePoll \/ ~Unnoticed \/ Size(writer) + 1 < offset
  /\ gens' = [gens EXCEPT ![files[writer]] = Append(@, eol)]
  /\ UNCHANGED <<mode, files, path, writer, cursor, scratch, out, pc, stop>>

(* logrotate's create mode: the file is moved away, *)
Rename ==
  /\ mode = "create" /\ path # Missing /\ Len(files) < MaxGens
  /\ path' = Missing
  /\ UNCHANGED <<mode, gens, files, writer, cursor, scratch, out, pc, stop>>

(* a new one is created in its place, *)
Create ==
  /\ mode = "create" /\ path = Missing
  /\ gens' = Append(gens, <<>>)
  /\ files' = Append(files, Len(gens) + 1)
  /\ path' = Len(files) + 1
  /\ UNCHANGED <<mode, writer, cursor, scratch, out, pc, stop>>

(* and the writer is told to reopen its log. *)
Reopen ==
  /\ path # Missing /\ writer # path
  /\ writer' = path
  /\ UNCHANGED <<mode, gens, files, path, cursor, scratch, out, pc, stop>>

(* copytruncate: the file is copied away and emptied where it is. *)
Truncate ==
  /\ mode = "copytruncate" /\ Len(gens) < MaxGens /\ Size(writer) > 0
  /\ gens' = Append(gens, <<>>)
  /\ files' = [files EXCEPT ![writer] = Len(gens) + 1]
  /\ UNCHANGED <<mode, path, writer, cursor, scratch, out, pc, stop>>

-----------------------------------------------------------------------------
(* What a read at the reader's offset returns. *)
Available ==
  LET g == files[fd]
      last == IF offset + BufCap < Len(gens[g]) THEN offset + BufCap ELSE Len(gens[g])
  IN  Pieces(g, offset + 1, last)

(* fill_buf(): the buffer is refilled from the file, *)
Fill ==
  /\ pc = "fill" /\ buf = <<>> /\ Available # <<>>
  /\ buf' = Available
  /\ offset' = offset + Len(Available)
  /\ UNCHANGED <<disk, fd, inode, read_pos, scratch, out, pc, stop>>

(* or it is at the end of the file and looks for a rotation. *)
AtEnd ==
  /\ pc = "fill" /\ buf = <<>> /\ Available = <<>>
  /\ pc' = "stat"
  /\ UNCHANGED <<disk, cursor, scratch, out, stop>>

(* Faulty: whatever the buffer holds makes a record. *)
ConsumeBuffer ==
  /\ pc = "fill" /\ buf # <<>>
  /\ buf' = <<>>
  /\ read_pos' = read_pos + Len(buf)
  /\ out' = Append(out, buf)
  /\ UNCHANGED <<disk, fd, offset, inode, scratch, pc, stop>>

(* read_until(): the buffer is taken up to the end of a line, or whole.    *)
(* Empty lines are no concern here: a line is at least its last piece.     *)
Consume ==
  LET ends == {i \in DOMAIN buf : buf[i].eol}
      n    == IF ends = {} THEN Len(buf) ELSE CHOOSE i \in ends : \A j \in ends : i <= j
      line == scratch \o SubSeq(buf, 1, n)
  IN  /\ pc = "fill" /\ buf # <<>>
      /\ buf' = SubSeq(buf, n + 1, Len(buf))
      /\ read_pos' = read_pos + n
      /\ IF ends = {}
         THEN scratch' = line /\ UNCHANGED out
         ELSE scratch' = <<>> /\ out' = Append(out, line)
      /\ UNCHANGED <<disk, fd, offset, inode, pc, stop>>

(* Faulty: a log emptied in place is not recognised. *)
StatInodeOnly ==
  /\ pc = "stat"
  /\ pc' = IF path # Missing /\ path # inode THEN "replaced" ELSE "stay"
  /\ UNCHANGED <<disk, cursor, scratch, out, stop>>

(* check_rotation() asks for the file at the path; what it learns may be   *)
(* out of date when it opens that file in its next step.                   *)
Stat ==
  /\ pc = "stat"
  /\ pc' = CASE path = Missing -> "stay"
             [] path # Missing /\ path # inode -> "replaced"
             [] path = inode /\ Size(path) < read_pos -> "emptied"
             [] OTHER -> "stay"
  /\ UNCHANGED <<disk, cursor, scratch, out, stop>>

(* Faulty: the reader keeps the inode of the file it has left. *)
OpenAgainForgetful ==
  /\ pc \in {"replaced", "emptied"} /\ path # Missing
  /\ fd' = path
  /\ offset' = 0 /\ read_pos' = 0 /\ buf' = <<>>
  /\ pc' = "fill"
  /\ UNCHANGED <<disk, inode, scratch, out, stop>>

(* The file at the path is opened at its start, *)
OpenAgain ==
  /\ pc \in {"replaced", "emptied"} /\ path # Missing
  /\ fd' = path
  /\ inode' = IF pc = "replaced" THEN path ELSE inode
  /\ offset' = 0 /\ read_pos' = 0 /\ buf' = <<>>
  /\ pc' = "fill"
  /\ UNCHANGED <<disk, scratch, out, stop>>

(* or has gone again: the error ends the producer for good, partial line   *)
(* or not, and though the log may be back soon.  (Other errors of the file *)
(* system end it likewise; they are left out.)                             *)
OpenFails ==
  /\ pc \in {"replaced", "emptied"} /\ path = Missing
  /\ pc' = "failed"
  /\ scratch' = <<>>
  /\ UNCHANGED <<disk, cursor, out, stop>>

(* No rotation: sleep and read again. *)
Poll ==
  /\ pc = "stay" /\ ~stop
  /\ pc' = "fill"
  /\ UNCHANGED <<disk, cursor, scratch, out, stop>>

(* The stop flag is set: one more read decides. *)
LastRead ==
  /\ pc = "stay" /\ stop
  /\ IF Available # <<>>
     THEN /\ pc' = "fill"
          /\ buf' = Available /\ offset' = offset + Len(Available)
          /\ UNCHANGED <<scratch, out>>
     ELSE /\ pc' = IF scratch = <<>> THEN "closed" ELSE "fill"
          /\ out' = IF scratch = <<>> THEN out ELSE Append(out, scratch)
          /\ scratch' = <<>>
          /\ UNCHANGED <<buf, offset>>
  /\ UNCHANGED <<disk, fd, inode, read_pos, stop>>

Stop ==
  /\ ~stop
  /\ stop' = TRUE
  /\ UNCHANGED <<disk, cursor, scratch, out, pc>>

Ended == pc \in {"closed", "failed"}
Closed == Ended /\ UNCHANGED vars

Reader ==
  Fill \/ AtEnd \/ Consume \/ Stat \/ OpenAgain \/ OpenFails \/ Poll \/ LastRead

Next ==
  \/ \E eol \in BOOLEAN : Write(eol)
  \/ Rename \/ Create \/ Reopen \/ Truncate
  \/ Reader \/ Stop \/ Closed

Spec == Init /\ [][Next]_vars

(* The reader's thread runs; nobody else owes it anything. *)
FairSpec == Spec /\ WF_vars(Reader)

-----------------------------------------------------------------------------
(* Everything read so far: the records, the line being read, the buffer.   *)
Texts == out \o <<scratch, buf>>
Seen == UNION {ToSet(Texts[k]) : k \in DOMAIN Texts}

Before(p, q) == p.gen < q.gen \/ (p.gen = q.gen /\ p.at < q.at)

(* Within a generation pieces are read one after the other, a later        *)
(* generation is read from its start, and none is gone back to: whatever   *)
(* the rotator does, and wherever it does it between the reader's own      *)
(* steps, nothing is read twice and only the end of a generation is ever   *)
(* missed (and what was there when the log was opened at its end).  The    *)
(* position that rotations are judged by is that of the descriptor, less   *)
(* what is still buffered.                                                 *)
ReadInOrder ==
  /\ read_pos + Len(buf) = offset
  /\ \A k, l \in DOMAIN Texts : \A i \in DOMAIN Texts[k], j \in DOMAIN Texts[l] :
       k < l \/ (k = l /\ i < j) => Before(Texts[k][i], Texts[l][j])
  /\ \A p \in Seen :
       \/ p.at = 1
       \/ \E q \in Seen : q.gen = p.gen /\ q.at = p.at - 1
       \/ \A q \in Seen : q = p \/ Before(p, q)

(* A record is one line: it holds no line end but its last piece, and only *)
(* a reader that is being stopped lets go of an unfinished line.  A record *)
(* with pieces of two generations is the glued line that check_rotation()  *)
(* warns of, which the old generation left unfinished.                     *)
RecordsAreLines ==
  \A i \in DOMAIN out :
    /\ out[i] # <<>>
    /\ \A j \in 1 .. Len(out[i]) - 1 : ~out[i][j].eol
    /\ Last(out[i]).eol \/ stop

Delivered(g, i) == \E p \in Seen : p.gen = g /\ p.at = i

(* Something in the log has not been read.  What was there when the reader *)
(* was opened (one piece at most) it may have passed over.                 *)
Behind ==
  /\ path # Missing /\ ~stop
  /\ LET g == files[path]
     IN  \E i \in DOMAIN gens[g] : (g > 1 \/ i > 1) /\ ~Delivered(g, i)

(* The reader catches up: as long as it is not stopped and its log is not  *)
(* replaced, whatever is written to the log is read, unless the log was    *)
(* gone when a rotation made the reader open it.  (Writes and rotations    *)
(* are bounded, so it has the time to.)  And a reader that is told to stop *)
(* does so.                                                                *)
KeepsUp ==
  /\ []<>(Behind => pc = "failed")
  /\ stop ~> Ended

(* "When the file is replaced, we reopen it and continue from the start of *)
(* the new file" (tail.rs), whenever it is replaced.  The code does not,   *)
(* if the file is gone between the look and the open.                      *)
FollowsOn == []<>~Behind
=============================================================================
