------------------------------ MODULE ActionLog ------------------------------
(***************************************************************************)
(* The action log of ProBalance (probalance/journal.rs): the service       *)
(* appends a line per action and rotates the file when it has grown past   *)
(* its limit, keeping one older generation; on its next start it pairs the *)
(* entries to find the processes that are still lowered.  The GUI reads    *)
(* both files, one after the other, while the service writes.              *)
(*                                                                         *)
(* Sizes are counted in lines.  Entries are numbered, so that a property   *)
(* can say which of them a reader has got.                                 *)
(***************************************************************************)
EXTENDS Integers, SequencesExt

CONSTANTS
  Pids,
  Priorities,
  Limit,       \* how many entries the GUI asks for
  RotateLines, \* PB_LOG_ROTATE_BYTES, in lines
  MaxEntries,  \* bound on the entries written
  Garbage,     \* what a malformed line holds
  Broken,      \* what a line cut inside a character holds: not UTF-8
  Faults

Entry == [n : 1..MaxEntries, pid : Pids, from : Priorities,
          action : {"downgrade", "restore", "exit", "game_mode_boost"}]

ASSUME LogAssumption ==
  /\ Garbage \notin Entry /\ Broken \notin Entry /\ Broken # Garbage
  /\ Limit \in Nat /\ RotateLines \in Nat /\ MaxEntries \in Nat
  /\ Faults \subseteq {"torn",    \* a write stops inside a line
                       "rename"}  \* the rotation fails

VARIABLES
  old,      \* lines of the older generation
  current,  \* lines of the current file
  written,  \* number of entries written
  lowered,  \* pid -> the downgrade entry that no later entry has closed
  reader    \* the GUI in read_log

logVars == <<old, current, written, lowered, reader>>

Line == [entry : Entry \cup {Garbage, Broken}, ended : BOOLEAN]
Reader == [at : {"idle", "between", "done"}, got : Seq(Entry), since : Nat]

-----------------------------------------------------------------------------
\* Variants named ...Mut are plausible mistakes: each breaks a property.

\* A line that parses is pushed to what has been read.
Push(all, line) == IF line.entry = Garbage THEN all ELSE Append(all, line.entry)

\* One file of read_log.  A file that is not UTF-8 cannot be read at all.
Read(all, file) ==
  IF \E i \in DOMAIN file : file[i].entry = Broken THEN all
  ELSE FoldLeft(Push, all, file)

TrimMut(entries, limit) ==
  IF Len(entries) > limit THEN SubSeq(entries, 1, limit) ELSE entries

Trim(entries, limit) ==
  IF Len(entries) > limit
  THEN SubSeq(entries, Len(entries) - limit + 1, Len(entries))
  ELSE entries

\* read_log without a limit and without a writer, as the service calls it.
Retained == Read(Read(<<>>, old), current)

Closes(e) == e.action \in {"restore", "exit"}

With(book, e) ==
  [q \in DOMAIN book \cup {e.pid} |-> IF q = e.pid THEN e ELSE book[q]]

Without(book, p) == [q \in DOMAIN book \ {p} |-> book[q]]

PairMut(book, e) ==
  CASE e.action = "downgrade" -> With(book, e)
    [] e.action = "restore"   -> Without(book, e.pid)
    [] OTHER                  -> book

\* One entry of pair_orphans.
Pair(book, e) ==
  CASE e.action = "downgrade" -> With(book, e)
    [] Closes(e)              -> Without(book, e.pid)
    [] OTHER                  -> book

PairOrphans(entries) == FoldLeft(Pair, <<>>, entries)

-----------------------------------------------------------------------------
Init ==
  /\ old = <<>> /\ current = <<>>
  /\ written = 0
  /\ lowered = <<>>
  /\ reader = [at |-> "idle", got |-> <<>>, since |-> 0]

RotateMut ==
  /\ Len(current) > RotateLines
  /\ current' = <<>>
  /\ UNCHANGED <<old, written, lowered, reader>>

\* append_log renames a file that has grown past the limit away.  Until it
\* opens the next one there is no current file; a service that dies there, or
\* that cannot open it, leaves it so.
Rotate ==
  /\ Len(current) > RotateLines
  /\ old' = current /\ current' = <<>>
  /\ UNCHANGED <<written, lowered, reader>>

\* What a line makes of the unfinished one it is appended to.
Glued(torn, line) ==
  [entry |-> IF Broken \in {torn.entry, line.entry} THEN Broken ELSE Garbage,
   ended |-> line.ended]

\* append_log opens the current file and writes to it: a long file only when
\* the rename failed.
Write(line) ==
  /\ Len(current) > RotateLines => "rename" \in Faults
  /\ current' = IF current # <<>> /\ ~Last(current).ended
                THEN Append(Front(current), Glued(Last(current), line))
                ELSE Append(current, line)
  /\ UNCHANGED old

\* The entries the service writes: a downgrade of a process it has not
\* lowered, the end of one it has, and the log lines of Game Mode.
Entries ==
  {e \in Entry : /\ e.n = written + 1
                 /\ e.action = "downgrade" => e.pid \notin DOMAIN lowered
                 /\ Closes(e) => /\ e.pid \in DOMAIN lowered
                                 /\ e.from = lowered[e.pid].from}

\* What the entry tells has happened: the truth the log is compared with.
Happened(e) ==
  \/ e.action = "downgrade" /\ lowered' = With(lowered, e)
  \/ Closes(e) /\ lowered' = Without(lowered, e.pid)
  \/ e.action = "game_mode_boost" /\ UNCHANGED lowered

\* append_log returns.
AppendLog ==
  /\ \E e \in Entries :
       /\ Write([entry |-> e, ended |-> TRUE])
       /\ Happened(e)
  /\ written' = written + 1
  /\ UNCHANGED reader

\* The disk is full or the power fails inside write_all: the line has no
\* end, and holds all of its entry or only a part, cut between characters or
\* inside one.
TornAppend ==
  /\ "torn" \in Faults
  /\ \E e \in Entries :
       \/ /\ Write([entry |-> e, ended |-> FALSE])
          /\ Happened(e)
          /\ written' = written + 1
       \/ /\ \E part \in {Garbage, Broken} :
               Write([entry |-> part, ended |-> FALSE])
          /\ UNCHANGED <<lowered, written>>
  /\ UNCHANGED reader

ReadOldMut ==
  /\ reader.at # "between"
  /\ reader' = [at |-> "between", got |-> Trim(Read(<<>>, current), Limit),
                since |-> written]
  /\ UNCHANGED <<old, current, written, lowered>>

\* read_log of the GUI: first the older generation ...
ReadOld ==
  /\ reader.at # "between"
  /\ reader' = [at |-> "between", got |-> Trim(Read(<<>>, old), Limit),
                since |-> written]
  /\ UNCHANGED <<old, current, written, lowered>>

\* ... then the current file.
ReadCurrent ==
  /\ reader.at = "between"
  /\ reader' = [reader EXCEPT !.at = "done",
                              !.got = Trim(Read(@, current), Limit)]
  /\ UNCHANGED <<old, current, written, lowered>>

Next == Rotate \/ AppendLog \/ TornAppend \/ ReadOld \/ ReadCurrent

Spec == Init /\ [][Next]_logVars

-----------------------------------------------------------------------------
\* Only one generation is kept, each file stays within one line of the limit
\* while rotations succeed, every line is an entry or garbage, and the GUI
\* gets no more entries than it asked for.
TypeOK ==
  /\ \A f \in {old, current} : \A i \in DOMAIN f : f[i] \in Line
  /\ "rename" \notin Faults =>
       Len(old) <= RotateLines + 1 /\ Len(current) <= RotateLines + 1
  /\ written \in 0..MaxEntries
  /\ \A p \in DOMAIN lowered : lowered[p] \in Entry
  /\ reader.at \in {"idle", "between", "done"}
  /\ \A i \in DOMAIN reader.got : reader.got[i] \in Entry
  /\ Len(reader.got) <= Limit

\* Every line of both files parses.
Intact == \A f \in {old, current} : \A i \in DOMAIN f : f[i].entry \in Entry

\* A new service finds exactly the processes the log still speaks of: never
\* one that was restored (its downgrade was rotated away no later than its
\* restore), and every lowered one whose downgrade is still there, with the
\* priorities it had.  A line cut short is forgotten once it has been rotated
\* away: the files are intact again and so is the pairing.
OrphansExact ==
  LET first   == IF Retained = <<>> THEN written + 1 ELSE Retained[1].n
      orphans == PairOrphans(Retained)
  IN  Intact =>
      /\ DOMAIN orphans = {p \in DOMAIN lowered : lowered[p].n >= first}
      /\ \A p \in DOMAIN orphans : orphans[p] = lowered[p]

\* Rotation keeps at least one full generation: whatever was appended is
\* read back until RotateLines + 1 later entries exist at the earliest, also
\* between a rename and the first line of the next file, except while a line that does not parse is still in the files.
RecentRetained ==
  Intact => \A n \in 1..written :
    n > written - (RotateLines + 1) =>
      \E i \in DOMAIN Retained : Retained[i].n = n

\* "Already-persisted entries" are never lost: the last line that was
\* completed parses, as append_log reported no error for it.
LastLineReadable ==
  current # <<>> /\ Last(current).ended => Last(current).entry \in Entry

\* "Malformed lines are skipped": every line that parses is returned, whatever
\* the other lines of its file hold.
OnlyMalformedSkipped ==
  \A f \in {old, current} : \A i \in DOMAIN f :
    f[i].entry \in Entry => Contains(Retained, f[i].entry)

\* What the GUI shows is in order and without repetitions, even when a
\* rotation comes between its two reads.
ReaderInOrder ==
  \A i, k \in DOMAIN reader.got :
    i < k => reader.got[i].n < reader.got[k].n

\* What a read_log of the GUI returns ends with an entry at least as new as
\* the last that was written when it began.
GotNewest == reader.got # <<>> /\ Last(reader.got).n >= reader.since

\* The service has renamed the file away since the GUI read the older
\* generation, and has not begun the next one.
Gap == current = <<>> /\ reader.got # Trim(Read(<<>>, old), Limit)

\* The GUI never misses the newest entries, rotation or not, unless it meets
\* a line that does not parse or comes into the gap of a rotation.
ReaderNewest ==
  [][(/\ reader.at = "between" /\ reader'.at = "done"
      /\ Intact /\ ~Gap /\ reader.since > 0 /\ Limit > 0)
     => GotNewest']_logVars

\* Without the exception for the gap: "silently miss the newest entries" is
\* what reading both files is to prevent.
NewestInGap ==
  reader.at = "done" /\ reader.since > 0 /\ Limit > 0 /\ Intact => GotNewest

\* The GUI gets the most recent entries: nothing is missing between the
\* oldest and the newest it shows.
ReaderContiguous ==
  reader.at = "done" =>
    \A i \in 1..(Len(reader.got) - 1) :
      reader.got[i + 1].n = reader.got[i].n + 1
=============================================================================
