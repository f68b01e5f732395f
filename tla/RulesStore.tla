------------------------------ MODULE RulesStore ------------------------------
(***************************************************************************)
(* affinity_rules.json: the rule commands of the desktop app (load, add,   *)
(* update and delete_affinity_rule in src-tauri/src/lib.rs) over the store *)
(* of cpum-core (store.rs), and the service that reads the file every      *)
(* fifth tick.  A command reads the list, changes it and writes it back;   *)
(* the write truncates the file first.  The commands of one app run one    *)
(* after the other, those of two apps do not.  When there is no file yet   *)
(* the app takes the list of an older release over; the service does not.  *)
(***************************************************************************)
EXTENDS FiniteSets, SequencesExt

CONSTANTS
  Apps,      \* instances of the app
  Ids,       \* what uuid::Uuid::new_v4 may return in one behaviour
  Values,    \* everything else in a rule
  Invalid,   \* values validate_rule rejects
  Disabled,  \* values of rules that are switched off
  Idle,      \* an app runs no rule command
  Missing,   \* there is no file
  Blank,     \* a file that was truncated, and not written since
  Garbled,   \* two writes over each other
  Newer,     \* a file with a version above RULES_SCHEMA_VERSION
  Legacies,  \* the files the legacy directories may hold: sequences of contents
  Firsts     \* contents the file may have at first

Rules == [id : Ids, value : Values]

Unreadable == {Blank, Garbled, Newer}

Contents == (SUBSET Rules) \cup Unreadable \cup {Missing}

\* A rule command: what it asks for, how far it is, the list it works on.
Commands ==
  [op : {"add", "update", "delete", "load"}, id : Ids \cup {Missing},
   value : Values \cup {Missing},
   at : {"load", "migrate", "migrating", "save", "saving"}, list : SUBSET Rules]

\* The constants that stand for no list and no command are neither.
ASSUME StoreAssumption ==
  /\ Invalid \subseteq Values /\ Disabled \subseteq Values
  /\ Idle \notin Apps \cup Commands
  /\ Missing \notin Unreadable
  /\ \A content \in Unreadable \cup {Missing}, list \in SUBSET Rules :
       content # list
  /\ Legacies \subseteq Seq(Contents) /\ Firsts \subseteq Contents

VARIABLES
  file,          \* what affinity_rules.json holds
  legacy,        \* what the legacy directories hold, in the order they are tried
  command,       \* app -> the rule command on its main thread
  known,         \* the list the service has read last (its protecting rules)
  enforced,      \* the list it has applied last
  used,          \* ids that have been given to a rule
  acknowledged,  \* the list users have been told of
  past,          \* every list that has been acknowledged
  disturbed      \* two commands overlapped, or one died or failed amid a write

svars == <<file, legacy, command, known, enforced, used, acknowledged, past,
           disturbed>>

StoreTypeOK ==
  /\ file \in Contents /\ legacy \in Legacies
  /\ command \in [Apps -> Commands \cup {Idle}]
  /\ \A a \in Apps : command[a] # Idle =>
       /\ command[a].op # "load" => command[a].id \in Ids
       /\ command[a].op \in {"add", "update"} => command[a].value \in Values
       /\ command[a].at \in {"save", "saving"} => command[a].op # "load"
  /\ {known, enforced} \subseteq SUBSET Rules
  /\ used \subseteq Ids
  /\ acknowledged \in Unreadable \cup SUBSET Rules
  /\ past \subseteq SUBSET Rules
  /\ disturbed \in BOOLEAN

-----------------------------------------------------------------------------
(* Lists *)

\* The first legacy file there is.
Legacy ==
  LET i == SelectInSeq(legacy, LAMBDA content : content # Missing)
  IN  IF i = 0 THEN Missing ELSE legacy[i]

\* What load_affinity_rules finds: {} when there is no file anywhere.
Visible ==
  LET found == IF file = Missing THEN Legacy ELSE file
  IN  IF found = Missing THEN {} ELSE found

\* What add, update and delete make of a list.
Changed(list, c) ==
  LET new == [id |-> c.id, value |-> c.value]
      others == {r \in list : r.id # c.id}
  IN  CASE c.op = "add"    -> list \cup {new}
        [] c.op = "update" -> others \cup {new}
        [] c.op = "delete" -> others
        [] c.op = "load"   -> list

\* A change save_affinity_rules accepts: it validates the whole list.
Accepted(list, c) ==
  /\ c.op = "update" => \E r \in list : r.id = c.id
  /\ \A r \in Changed(list, c) : r.value \notin Invalid

-----------------------------------------------------------------------------
(* Commands *)

At(a, at) == command[a] # Idle /\ command[a].at \in at

Finish(a) == command' = [command EXCEPT ![a] = Idle]

\* An app that will write what it has read.
Busy(a) == At(a, {"migrate", "migrating", "save", "saving"})

Overlaps(a) == \E b \in Apps \ {a} : Busy(b)

Begin(a) ==
  /\ command[a] = Idle
  /\ \E op \in {"add", "update", "delete", "load"},
        id \in Ids \cup {Missing}, v \in Values \cup {Missing} :
       /\ op = "add" => id \notin used
       /\ op = "load" <=> id = Missing
       /\ op \in {"add", "update"} <=> v # Missing
       /\ command' = [command EXCEPT
            ![a] = [op |-> op, id |-> id, value |-> v, at |-> "load", list |-> {}]]
       /\ used' = IF op = "add" THEN used \cup {id} ELSE used
  /\ UNCHANGED <<file, legacy, known, enforced, acknowledged, past, disturbed>>

\* The list is in memory: the command ends, or goes on to write.
Proceed(a, list) ==
  LET c == command[a]
  IN  IF c.op # "load" /\ Accepted(list, c)
      THEN command' = [command EXCEPT ![a].at = "save",
                                      ![a].list = Changed(list, c)]
      ELSE Finish(a)

LoadMut(a) ==
  /\ At(a, {"load"})
  /\ Proceed(a, IF Visible \in Unreadable THEN {} ELSE Visible)
  /\ disturbed' = (disturbed \/ (command'[a] # Idle /\ Overlaps(a)))
  /\ UNCHANGED <<file, legacy, known, enforced, used, acknowledged, past>>

\* load_affinity_rules, with which every command begins.  A list of an older
\* release is taken over first, if every rule in it is valid.
Load(a) ==
  /\ At(a, {"load"})
  /\ \/ Visible \in Unreadable /\ Finish(a)
     \/ /\ Visible \notin Unreadable
        /\ file # Missing \/ Legacy = Missing
        /\ Proceed(a, Visible)
     \/ /\ Visible \notin Unreadable
        /\ file = Missing /\ Legacy # Missing
        /\ IF \A r \in Visible : r.value \notin Invalid
           THEN command' = [command EXCEPT ![a].at = "migrate",
                                           ![a].list = Visible]
           ELSE Finish(a)
  /\ disturbed' = (disturbed \/ (command'[a] # Idle /\ Overlaps(a)))
  /\ UNCHANGED <<file, legacy, known, enforced, used, acknowledged, past>>

\* save_rules: std::fs::write opens the file, which empties it, or cannot ...
Truncate(a) ==
  /\ At(a, {"migrate", "save"})
  /\ \/ /\ file' = Blank
        /\ command' = [command EXCEPT
             ![a].at = IF @ = "save" THEN "saving" ELSE "migrating"]
     \/ UNCHANGED file /\ Finish(a)
  /\ UNCHANGED <<legacy, known, enforced, used, acknowledged, past, disturbed>>

\* The write has succeeded.
Written(a) ==
  IF command[a].at = "migrating"
  THEN Proceed(a, command[a].list) /\ UNCHANGED <<acknowledged, past>>
  ELSE /\ acknowledged' = Changed(acknowledged, command[a])
       /\ past' = past \cup {acknowledged'}
       /\ Finish(a)

WriteMut(a) ==
  /\ At(a, {"migrating", "saving"})
  /\ file' = IF command[a].list = {} THEN Missing ELSE command[a].list
  /\ Written(a)
  /\ UNCHANGED <<legacy, known, enforced, used, disturbed>>

\* ... and writes the list, over what another app has written meanwhile.
Write(a) ==
  /\ At(a, {"migrating", "saving"})
  /\ \/ /\ file' \in {command[a].list} \cup (IF file = Blank THEN {} ELSE {Garbled})
        /\ Written(a) /\ UNCHANGED disturbed
     \/ /\ Finish(a) /\ disturbed' = TRUE       \* the disk is full
        /\ UNCHANGED <<file, acknowledged, past>>
  /\ UNCHANGED <<legacy, known, enforced, used>>

\* The app dies, and is started again.
Crash(a) ==
  /\ command[a] # Idle /\ Finish(a)
  /\ disturbed' = (disturbed \/ At(a, {"migrating", "saving"}))
  /\ UNCHANGED <<file, legacy, known, enforced, used, acknowledged, past>>

-----------------------------------------------------------------------------
(* The service *)

ServiceListMut == IF file \in {Missing, Blank} THEN {} ELSE file

\* load_rules: no file is no rules.
ServiceList == IF file = Missing THEN {} ELSE file

\* apply_rules validates the rules that are switched on.
Stops(list) == \E r \in list : r.value \in Invalid \ Disabled

\* The rule pass: an unreadable file changes nothing, and an invalid rule
\* stops the pass after the list has been noted.
ServicePass ==
  /\ ServiceList \notin Unreadable
  /\ known' = ServiceList
  /\ enforced' = IF Stops(ServiceList) THEN enforced ELSE ServiceList
  /\ UNCHANGED <<file, legacy, command, used, acknowledged, past, disturbed>>

-----------------------------------------------------------------------------
StoreInit ==
  /\ file \in Firsts /\ legacy \in Legacies
  /\ command = [a \in Apps |-> Idle]
  /\ known = IF ServiceList \in Unreadable THEN {} ELSE ServiceList
  /\ enforced = IF Stops(known) THEN {} ELSE known
  /\ used = {id \in Ids : \E r \in Rules : r.id = id /\ Visible \notin Unreadable
                                           /\ r \in Visible}
  /\ acknowledged = Visible
  /\ past = {known, enforced, Visible} \ Unreadable
  /\ disturbed = FALSE

StoreNext ==
  \/ \E a \in Apps : Begin(a) \/ Load(a) \/ Truncate(a) \/ Write(a) \/ Crash(a)
  \/ ServicePass

StoreSpec == StoreInit /\ [][StoreNext]_svars

-----------------------------------------------------------------------------
\* What users were told is what the next command finds, while commands do not
\* overlap and none is interrupted amid a write: no rule of an older release
\* comes back after it was deleted, and a command that fails changes nothing.
SerialWhenAlone ==
  ~disturbed /\ (\A a \in Apps : ~At(a, {"migrating", "saving"})) =>
    Visible = acknowledged

\* The service knows and enforces only lists that were whole: it never takes
\* the file of a save that is under way for an empty list.
OnlyWholeLists == ~disturbed => {known, enforced} \subseteq past

Unparsable == file \in Unreadable /\ \A a \in Apps : ~Busy(a)

\* A file that cannot be parsed (an interrupted write, a newer version) is
\* never replaced by a command that begins after.
KeptForRepair == [][Unparsable => Unparsable']_svars

\* A list that was acknowledged is not lost to a command of another app.  (The
\* code does not keep it: commands of two apps overlap.)
NothingLost ==
  (\A a \in Apps : ~Busy(a)) /\ Visible \notin Unreadable => Visible = acknowledged
=============================================================================
