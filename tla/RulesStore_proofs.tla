--------------------------- MODULE RulesStore_proofs ---------------------------
(***************************************************************************)
(* Proofs about RulesStore, for every number of apps, ids and values, every *)
(* first file and every set of legacy directories.                          *)
(***************************************************************************)
EXTENDS RulesStore, WellFoundedInduction, TLAPS

\* A list nobody can read was found by nobody: no command goes on with it.
Unread ==
  acknowledged \in Unreadable =>
    Visible = acknowledged /\ \A a \in Apps : ~Busy(a)

\* Undisturbed, one command at a time works, on the list users know, and the
\* file is empty exactly while it writes.
Alone ==
  /\ \A a, b \in Apps : Busy(a) /\ Busy(b) => a = b
  /\ \A a \in Apps :
       /\ At(a, {"migrate", "migrating"}) => command[a].list = acknowledged
       /\ At(a, {"save", "saving"}) =>
            command[a].list = Changed(acknowledged, command[a])
       /\ At(a, {"migrating", "saving"}) => file = Blank
  /\ (\A a \in Apps : ~At(a, {"migrating", "saving"})) => Visible = acknowledged

\* What the service can find in the file is on record.
OnRecord ==
  /\ file = Missing => {} \in past
  /\ acknowledged \notin Unreadable => acknowledged \in past
  /\ {known, enforced} \subseteq past

StoreInv ==
  StoreTypeOK /\ Unread /\ (~disturbed => Alone /\ OnRecord)

-----------------------------------------------------------------------------
(* Lists *)

Before == {ss \in Nat \X Nat : ss[1] < ss[2]}

LEMMA LeastExists ==
  ASSUME NEW S \in SUBSET Nat, S # {} PROVE Min(S) \in S
<1>1. OpToRel(<, Nat) = Before
  BY DEF OpToRel, Before
<1>2. PICK x \in S : \A y \in S : ~(<<y, x>> \in Before)
  BY <1>1, NatLessThanWellFounded, WFMin
<1>3. ASSUME NEW y \in S PROVE x <= y
  <2>1. x \in Nat /\ y \in Nat
    OBVIOUS
  <2>2. y < x => <<y, x>> \in Before
    BY <2>1 DEF Before
  <2> QED BY <1>2, <2>1, <2>2
<1> QED BY <1>3 DEF Min

LEMMA LegacyType == ASSUME legacy \in Legacies PROVE Legacy \in Contents
<1>1. legacy \in Seq(Contents)
  BY StoreAssumption
<1> DEFINE I == {i \in 1..Len(legacy) : legacy[i] # Missing}
<1>2. I # {} => Min(I) \in I
  <2>1. I \in SUBSET Nat
    OBVIOUS
  <2> QED BY <2>1, LeastExists
<1>3. SelectInSeq(legacy, LAMBDA content : content # Missing)
        = IF I # {} THEN Min(I) ELSE 0
  BY DEF SelectInSeq
<1>4. Legacy = Missing \/ \E i \in 1..Len(legacy) : Legacy = legacy[i]
  BY <1>2, <1>3 DEF Legacy
<1> QED BY <1>1, <1>4 DEF Contents

LEMMA VisibleFacts ==
  ASSUME StoreTypeOK
  PROVE  /\ Visible \in Unreadable \cup SUBSET Rules
         /\ Visible \notin Unreadable => Visible \in SUBSET Rules
         /\ file # Missing => Visible = file
         /\ file = Missing /\ Legacy = Missing => Visible = {}
BY LegacyType DEF StoreTypeOK, Visible, Contents

LEMMA VisibleSame ==
  ASSUME UNCHANGED <<file, legacy>> PROVE Visible' = Visible
BY DEF Visible, Legacy, SelectInSeq

LEMMA VisibleNext ==
  ASSUME file' # Missing PROVE Visible' = file'
BY DEF Visible

LEMMA NoList ==
  ASSUME NEW list \in SUBSET Rules
  PROVE  list # Missing /\ list \notin Unreadable
BY StoreAssumption

\* A command that has its parameters makes a list of a list.
LEMMA ChangedType ==
  ASSUME StoreTypeOK, NEW a \in Apps, command[a] # Idle, NEW list \in SUBSET Rules
  PROVE  Changed(list, command[a]) \in SUBSET Rules
<1>1. command[a].op \in {"add", "update", "delete", "load"}
  BY DEF StoreTypeOK, Commands
<1>2. command[a].op \in {"add", "update"} =>
        [id |-> command[a].id, value |-> command[a].value] \in Rules
  BY DEF StoreTypeOK, Rules
<1> QED BY <1>1, <1>2 DEF Changed

LEMMA ChangedSame ==
  ASSUME NEW c, NEW d, NEW list, c.op = d.op, c.id = d.id, c.value = d.value
  PROVE  Changed(list, c) = Changed(list, d)
BY DEF Changed

-----------------------------------------------------------------------------
(* What one step does to the commands *)

CommandTable == [Apps -> Commands \cup {Idle}]

OthersStay(a) == \A b \in Apps \ {a} : command'[b] = command[b]

\* The command of a goes on, doing what it did.
GoesOn(a) ==
  /\ command[a] # Idle /\ command'[a] # Idle
  /\ command'[a].op = command[a].op
  /\ command'[a].id = command[a].id
  /\ command'[a].value = command[a].value

LEMMA FinishEffect ==
  ASSUME StoreTypeOK, NEW a \in Apps, Finish(a)
  PROVE  command' \in CommandTable /\ OthersStay(a) /\ command'[a] = Idle
BY DEF StoreTypeOK, Finish, CommandTable, OthersStay

\* The command of a at another place, with another list.
Moved(a, at, list) ==
  [command EXCEPT ![a].at = at, ![a].list = list]

LEMMA MovedEffect ==
  ASSUME StoreTypeOK, NEW a \in Apps, command[a] # Idle,
         NEW at \in {"migrate", "migrating", "save", "saving"},
         NEW list \in SUBSET Rules, command' = Moved(a, at, list)
  PROVE  /\ command' \in CommandTable /\ OthersStay(a) /\ GoesOn(a)
         /\ command'[a].at = at /\ command'[a].list = list
<1>1. command[a] \in Commands
  BY DEF StoreTypeOK
<1>2. PICK c \in Commands :
        /\ c.op = command[a].op /\ c.id = command[a].id
        /\ c.value = command[a].value /\ c.at = at /\ c.list = list
        /\ command' = [command EXCEPT ![a] = c]
  <2>1. [command[a] EXCEPT !.at = at, !.list = list] \in Commands
    BY <1>1 DEF Commands
  <2> QED BY <1>1, <2>1 DEF Moved, Commands, StoreTypeOK
<1>3. c # Idle
  BY StoreAssumption
<1>4. command'[a] = c /\ \A b \in Apps \ {a} : command'[b] = command[b]
  BY <1>2 DEF StoreTypeOK
<1> QED BY <1>2, <1>3, <1>4 DEF StoreTypeOK, CommandTable, OthersStay, GoesOn

LEMMA ProceedEffect ==
  ASSUME StoreTypeOK, NEW a \in Apps, command[a] # Idle,
         NEW list \in SUBSET Rules, Proceed(a, list)
  PROVE  /\ command' \in CommandTable /\ OthersStay(a)
         /\ \/ command'[a] = Idle
            \/ /\ GoesOn(a) /\ command'[a].at = "save"
               /\ command'[a].op # "load"
               /\ command'[a].list = Changed(list, command[a])
<1>1. CASE Finish(a)
  BY <1>1, FinishEffect
<1>2. CASE /\ command[a].op # "load"
           /\ command' = Moved(a, "save", Changed(list, command[a]))
  BY <1>2, ChangedType, MovedEffect DEF GoesOn
<1> QED BY <1>1, <1>2 DEF Proceed, Moved

\* What holds of every command.
CommandOK(c) ==
  /\ c.op # "load" => c.id \in Ids
  /\ c.op \in {"add", "update"} => c.value \in Values
  /\ c.at \in {"save", "saving"} => c.op # "load"

LEMMA CommandsNext ==
  ASSUME StoreTypeOK, NEW a \in Apps, command' \in CommandTable, OthersStay(a),
         command'[a] # Idle => CommandOK(command'[a]),
         file' \in Contents, legacy' = legacy,
         {known', enforced'} \subseteq SUBSET Rules, used' \subseteq Ids,
         acknowledged' \in Unreadable \cup SUBSET Rules,
         past' \subseteq SUBSET Rules, disturbed' \in BOOLEAN
  PROVE  StoreTypeOK'
BY DEF StoreTypeOK, CommandTable, OthersStay, CommandOK

-----------------------------------------------------------------------------
(* The invariant, step by step *)

\* A command that stops working, or does not start to, disturbs nothing.
LEMMA CalmNext ==
  ASSUME StoreInv, NEW a \in Apps, OthersStay(a), ~Busy(a)',
         UNCHANGED <<file, legacy, known, enforced, acknowledged, past>>,
         ~disturbed' => ~disturbed /\ ~At(a, {"migrating", "saving"})
  PROVE  Unread' /\ (~disturbed' => Alone' /\ OnRecord')
<1>1. Visible' = Visible
  BY VisibleSame
<1>2. \A b \in Apps : Busy(b)' => b # a /\ Busy(b) /\ command'[b] = command[b]
  BY DEF OthersStay, Busy, At
<1>3. Unread'
  BY <1>1, <1>2 DEF StoreInv, Unread
<1>4. ASSUME ~disturbed' PROVE Alone' /\ OnRecord'
  <2>1. Alone /\ OnRecord /\ ~At(a, {"migrating", "saving"})
    BY <1>4 DEF StoreInv
  <2>2. OnRecord'
    BY <2>1 DEF OnRecord
  <2>3. ASSUME NEW b \in Apps
        PROVE  /\ At(b, {"migrate", "migrating"})' => command'[b].list = acknowledged'
               /\ At(b, {"save", "saving"})' =>
                    command'[b].list = Changed(acknowledged', command'[b])
               /\ At(b, {"migrating", "saving"})' => file' = Blank
    BY <1>2, <2>1 DEF Alone, At, Busy
  <2>4. (\A b \in Apps : ~At(b, {"migrating", "saving"})') => Visible' = acknowledged'
    <3>1. \A b \in Apps : At(b, {"migrating", "saving"}) => At(b, {"migrating", "saving"})'
      BY <2>1 DEF OthersStay, At
    <3> QED BY <1>1, <2>1, <3>1 DEF Alone
  <2> QED BY <1>2, <2>1, <2>2, <2>3, <2>4 DEF Alone
<1> QED BY <1>3, <1>4

LEMMA BeginNext ==
  ASSUME StoreInv, NEW a \in Apps, Begin(a) PROVE StoreInv'
<1>1. PICK op \in {"add", "update", "delete", "load"},
           id \in Ids \cup {Missing}, v \in Values \cup {Missing} :
        /\ op = "load" <=> id = Missing
        /\ op \in {"add", "update"} <=> v # Missing
        /\ command' = [command EXCEPT
             ![a] = [op |-> op, id |-> id, value |-> v, at |-> "load", list |-> {}]]
        /\ used' = IF op = "add" THEN used \cup {id} ELSE used
  BY DEF Begin
<1> DEFINE c == [op |-> op, id |-> id, value |-> v, at |-> "load", list |-> {}]
<1>2. c \in Commands /\ CommandOK(c) /\ c.at = "load"
  BY <1>1 DEF Commands, CommandOK
<1> HIDE DEF c
<1>3. command' = [command EXCEPT ![a] = c]
  BY <1>1 DEF c
<1>4. command' \in CommandTable /\ OthersStay(a) /\ command'[a] = c
  BY <1>2, <1>3 DEF StoreInv, StoreTypeOK, CommandTable, OthersStay
<1>5. UNCHANGED <<file, legacy, known, enforced, acknowledged, past, disturbed>>
  BY DEF Begin
<1>6. StoreTypeOK'
  <2>1. used' \subseteq Ids
    BY <1>1 DEF StoreInv, StoreTypeOK
  <2> QED BY <1>2, <1>4, <1>5, <2>1, CommandsNext DEF StoreInv, StoreTypeOK
<1>7. ~Busy(a)' /\ ~At(a, {"migrating", "saving"})
  <2>1. command[a] = Idle
    BY DEF Begin
  <2> QED BY <1>2, <1>4, <2>1 DEF Busy, At
<1> QED BY <1>4, <1>5, <1>6, <1>7, CalmNext DEF StoreInv

LEMMA LoadNext ==
  ASSUME StoreInv, NEW a \in Apps, Load(a) PROVE StoreInv'
<1>1. /\ command[a] # Idle /\ command[a].at = "load" /\ StoreTypeOK
      /\ UNCHANGED <<file, legacy, known, enforced, used, acknowledged, past>>
      /\ disturbed' = (disturbed \/ (command'[a] # Idle /\ Overlaps(a)))
  BY DEF Load, At, StoreInv
<1>2. ~At(a, {"migrating", "saving"}) /\ ~Busy(a)
  BY <1>1 DEF Busy, At
<1>3. disturbed' \in BOOLEAN
  BY <1>1 DEF StoreTypeOK
<1>4. ASSUME command' \in CommandTable, OthersStay(a), command'[a] = Idle
      PROVE  StoreInv'
  <2>1. StoreTypeOK'
    BY <1>1, <1>3, <1>4, CommandsNext DEF StoreTypeOK
  <2> QED BY <1>1, <1>2, <1>4, <2>1, CalmNext DEF StoreInv, Busy, At
<1>5. ASSUME Visible \notin Unreadable,
             command' \in CommandTable, OthersStay(a), GoesOn(a),
             \/ /\ command'[a].at = "save" /\ command'[a].op # "load"
                /\ command'[a].list = Changed(Visible, command[a])
             \/ command'[a].at = "migrate" /\ command'[a].list = Visible
      PROVE  StoreInv'
  <2>1. StoreTypeOK'
    <3>1. CommandOK(command'[a])
      BY <1>1, <1>5 DEF CommandOK, GoesOn, StoreTypeOK
    <3> QED BY <1>1, <1>3, <1>5, <3>1, CommandsNext DEF StoreTypeOK
  <2>2. Visible' = Visible
    BY <1>1, VisibleSame
  <2>3. Unread'
    BY <1>1, <1>5 DEF Unread, StoreInv
  <2>4. ASSUME ~disturbed' PROVE Alone' /\ OnRecord'
    <3>1. Alone /\ OnRecord /\ \A b \in Apps : ~Busy(b)
      BY <1>1, <1>2, <1>5, <2>4 DEF StoreInv, GoesOn, Overlaps
    <3>2. Visible = acknowledged
      BY <3>1 DEF Alone, Busy, At
    <3>3. \A b \in Apps : b # a => ~Busy(b)' /\ \A at : At(b, at)' => At(b, at)
      BY <1>5, <3>1 DEF OthersStay, Busy, At
    <3>4. Changed(acknowledged, command'[a]) = Changed(Visible, command[a])
      BY <1>5, <3>2, ChangedSame DEF GoesOn
    <3>5. ASSUME NEW b \in Apps
          PROVE  /\ At(b, {"migrate", "migrating"})' => command'[b].list = acknowledged'
                 /\ At(b, {"save", "saving"})' =>
                      command'[b].list = Changed(acknowledged', command'[b])
                 /\ ~At(b, {"migrating", "saving"})'
      BY <1>1, <1>5, <3>1, <3>2, <3>3, <3>4 DEF At, Busy
    <3>6. Alone'
      BY <1>1, <2>2, <3>2, <3>3, <3>5 DEF Alone
    <3> QED BY <1>1, <3>1, <3>6 DEF OnRecord
  <2> QED BY <2>1, <2>3, <2>4 DEF StoreInv
<1>6. ASSUME Visible \notin Unreadable, Proceed(a, Visible) PROVE StoreInv'
  <2>1. Visible \in SUBSET Rules
    BY <1>1, <1>6, VisibleFacts
  <2> QED BY <1>1, <1>4, <1>5, <1>6, <2>1, ProceedEffect
<1>7. ASSUME Visible \notin Unreadable, command' = Moved(a, "migrate", Visible)
      PROVE  StoreInv'
  <2>1. Visible \in SUBSET Rules
    BY <1>1, <1>7, VisibleFacts
  <2> QED BY <1>1, <1>5, <1>7, <2>1, MovedEffect
<1> QED BY <1>1, <1>4, <1>6, <1>7, FinishEffect DEF Load, Moved


LEMMA CrashNext ==
  ASSUME StoreInv, NEW a \in Apps, Crash(a) PROVE StoreInv'
<1>1. command' \in CommandTable /\ OthersStay(a) /\ command'[a] = Idle
  BY FinishEffect DEF Crash, StoreInv
<1>2. /\ UNCHANGED <<file, legacy, known, enforced, used, acknowledged, past>>
      /\ disturbed' = (disturbed \/ At(a, {"migrating", "saving"}))
  BY DEF Crash
<1>3. StoreTypeOK'
  BY <1>1, <1>2, CommandsNext DEF StoreInv, StoreTypeOK, At
<1> QED BY <1>1, <1>2, <1>3, CalmNext DEF StoreInv, Busy, At

LEMMA TruncateNext ==
  ASSUME StoreInv, NEW a \in Apps, Truncate(a) PROVE StoreInv'
<1>1. /\ command[a] # Idle /\ command[a].at \in {"migrate", "save"}
      /\ command[a] \in Commands /\ Busy(a)
      /\ UNCHANGED <<legacy, known, enforced, used, acknowledged, past, disturbed>>
  BY DEF Truncate, At, Busy, StoreInv, StoreTypeOK
<1>2. CASE UNCHANGED file /\ Finish(a)
  <2>1. command' \in CommandTable /\ OthersStay(a) /\ command'[a] = Idle
    BY <1>2, FinishEffect DEF StoreInv
  <2>2. StoreTypeOK'
    BY <1>1, <1>2, <2>1, CommandsNext DEF StoreInv, StoreTypeOK
  <2> QED BY <1>1, <1>2, <2>1, <2>2, CalmNext DEF StoreInv, Busy, At
<1>3. ASSUME file' = Blank,
             command' = [command EXCEPT
               ![a].at = IF @ = "save" THEN "saving" ELSE "migrating"]
      PROVE  StoreInv'
  <2> DEFINE at == IF command[a].at = "save" THEN "saving" ELSE "migrating"
             c == [command[a] EXCEPT !.at = at]
  <2>1. /\ c \in Commands /\ c.at = at /\ c.op = command[a].op
        /\ c.id = command[a].id /\ c.value = command[a].value
        /\ c.list = command[a].list
    BY <1>1 DEF Commands
  <2>2. command' = [command EXCEPT ![a] = c]
    BY <1>1, <1>3 DEF Commands, StoreInv, StoreTypeOK
  <2>3. at \in {"saving", "migrating"} /\ (at = "saving" <=> command[a].at = "save")
    OBVIOUS
  <2> HIDE DEF c, at
  <2>4. /\ command' \in CommandTable /\ OthersStay(a) /\ command'[a] = c /\ c # Idle
    BY <2>1, <2>2, StoreAssumption DEF StoreInv, StoreTypeOK, CommandTable, OthersStay
  <2>5. StoreTypeOK'
    <3>1. CommandOK(c) /\ file' \in Contents
      BY <1>1, <1>3, <2>1, <2>3 DEF CommandOK, StoreInv, StoreTypeOK, Contents, Unreadable
    <3> QED BY <1>1, <2>4, <3>1, CommandsNext DEF StoreInv, StoreTypeOK
  <2>6. Unread'
    BY <1>1 DEF Unread, StoreInv
  <2>7. ASSUME ~disturbed' PROVE Alone' /\ OnRecord'
    <3>1. Alone /\ OnRecord
      BY <1>1, <2>7 DEF StoreInv
    <3>2. \A b \in Apps : b # a => ~Busy(b)' /\ \A s : At(b, s)' => At(b, s)
      BY <1>1, <2>4, <3>1 DEF OthersStay, Busy, At, Alone
    <3>3. Changed(acknowledged, c) = Changed(acknowledged, command[a])
      BY <2>1, ChangedSame
    <3>4. ASSUME NEW b \in Apps
          PROVE  /\ At(b, {"migrate", "migrating"})' => command'[b].list = acknowledged'
                 /\ At(b, {"save", "saving"})' =>
                      command'[b].list = Changed(acknowledged', command'[b])
                 /\ At(b, {"migrating", "saving"})' => file' = Blank
      <4>1. CASE b = a
        BY <1>1, <1>3, <2>1, <2>3, <2>4, <3>1, <3>3, <4>1 DEF At, Alone
      <4>2. CASE b # a
        BY <3>2, <4>2 DEF Busy, At
      <4> QED BY <4>1, <4>2
    <3>5. At(a, {"migrating", "saving"})'
      BY <2>1, <2>3, <2>4 DEF At
    <3>6. Alone'
      BY <3>2, <3>4, <3>5 DEF Alone
    <3>7. Blank # Missing
      BY StoreAssumption DEF Unreadable
    <3> QED BY <1>1, <1>3, <3>1, <3>6, <3>7 DEF OnRecord
  <2> QED BY <2>5, <2>6, <2>7 DEF StoreInv
<1> QED BY <1>2, <1>3 DEF Truncate

LEMMA WriteNext ==
  ASSUME StoreInv, NEW a \in Apps, Write(a) PROVE StoreInv'
<1> DEFINE list == command[a].list
<1>1. /\ command[a] # Idle /\ command[a].at \in {"migrating", "saving"}
      /\ command[a] \in Commands /\ Busy(a) /\ StoreTypeOK
      /\ list \in SUBSET Rules
      /\ UNCHANGED <<legacy, known, enforced, used>>
  BY DEF Write, At, Busy, StoreInv, StoreTypeOK, Commands
<1>2. acknowledged \in SUBSET Rules
  BY <1>1 DEF StoreInv, Unread, StoreTypeOK
<1>3. CASE Finish(a) /\ disturbed' = TRUE /\ UNCHANGED <<file, acknowledged, past>>
  <2>1. command' \in CommandTable /\ OthersStay(a) /\ command'[a] = Idle
    BY <1>3, FinishEffect DEF StoreInv
  <2>2. StoreTypeOK'
    BY <1>1, <1>3, <2>1, CommandsNext DEF StoreTypeOK
  <2> QED BY <1>1, <1>3, <2>1, <2>2, CalmNext DEF StoreInv, Busy, At
<1>4. ASSUME file' \in {list} \cup (IF file = Blank THEN {} ELSE {Garbled}),
             Written(a), UNCHANGED disturbed
      PROVE  StoreInv'
  <2>1. /\ file' \in Contents /\ file' # Missing /\ Visible' = file'
        /\ file = Blank => file' = list
    BY <1>1, <1>4, NoList, VisibleNext, StoreAssumption DEF Contents, Unreadable
  <2>2. /\ command' \in CommandTable /\ OthersStay(a)
        /\ \/ command'[a] = Idle
           \/ /\ GoesOn(a) /\ command'[a].at = "save" /\ command'[a].op # "load"
              /\ command[a].at = "migrating"
              /\ command'[a].list = Changed(list, command[a])
    BY <1>1, <1>4, ProceedEffect, FinishEffect DEF Written
  <2>3. /\ acknowledged' \in SUBSET Rules
        /\ \/ /\ command[a].at = "migrating"
              /\ acknowledged' = acknowledged /\ past' = past
           \/ /\ command[a].at = "saving"
              /\ acknowledged' = Changed(acknowledged, command[a])
              /\ past' = past \cup {acknowledged'}
              /\ command'[a] = Idle
    BY <1>1, <1>2, <1>4, <2>2, ChangedType, FinishEffect DEF Written
  <2>4. StoreTypeOK'
    <3>1. command'[a] # Idle => CommandOK(command'[a])
      BY <1>1, <2>2 DEF StoreTypeOK, CommandOK, GoesOn
    <3>2. past' \subseteq SUBSET Rules /\ disturbed' \in BOOLEAN
      BY <1>1, <1>4, <2>3 DEF StoreTypeOK
    <3> QED BY <1>1, <2>1, <2>2, <2>3, <3>1, <3>2, CommandsNext DEF StoreTypeOK
  <2>5. Unread'
    BY <2>3, NoList DEF Unread
  <2>6. ASSUME ~disturbed' PROVE Alone' /\ OnRecord'
    <3>1. Alone /\ OnRecord
      BY <1>4, <2>6 DEF StoreInv
    <3>2. \A b \in Apps : b # a => ~Busy(b)' /\ \A s : At(b, s)' => At(b, s)
      BY <1>1, <2>2, <3>1 DEF OthersStay, Busy, At, Alone
    <3>3. file' = list /\ acknowledged' = list
      <4>1. file = Blank
        BY <1>1, <3>1 DEF Alone, At
      <4> QED BY <1>1, <2>1, <2>3, <3>1, <4>1 DEF Alone, At
    <3>4. command'[a] # Idle => Changed(list, command'[a]) = Changed(list, command[a])
      BY <2>2, ChangedSame DEF GoesOn
    <3>5. ASSUME NEW b \in Apps
          PROVE  /\ ~At(b, {"migrate", "migrating", "saving"})'
                 /\ At(b, {"save"})' =>
                      command'[b].list = Changed(acknowledged', command'[b])
      <4>1. CASE b = a
        BY <2>2, <3>3, <3>4, <4>1 DEF At
      <4>2. CASE b # a
        BY <3>2, <4>2 DEF Busy, At
      <4> QED BY <4>1, <4>2
    <3>6. Alone'
      BY <2>1, <3>2, <3>3, <3>5 DEF Alone, At, Busy
    <3>7. OnRecord'
      BY <1>1, <2>1, <2>3, <3>1 DEF OnRecord
    <3> QED BY <3>6, <3>7
  <2> QED BY <2>4, <2>5, <2>6 DEF StoreInv
<1> QED BY <1>3, <1>4 DEF Write

LEMMA ServiceNext ==
  ASSUME StoreInv, ServicePass PROVE StoreInv'
<1>1. /\ ServiceList \notin Unreadable /\ known' = ServiceList
      /\ enforced' \in {enforced, ServiceList}
      /\ UNCHANGED <<file, legacy, command, used, acknowledged, past, disturbed>>
  BY DEF ServicePass
<1>2. ServiceList \in SUBSET Rules
  BY <1>1 DEF ServiceList, StoreInv, StoreTypeOK, Contents
<1>3. StoreTypeOK'
  BY <1>1, <1>2 DEF StoreInv, StoreTypeOK
<1>4. Visible' = Visible /\ \A b \in Apps : \A at : At(b, at)' = At(b, at)
  BY <1>1, VisibleSame DEF At
<1>5. Unread'
  BY <1>1, <1>4 DEF StoreInv, Unread, Busy
<1>6. ASSUME ~disturbed' PROVE Alone' /\ OnRecord'
  <2>1. Alone /\ OnRecord
    BY <1>1, <1>6 DEF StoreInv
  <2>2. Alone'
    BY <1>1, <1>4, <2>1 DEF Alone, Busy
  <2>3. ServiceList \in past
    <3>1. CASE file = Missing
      BY <2>1, <3>1 DEF OnRecord, ServiceList
    <3>2. CASE file # Missing
      <4>1. file \notin Unreadable /\ ServiceList = file /\ Visible = file
        BY <1>1, <3>2 DEF ServiceList, Visible
      <4>2. Visible = acknowledged
        BY <2>1, <4>1 DEF Alone, Unreadable
      <4> QED BY <2>1, <4>1, <4>2 DEF OnRecord
    <3> QED BY <3>1, <3>2
  <2>4. OnRecord'
    BY <1>1, <2>1, <2>3 DEF OnRecord
  <2> QED BY <2>2, <2>4
<1> QED BY <1>3, <1>5, <1>6 DEF StoreInv

LEMMA StoreInvInit == StoreInit => StoreInv
<1> SUFFICES ASSUME StoreInit PROVE StoreInv
  OBVIOUS
<1>1. /\ file \in Contents /\ legacy \in Legacies
      /\ command = [a \in Apps |-> Idle]
      /\ acknowledged = Visible /\ disturbed = FALSE
      /\ used \subseteq Ids
      /\ past = {known, enforced, Visible} \ Unreadable
  BY StoreAssumption DEF StoreInit
<1>2. Visible \in Unreadable \cup SUBSET Rules
  BY <1>1, LegacyType DEF Visible, Contents
<1>3. /\ known \in SUBSET Rules /\ enforced \in SUBSET Rules
      /\ file = Missing => known = {}
  <2>1. ServiceList \in Unreadable \/ ServiceList \in SUBSET Rules
    BY <1>1 DEF ServiceList, Contents
  <2>2. file = Missing => ServiceList = {} /\ {} \notin Unreadable
    BY NoList DEF ServiceList
  <2>3. /\ known = IF ServiceList \in Unreadable THEN {} ELSE ServiceList
        /\ enforced \in {{}, known}
    BY DEF StoreInit
  <2> QED BY <2>1, <2>2, <2>3
<1>4. known \notin Unreadable /\ enforced \notin Unreadable
  BY <1>3, NoList
<1>5. StoreTypeOK
  BY <1>1, <1>2, <1>3 DEF StoreTypeOK
<1>6. \A a \in Apps : ~Busy(a) /\ \A at : ~At(a, at)
  BY <1>1 DEF Busy, At
<1> QED BY <1>1, <1>3, <1>4, <1>5, <1>6 DEF StoreInv, Unread, Alone, OnRecord

LEMMA StoreInvNext == StoreInv /\ [StoreNext]_svars => StoreInv'
<1> SUFFICES ASSUME StoreInv, [StoreNext]_svars PROVE StoreInv'
  OBVIOUS
<1>1. ASSUME NEW a \in Apps, Begin(a) \/ Load(a) \/ Truncate(a) \/ Write(a) \/ Crash(a)
      PROVE  StoreInv'
  BY <1>1, BeginNext, LoadNext, TruncateNext, WriteNext, CrashNext
<1>2. CASE UNCHANGED svars
  <2>1. UNCHANGED <<file, legacy, command, known, enforced, used, acknowledged,
                    past, disturbed>>
    BY <1>2 DEF svars
  <2>2. Visible' = Visible /\ \A b \in Apps : \A at : At(b, at)' = At(b, at)
    BY <2>1, VisibleSame DEF At
  <2>3. StoreTypeOK'
    BY <2>1 DEF StoreInv, StoreTypeOK
  <2>4. Unread'
    BY <2>1, <2>2 DEF StoreInv, Unread, Busy
  <2>5. ~disturbed' => Alone' /\ OnRecord'
    BY <2>1, <2>2 DEF StoreInv, Alone, OnRecord, Busy
  <2> QED BY <2>3, <2>4, <2>5 DEF StoreInv
<1> QED BY <1>1, <1>2, ServiceNext DEF StoreNext

\* The inductive invariant holds whatever the apps and the service do, crashes
\* and failed writes included.
THEOREM StoreInvHolds == StoreSpec => []StoreInv
BY StoreInvInit, StoreInvNext, PTL DEF StoreSpec

-----------------------------------------------------------------------------
(* What the runs check *)

\* Every file content, command and list the store handles is of its kind.
THEOREM StoreTypes == StoreSpec => []StoreTypeOK
<1>1. StoreInv => StoreTypeOK
  BY DEF StoreInv
<1> QED BY <1>1, StoreInvHolds, PTL

\* While commands do not overlap and none is interrupted amid a write, what users
\* were told last is what the next rule command finds.
THEOREM CommandsAreSerial == StoreSpec => []SerialWhenAlone
<1>1. StoreInv => SerialWhenAlone
  BY DEF StoreInv, Alone, SerialWhenAlone
<1> QED BY <1>1, StoreInvHolds, PTL

\* Under the same condition the service never takes a half-written file for a
\* list: it knows and enforces only lists that were acknowledged.
THEOREM ServiceTakesWholeLists == StoreSpec => []OnlyWholeLists
<1>1. StoreInv => OnlyWholeLists
  BY DEF StoreInv, OnRecord, OnlyWholeLists
<1> QED BY <1>1, StoreInvHolds, PTL

\* A file nobody can parse stays: every command that begins after fails at its
\* load, and the service does not write.
THEOREM UnparsableIsKept == StoreSpec => KeptForRepair
<1>1. StoreTypeOK /\ [StoreNext]_svars => (Unparsable => Unparsable')
  <2> SUFFICES ASSUME StoreTypeOK, [StoreNext]_svars, Unparsable PROVE Unparsable'
    OBVIOUS
  <2>1. /\ file \in Unreadable /\ Visible \in Unreadable
        /\ \A b \in Apps : ~Busy(b)
    BY StoreAssumption DEF Unparsable, Visible
  <2>2. ASSUME NEW a \in Apps, UNCHANGED file, OthersStay(a), ~Busy(a)'
        PROVE  Unparsable'
    BY <2>1, <2>2 DEF Unparsable, OthersStay, Busy, At
  <2>3. ASSUME NEW a \in Apps, Begin(a) PROVE Unparsable'
    <3>1. PICK c : c.at = "load" /\ command' = [command EXCEPT ![a] = c]
      BY <2>3 DEF Begin
    <3>2. UNCHANGED file /\ OthersStay(a) /\ command'[a].at = "load"
      BY <2>3, <3>1 DEF Begin, OthersStay, StoreTypeOK
    <3> QED BY <2>2, <3>2 DEF Busy, At
  <2>4. ASSUME NEW a \in Apps, Finish(a), UNCHANGED file PROVE Unparsable'
    BY <2>2, <2>4, FinishEffect DEF Busy, At
  <2>5. ASSUME NEW a \in Apps, Load(a) \/ Truncate(a) \/ Write(a) \/ Crash(a)
        PROVE  Unparsable'
    BY <2>1, <2>4, <2>5 DEF Load, Truncate, Write, Crash, Busy, At
  <2>6. CASE ServicePass \/ UNCHANGED svars
    <3>1. UNCHANGED <<file, command>>
      BY <2>6 DEF ServicePass, svars
    <3> QED BY <2>1, <3>1 DEF Unparsable, Busy, At
  <2> QED BY <2>3, <2>5, <2>6 DEF StoreNext
<1>2. StoreSpec => [][Unparsable => Unparsable']_svars
  BY <1>1, StoreTypes, PTL DEF StoreSpec
<1> QED BY <1>2 DEF KeptForRepair
=============================================================================
