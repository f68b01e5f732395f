----------------------------- MODULE Bridge_proofs -----------------------------
(***************************************************************************)
(* Proofs about Bridge: the app, the service, its installation and the     *)
(* scripts, for every number of apps and processes, every workload and     *)
(* every distribution of rights.                                            *)
(***************************************************************************)
EXTENDS Bridge, FiniteSetTheorems, WellFoundedInduction, TLAPS

ServiceScriptOps == {"install", "start", "stop", "delete"}

\* Where a command can be that a script is asked for, or has been, or that has
\* looked at the service and is about to update the marker.
Beyond == {"waiting", "done", "refused", "timed out", "present", "gone"}

\* What holds of a command by itself.  An apply counts every process once if
\* no process has two rules, and a change that worked has been made, or its
\* prompt declined.
CommandOK(c) ==
  /\ c.op \in Changes <=> c.pid \in Pids
  /\ c.op \in ServiceOps => 
       c.at \in {"begun", "queried", "once", "twice", "stopped"} \cup Beyond
  /\ c.op = "install" => c.at \in {"begun"} \cup Beyond
  /\ c.op \in {"ping", "apply"} => c.at \notin Beyond
  /\ c.op \in ProcessOps => 
       c.at \notin {"queried", "once", "twice", "stopped", "present", "gone"}
  /\ c.op \in Changes /\ c.at \in {"done", "ok"} => c.made # "no"
  /\ (\A p \in Pids : RulesOn[p] <= 1) /\ c.op = "apply" =>
       /\ c.handled \subseteq Matched
       /\ c.applied <= Cardinality(IF c.at = "ok" THEN Matched ELSE c.handled)

\* An app that waits for a script has one, and it does what the command needs.
ScriptsOK ==
  /\ \A s \in scripts : s.app \in Apps =>
       LET c == command[s.app]
       IN  /\ c # Idle /\ c.at = "waiting"
           /\ s.op = "change" <=> c.op \in Changes
           /\ s.op = "install" => c.op = "install"
           /\ s.op = "delete" => c.op = "uninstall"
  /\ \A s, t \in scripts : s.app = t.app /\ s.app \in Apps => s = t
  /\ \A a \in Apps : command[a] # Idle /\ command[a].at = "waiting" =>
       \E s \in scripts : s.app = a

\* An app has a connection exactly while it reads from it.
Reading(a) ==
  /\ command[a] # Idle /\ command[a].op \in ProcessOps
  /\ command[a].at = "reading"

ConnOK ==
  /\ \A a \in Apps : conn[a] # "none" <=> Reading(a)
  /\ \A a \in Apps :
       conn[a] = "ok" /\ command[a].op \in Changes => command[a].made = "yes"

\* The ways a process command deals with the token.
Holds(a, ats) ==
  /\ command[a] # Idle /\ command[a].op \in ProcessOps
  /\ command[a].at \in ats

\* As long as one token at most has been made, it is the only one in use; the
\* file is empty before it is first written, and while it is.
OneToken ==
  mints <= 1 =>
    /\ \A a \in Apps : Holds(a, {"connect", "reading"}) =>
         command[a].token = token_file /\ token_file # NoToken
    /\ \A a \in Apps : Holds(a, {"minting"}) =>
         /\ mints = 1 /\ token_file = NoToken
         /\ \A b \in Apps : Holds(b, {"minting"}) => b = a
    /\ mints = 0 => token_file = NoToken
    /\ \A a \in Apps : conn[a] # "unauthorized"

\* An install or uninstall that may have changed something and has not ended:
\* it will either look at the service and set the marker, or report failure.
Settling(a, ats) ==
  /\ command[a] # Idle /\ command[a].op \in {"install", "uninstall"}
  /\ command[a].at \in ats

\* The marker says what there is, or the opposite if its update failed.
Records == (flag <=> scm # Missing) <=> ~unmarked

\* Whoever brought the marker and the service apart is there to see to it.
Marked ==
  ~gave_up /\ ~overtaken =>
    /\ Records \/ \E a \in Apps : Settling(a, Beyond)
    /\ scm.deleting => \E a \in Apps :
         \/ Settling(a, {"timed out"})
         \/ Settling(a, {"done"}) /\ command[a].op = "uninstall"
    /\ (\E s \in scripts : s.app = Idle /\ s.op \in {"install", "delete"}) =>
         \E a \in Apps : Settling(a, {"timed out"})

\* What an app has seen of the service is still so, unless it was overtaken.
Looked ==
  ~overtaken => \A a \in Apps : command[a] # Idle =>
    /\ command[a].at = "present" => scm # Missing
    /\ command[a].at = "gone" => scm = Missing

ScmOK ==
  /\ scm = Missing
       \/ scm \in [state : {"stopped", "running", "stopping"}, deleting : BOOLEAN]
  /\ scm.state = "stopped" => ~scm.deleting
  /\ flag \in BOOLEAN /\ unmarked \in BOOLEAN /\ gave_up \in BOOLEAN

CommandTable == [Apps -> Commands \cup {Idle}]

CommandsOK ==
  /\ command \in CommandTable
  /\ \A a \in Apps : command[a] # Idle => CommandOK(command[a])
  /\ scripts \subseteq Scripts

\* The app's files and the pipe have their types.
RestOK ==
  /\ workload \in Workloads /\ access \in Rights
  /\ listener \in {"off", "creating", "created", "waiting", "dead"}
  /\ listener = "off" <=> ~Alive(scm)
  /\ conn \in [Apps -> {"none", "raced", "pending", "broken"} \cup Answers]
  /\ token_file \in Apps \cup {NoToken, OldToken}
  /\ elevation_failed \in [Apps -> SUBSET Pids] /\ mints \in 0..2
  /\ overtaken \in BOOLEAN

BridgeInv ==
  /\ ScmOK /\ CommandsOK /\ RestOK
  /\ ScriptsOK /\ ConnOK /\ OneToken /\ Marked /\ Looked

-----------------------------------------------------------------------------

(* What one step does to the commands *)

OthersStay(a) == \A b \in Apps \ {a} : command'[b] = command[b]

\* The command of a is as it was, at another place.
Goes(a, at) ==
  /\ command' \in CommandTable /\ OthersStay(a)
  /\ command'[a] # Idle /\ command'[a] \in Commands
  /\ command'[a].op = command[a].op /\ command'[a].pid = command[a].pid
  /\ command'[a].token = command[a].token /\ command'[a].made = command[a].made
  /\ command'[a].handled = command[a].handled
  /\ command'[a].applied = command[a].applied
  /\ command'[a].at = at

Ended(a) == command' \in CommandTable /\ OthersStay(a) /\ command'[a] = Idle

Ats == {"begun", "queried", "once", "twice", "stopped", "present", "gone",
        "token", "mint", "minting", "connect", "reading", "fallback", "waiting",
        "done", "refused", "timed out", "ok", "failed"}

LEMMA PutEffect ==
  ASSUME CommandsOK, NEW a \in Apps, NEW c \in Commands,
         command' = [command EXCEPT ![a] = c]
  PROVE  command' \in CommandTable /\ OthersStay(a) /\ command'[a] = c /\ c # Idle
BY BridgeAssumption DEF CommandsOK, CommandTable, OthersStay

LEMMA GotoEffect ==
  ASSUME CommandsOK, NEW a \in Apps, command[a] # Idle, NEW at \in Ats, Goto(a, at)
  PROVE  Goes(a, at)
<1> DEFINE c == [command[a] EXCEPT !.at = at]
<1>1. command[a] \in Commands /\ command' = [command EXCEPT ![a] = c]
  BY DEF CommandsOK, CommandTable, Goto
<1>2. /\ c \in Commands /\ c.at = at /\ c.op = command[a].op
      /\ c.pid = command[a].pid /\ c.token = command[a].token
      /\ c.made = command[a].made /\ c.handled = command[a].handled
      /\ c.applied = command[a].applied
  BY <1>1 DEF Commands, Ats
<1> HIDE DEF c
<1> QED BY <1>1, <1>2, PutEffect DEF Goes

LEMMA MadeEffect ==
  ASSUME CommandsOK, NEW a \in Apps, command[a] # Idle, NEW at \in Ats,
         NEW made \in {"yes", "declined"},
         command' = [command EXCEPT ![a].made = made, ![a].at = at]
  PROVE  /\ command' \in CommandTable /\ OthersStay(a)
         /\ command'[a] # Idle /\ command'[a] \in Commands
         /\ command'[a].op = command[a].op /\ command'[a].pid = command[a].pid
         /\ command'[a].token = command[a].token /\ command'[a].made = made
         /\ command'[a].handled = command[a].handled
         /\ command'[a].applied = command[a].applied
         /\ command'[a].at = at
<1> DEFINE c == [command[a] EXCEPT !.made = made, !.at = at]
<1>1. command[a] \in Commands /\ command' = [command EXCEPT ![a] = c]
  BY DEF CommandsOK, CommandTable, Commands
<1>2. /\ c \in Commands /\ c.at = at /\ c.op = command[a].op
      /\ c.pid = command[a].pid /\ c.token = command[a].token
      /\ c.made = made /\ c.handled = command[a].handled
      /\ c.applied = command[a].applied
  BY <1>1 DEF Commands, Ats
<1> HIDE DEF c
<1> QED BY <1>1, <1>2, PutEffect

LEMMA FinishEffect ==
  ASSUME CommandsOK, NEW a \in Apps, Finish(a)
  PROVE  Ended(a)
BY DEF CommandsOK, CommandTable, Finish, Ended, OthersStay

\* A command that goes on stays in order, unless it succeeds by that.
LEMMA GoesOK ==
  ASSUME CommandsOK, NEW a \in Apps, command[a] # Idle, NEW at \in Ats, Goes(a, at),
         \/ command[a].op \in Changes
              /\ at \in {"token", "mint", "minting", "connect", "reading", "fallback",
                         "waiting", "refused", "timed out", "failed"}
         \/ command[a].op \in {"ping", "apply"}
              /\ at \in {"token", "mint", "minting", "connect", "reading",
                         "fallback", "failed"}
         \/ command[a].op \in ServiceOps /\ at \in Beyond
         \/ command[a].op \in {"uninstall", "start", "stop"}
              /\ at \in {"queried", "once", "twice", "stopped"},
         command[a].at # "ok"
  PROVE  CommandOK(command'[a])
<1>1. CommandOK(command[a])
  BY DEF CommandsOK
<1> QED BY <1>1 DEF CommandOK, Goes, Beyond, ServiceOps, Changes, ProcessOps

\* The step of one app whose command is in order afterwards.
LEMMA CommandsNext ==
  ASSUME CommandsOK, NEW a \in Apps, command' \in CommandTable, OthersStay(a),
         command'[a] # Idle => CommandOK(command'[a]), scripts' \subseteq Scripts
  PROVE  CommandsOK'
<1>1. ASSUME NEW b \in Apps, command'[b] # Idle PROVE CommandOK(command'[b])
  <2>1. CASE b = a
    BY <1>1, <2>1
  <2>2. CASE b # a
    BY <1>1, <2>2 DEF CommandsOK, OthersStay
  <2> QED BY <2>1, <2>2
<1> QED BY <1>1 DEF CommandsOK, CommandTable

-----------------------------------------------------------------------------
(* A step of one app that asks for nothing *)

LEMMA ScriptsSame ==
  ASSUME ScriptsOK, NEW a \in Apps, OthersStay(a), UNCHANGED scripts,
         command[a] # Idle => command[a].at # "waiting",
         command'[a] # Idle => command'[a].at # "waiting"
  PROVE  ScriptsOK'
<1>1. \A s \in scripts : s.app # a
  BY DEF ScriptsOK
<1>2. \A s \in scripts : s.app \in Apps => command'[s.app] = command[s.app]
  BY <1>1 DEF OthersStay
<1>3. \A b \in Apps : command'[b] # Idle /\ command'[b].at = "waiting" =>
         command'[b] = command[b]
  BY DEF OthersStay
<1> QED BY <1>1, <1>2, <1>3 DEF ScriptsOK

LEMMA MarkedSame ==
  ASSUME Marked, NEW a \in Apps, OthersStay(a), UNCHANGED <<scm, marker, gave_up>>,
         overtaken => overtaken',
         \A s \in scripts' : s.app = Idle /\ s.op \in {"install", "delete"} =>
           s \in scripts,
         ~Settling(a, Beyond)
  PROVE  Marked'
<1>1. \A b \in Apps, ats \in SUBSET Beyond :
        Settling(b, ats) => b # a /\ Settling(b, ats)' /\ command'[b] = command[b]
  BY DEF Settling, OthersStay
<1> QED BY <1>1 DEF Marked, Beyond, Records, marker

LEMMA LookedSame ==
  ASSUME Looked, NEW a \in Apps, OthersStay(a), UNCHANGED <<scm, overtaken>>,
         command'[a] # Idle => command'[a].at \notin {"present", "gone"}
  PROVE  Looked'
BY DEF Looked, OthersStay

LEMMA ConnSame ==
  ASSUME ConnOK, NEW a \in Apps, OthersStay(a), UNCHANGED conn,
         ~Reading(a), ~Reading(a)'
  PROVE  ConnOK'
BY DEF ConnOK, OthersStay, Reading

\* Nobody comes to hold a token, or to make one.
LEMMA TokenSame ==
  ASSUME OneToken, NEW a \in Apps, OthersStay(a), UNCHANGED <<token_file, mints>>,
         mints <= 1 => \A b \in Apps : conn'[b] = "unauthorized" => conn[b] = "unauthorized",
         ~Holds(a, {"minting"})',
         Holds(a, {"connect", "reading"})' =>
           Holds(a, {"connect", "reading"}) /\ command'[a].token = command[a].token
  PROVE  OneToken'
<1>1. \A b \in Apps \ {a} : \A ats : Holds(b, ats)' <=> Holds(b, ats)
  BY DEF OthersStay, Holds
<1>2. \A b \in Apps \ {a} : command'[b].token = command[b].token
  BY DEF OthersStay
<1> QED BY <1>1, <1>2 DEF OneToken

(* What an apply counts *)

Before == {ss \in Nat \X Nat : ss[1] < ss[2]}

\* Induction over the naturals, for a set.
LEMMA InductionOnNat ==
  ASSUME NEW S, 0 \in S, \A n \in Nat : n \in S => n + 1 \in S
  PROVE  Nat \subseteq S
<1> SUFFICES ASSUME ~(Nat \subseteq S) PROVE FALSE
  OBVIOUS
<1>1. PICK n \in Nat \ S : \A m \in Nat \ S : ~(<<m, n>> \in Before)
  <2>1. Nat \ S \subseteq Nat /\ Nat \ S # {}
    OBVIOUS
  <2>2. IsWellFoundedOn(Before, Nat)
    <3>1. OpToRel(<, Nat) = Before
      BY DEF OpToRel, Before
    <3> QED BY <3>1, NatLessThanWellFounded
  <2> QED BY <2>1, <2>2, WFMin
<1>2. n # 0 /\ n - 1 \in Nat /\ n - 1 < n /\ (n - 1) + 1 = n
  BY <1>1
<1>3. <<n - 1, n>> \in Before
  BY <1>2 DEF Before
<1> QED BY <1>1, <1>2, <1>3

Upto(S, n) == {s \in SUBSET S : Cardinality(s) <= n}

First(s) == CHOOSE x \in s : TRUE

\* f adds up the rules of every set of at most n processes of S.
Sums(f, S, n) ==
  f = [s \in Upto(S, n) |->
         IF s = {} THEN 0 ELSE RulesOn[First(s)] + f[s \ {First(s)}]]

LEMMA Smaller ==
  ASSUME NEW S, IsFiniteSet(S), NEW n \in Nat, NEW s \in SUBSET S, s # {},
         Cardinality(s) <= n + 1
  PROVE  /\ First(s) \in s /\ s \ {First(s)} \in Upto(S, n)
         /\ Cardinality(s \ {First(s)}) = Cardinality(s) - 1
<1>1. First(s) \in s
  BY DEF First
<1>2. IsFiniteSet(s) /\ Cardinality(s) \in Nat
  BY FS_Subset, FS_CardinalityType
<1>3. Cardinality(s \ {First(s)}) = Cardinality(s) - 1
  BY <1>1, <1>2, FS_RemoveElement
<1> QED BY <1>1, <1>2, <1>3 DEF Upto

LEMMA SumsExist ==
  ASSUME NEW S, IsFiniteSet(S), NEW n \in Nat
  PROVE  \E f : Sums(f, S, n)
<1> DEFINE N == {m \in Nat : \E f : Sums(f, S, m)}
<1>1. 0 \in N
  <2> DEFINE f == [s \in Upto(S, 0) |-> 0]
  <2>1. \A s \in Upto(S, 0) : s = {}
    <3> TAKE s \in Upto(S, 0)
    <3>1. IsFiniteSet(s) /\ Cardinality(s) \in Nat /\ Cardinality(s) <= 0
      BY FS_Subset, FS_CardinalityType DEF Upto
    <3> QED BY <3>1, FS_EmptySet
  <2>2. Sums(f, S, 0)
    BY <2>1 DEF Sums
  <2> QED BY <2>2
<1>2. ASSUME NEW m \in Nat, m \in N PROVE m + 1 \in N
  <2>1. PICK f : Sums(f, S, m)
    BY <1>2
  <2> DEFINE g == [s \in Upto(S, m + 1) |->
                     IF s \in Upto(S, m) THEN f[s]
                     ELSE RulesOn[First(s)] + f[s \ {First(s)}]]
  <2>2. ASSUME NEW s \in Upto(S, m + 1)
        PROVE  g[s] = IF s = {} THEN 0 ELSE RulesOn[First(s)] + g[s \ {First(s)}]
    <3>1. CASE s = {}
      <4>1. s \in Upto(S, m)
        BY <3>1, FS_EmptySet DEF Upto
      <4> QED BY <2>1, <3>1, <4>1 DEF Sums
    <3>2. CASE s # {}
      <4> DEFINE t == s \ {First(s)}
      <4>1. t \in Upto(S, m) /\ t \in Upto(S, m + 1)
        <5>1. s \in SUBSET S /\ Cardinality(s) <= m + 1
          BY DEF Upto
        <5>2. t \in Upto(S, m)
          BY <3>2, <5>1, Smaller
        <5>3. t \in SUBSET S /\ Cardinality(t) \in Nat /\ Cardinality(t) <= m
          BY <5>2, FS_Subset, FS_CardinalityType DEF Upto
        <5> QED BY <5>2, <5>3 DEF Upto
      <4>2. g[t] = f[t]
        BY <4>1
      <4>3. s \in Upto(S, m) => f[s] = RulesOn[First(s)] + f[t]
        BY <2>1, <3>2 DEF Sums
      <4> HIDE DEF t
      <4>4. g[s] = RulesOn[First(s)] + f[t]
        BY <4>3 DEF t
      <4> QED BY <3>2, <4>2, <4>4 DEF t
    <3> QED BY <3>1, <3>2
  <2>3. Sums(g, S, m + 1)
    BY <2>2 DEF Sums
  <2> QED BY <2>3
<1> HIDE DEF N
<1>3. n \in N
  BY <1>1, <1>2, InductionOnNat
<1> QED BY <1>3 DEF N

LEMMA SumsBounded ==
  ASSUME NEW S \in SUBSET Pids, IsFiniteSet(S), NEW n \in Nat, NEW f, Sums(f, S, n),
         NEW s \in Upto(S, n)
  PROVE  /\ f[s] \in Nat
         /\ (\A p \in Pids : RulesOn[p] <= 1) => f[s] <= Cardinality(s)
<1> DEFINE OK == {t \in Upto(S, n) :
                    /\ f[t] \in Nat
                    /\ (\A p \in Pids : RulesOn[p] <= 1) => f[t] <= Cardinality(t)}
           N == {m \in Nat : \A t \in Upto(S, n) : Cardinality(t) <= m => t \in OK}
<1>1. ASSUME NEW t \in Upto(S, n)
      PROVE  t \in SUBSET S /\ IsFiniteSet(t) /\ Cardinality(t) \in Nat
  BY FS_Subset, FS_CardinalityType DEF Upto
<1>2. {} \in OK
  <2>1. {} \in Upto(S, n) /\ f[{}] = 0 /\ Cardinality({}) = 0
    BY FS_EmptySet DEF Sums, Upto
  <2> QED BY <2>1
<1>3. 0 \in N
  <2> HIDE DEF OK
  <2>1. \A t \in Upto(S, n) : Cardinality(t) <= 0 => t = {}
    BY <1>1, FS_EmptySet
  <2> QED BY <1>2, <2>1
<1>4. ASSUME NEW m \in Nat, m \in N PROVE m + 1 \in N
  <2>0. SUFFICES ASSUME NEW t \in Upto(S, n), Cardinality(t) <= m + 1, t # {}
                 PROVE  t \in OK
    <3> HIDE DEF OK
    <3> QED BY <1>2
  <2> DEFINE x == First(t)
             u == t \ {x}
  <2>1. x \in t /\ Cardinality(u) = Cardinality(t) - 1
    BY <1>1, <2>0, Smaller
  <2>2. u \in Upto(S, n) /\ Cardinality(u) <= m
    BY <1>1, <2>0, <2>1 DEF Upto
  <2>3. u \in OK
    <3> HIDE DEF OK, u
    <3> QED BY <1>4, <2>2
  <2>4. RulesOn[x] \in Nat /\ x \in Pids
    BY <1>1, <2>1, BridgeAssumption
  <2>5. f[t] = RulesOn[x] + f[u]
    BY <2>0 DEF Sums
  <2> HIDE DEF u, x
  <2> QED BY <1>1, <2>0, <2>1, <2>3, <2>4, <2>5
<1> HIDE DEF N
<1>5. Cardinality(s) \in N
  BY <1>1, <1>3, <1>4, InductionOnNat
<1> QED BY <1>1, <1>5 DEF N

\* What apply_affinity_rules counts of a set of processes.
Sum(S) == MapThenSumSet(LAMBDA p : RulesOn[p], S)

LEMMA SumBounded ==
  ASSUME NEW S \in SUBSET Pids
  PROVE  /\ Sum(S) \in Nat
         /\ (\A p \in Pids : RulesOn[p] <= 1) => Sum(S) <= Cardinality(S)
<1>1. IsFiniteSet(S) /\ Cardinality(S) \in Nat
  BY BridgeAssumption, FS_Subset, FS_CardinalityType
<1>2. Upto(S, Cardinality(S)) = SUBSET S
  <2>1. ASSUME NEW s \in SUBSET S PROVE Cardinality(s) <= Cardinality(S)
    BY <1>1, FS_Subset
  <2> QED BY <2>1 DEF Upto
<1> DEFINE h == CHOOSE f : f = [s \in SUBSET S |->
                  IF s = {} THEN 0 ELSE RulesOn[First(s)] + f[s \ {First(s)}]]
<1>3. Sum(S) = h[S]
  BY DEF Sum, MapThenSumSet, MapThenFoldSet, First
<1>4. PICK f : Sums(f, S, Cardinality(S))
  BY <1>1, SumsExist
<1>5. Sums(h, S, Cardinality(S))
  BY <1>2, <1>4 DEF Sums
<1> HIDE DEF h
<1>6. S \in Upto(S, Cardinality(S))
  BY <1>2
<1> QED BY <1>1, <1>3, <1>5, <1>6, SumsBounded


-----------------------------------------------------------------------------
(* The steps of an app on its own *)

AtToken == {"mint", "minting", "connect", "reading"}

\* A step that concerns neither the service nor a script.
LEMMA CalmStep ==
  ASSUME BridgeInv, NEW a \in Apps, command' \in CommandTable, OthersStay(a),
         command[a] # Idle => command[a].at # "waiting",
         command'[a] # Idle =>
           /\ CommandOK(command'[a])
           /\ command'[a].at \notin {"waiting", "present", "gone"},
         ~Settling(a, Beyond), UNCHANGED <<scm, marker, gave_up, overtaken, scripts>>
  PROVE  ScmOK' /\ CommandsOK' /\ ScriptsOK' /\ Marked' /\ Looked'
<1>1. ScmOK'
  BY DEF BridgeInv, ScmOK, marker
<1>2. CommandsOK'
  BY CommandsNext DEF BridgeInv, CommandsOK
<1>3. ScriptsOK'
  BY ScriptsSame DEF BridgeInv
<1>4. Marked'
  BY MarkedSame DEF BridgeInv
<1>5. Looked'
  BY LookedSame DEF BridgeInv
<1> QED BY <1>1, <1>2, <1>3, <1>4, <1>5

LEMMA RestSame ==
  ASSUME RestOK, UNCHANGED <<scm, overtaken, workload, access, listener, conn, token_file,
                             elevation_failed, mints>>
  PROVE  RestOK'
BY DEF RestOK, Alive

\* A step that concerns neither the pipe nor the token either.
LEMMA LocalStep ==
  ASSUME BridgeInv, NEW a \in Apps, command' \in CommandTable, OthersStay(a),
         command[a] # Idle => command[a].at # "waiting",
         command'[a] # Idle =>
           /\ CommandOK(command'[a])
           /\ command'[a].at \notin {"waiting", "present", "gone"},
         ~Settling(a, Beyond), UNCHANGED <<scm, marker, gave_up, overtaken, scripts>>,
         UNCHANGED <<conn, token_file, mints>>, RestOK',
         ~Holds(a, AtToken), ~Holds(a, AtToken)'
  PROVE  BridgeInv'
<1>1. ~Reading(a) /\ ~Reading(a)'
  BY DEF Holds, Reading, AtToken
<1>2. ConnOK'
  BY <1>1, ConnSame DEF BridgeInv
<1>3. ~Holds(a, {"minting"})' /\ ~Holds(a, {"connect", "reading"})'
  BY DEF Holds, AtToken
<1>4. OneToken'
  BY <1>3, TokenSame DEF BridgeInv
<1> QED BY <1>2, <1>4, CalmStep DEF BridgeInv

LEMMA BeginNext ==
  ASSUME BridgeInv, NEW a \in Apps, Begin(a) PROVE BridgeInv'
<1>1. PICK op \in workload[a], pid \in Pids \cup {NoPid} :
        /\ pid = NoPid <=> op \notin Changes
        /\ command' = [command EXCEPT
             ![a] = [op |-> op, pid |-> pid, token |-> NoToken, made |-> "no",
                     handled |-> {}, applied |-> 0,
                     at |-> IF op = "ping" THEN "token" ELSE "begun"]]
  BY DEF Begin
<1>2. op \in ProcessOps \cup ServiceOps
  <2>1. workload \in [Apps -> SUBSET (ProcessOps \cup ServiceOps)]
    BY BridgeAssumption DEF BridgeInv, RestOK
  <2> QED BY <2>1
<1> DEFINE c == [op |-> op, pid |-> pid, token |-> NoToken, made |-> "no",
                 handled |-> {}, applied |-> 0,
                 at |-> IF op = "ping" THEN "token" ELSE "begun"]
<1>3. /\ c \in Commands /\ c.at \in {"token", "begun"}
      /\ c.op = op /\ c.pid = pid /\ c.handled = {} /\ c.applied = 0
      /\ c.op \in {"ping"} \/ c.at = "begun"
  BY <1>1, <1>2 DEF Commands
<1>4. command' = [command EXCEPT ![a] = c]
  BY <1>1
<1> HIDE DEF c
<1>5. CommandOK(c)
  <2>1. c.op \in Changes <=> c.pid \in Pids
    BY <1>1, <1>3, BridgeAssumption
  <2>2. c.handled \subseteq Matched /\ c.applied <= Cardinality(c.handled)
    BY <1>3, FS_EmptySet
  <2> QED BY <1>2, <1>3, <2>1, <2>2
          DEF CommandOK, Beyond, ServiceOps, ProcessOps, Changes
<1>6. command' \in CommandTable /\ OthersStay(a) /\ command'[a] = c /\ c # Idle
  BY <1>3, <1>4, PutEffect DEF BridgeInv
<1>7. /\ command[a] = Idle
      /\ UNCHANGED <<scm, marker, gave_up, overtaken, workload, access, scripts, listener, conn,
                     token_file, elevation_failed, mints>>
  BY DEF Begin, AppUnchanged
<1>8. ~Settling(a, Beyond) /\ ~Holds(a, AtToken) /\ ~Holds(a, AtToken)'
  BY <1>3, <1>6, <1>7 DEF Settling, Holds, AtToken
<1>9. RestOK'
  BY <1>7, RestSame DEF BridgeInv
<1> QED BY <1>3, <1>5, <1>6, <1>7, <1>8, <1>9, LocalStep

\* The command of a process operation that works on its own.
Working(a, at) ==
  /\ command[a] # Idle /\ command[a] \in Commands /\ CommandOK(command[a])
  /\ command[a].op \in ProcessOps /\ command[a].at = at
  /\ ~Settling(a, Beyond)

LEMMA AtWorking ==
  ASSUME BridgeInv, NEW a \in Apps, NEW at, NEW op \in ProcessOps, At(a, op, {at})
  PROVE  Working(a, at) /\ command[a].op = op
BY DEF BridgeInv, CommandsOK, CommandTable, At, Working, Settling, ProcessOps, Changes

LEMMA ReturnNext ==
  ASSUME BridgeInv, NEW a \in Apps, Return(a) PROVE BridgeInv'
<1>1. PICK op \in ProcessOps, at \in {"ok", "failed"} : At(a, op, {at})
  BY DEF Return, At
<1>2. Working(a, at)
  BY <1>1, AtWorking
<1>3. Ended(a)
  BY FinishEffect DEF Return, BridgeInv
<1>4. UNCHANGED <<scm, marker, gave_up, overtaken, workload, access, scripts, listener, conn,
                  token_file, elevation_failed, mints>>
  BY DEF Return, AppUnchanged
<1>5. ~Holds(a, AtToken) /\ ~Holds(a, AtToken)'
  BY <1>2, <1>3 DEF Holds, AtToken, Working, Ended
<1>6. RestOK'
  BY <1>4, RestSame DEF BridgeInv
<1> QED BY <1>2, <1>3, <1>4, <1>5, <1>6, LocalStep DEF Ended, Working

LEMMA LocalNext ==
  ASSUME BridgeInv, NEW a \in Apps, Local(a) PROVE BridgeInv'
<1>1. PICK op \in Changes : At(a, op, {"begun"})
  BY DEF Local
<1>2. Working(a, "begun") /\ command[a].op \in Changes
  BY <1>1, AtWorking DEF ProcessOps
<1>3. UNCHANGED <<scm, marker, gave_up, overtaken, workload, access, scripts, listener, conn,
                  token_file, elevation_failed, mints>>
  BY DEF Local, AppUnchanged
<1>4. CommandsOK /\ RestOK'
  BY <1>3, RestSame DEF BridgeInv
<1>5. ASSUME NEW at \in {"ok", "failed", "token"},
             command' \in CommandTable, OthersStay(a), command'[a].at = at,
             CommandOK(command'[a])
      PROVE  BridgeInv'
  <2>1. ~Holds(a, AtToken) /\ ~Holds(a, AtToken)'
    BY <1>2, <1>5 DEF Holds, AtToken, Working
  <2> QED BY <1>2, <1>3, <1>4, <1>5, <2>1, LocalStep DEF Working
<1>6. CASE MadeThen(a, "ok")
  <2>1. /\ command' \in CommandTable /\ OthersStay(a)
        /\ command'[a].op = command[a].op /\ command'[a].pid = command[a].pid
        /\ command'[a].made = "yes" /\ command'[a].at = "ok"
    BY <1>2, <1>4, <1>6, MadeEffect DEF Working, Ats, MadeThen
  <2>2. CommandOK(command'[a])
    BY <1>2, <2>1 DEF Working, CommandOK, Changes, ServiceOps, Beyond
  <2> QED BY <1>5, <2>1, <2>2
<1>7. ASSUME NEW at \in {"failed", "token"}, Goto(a, at) PROVE BridgeInv'
  <2>1. Goes(a, at)
    BY <1>2, <1>4, <1>7, GotoEffect DEF Working, Ats
  <2>2. CommandOK(command'[a])
    BY <1>2, <1>4, <2>1, GoesOK DEF Working, Ats
  <2> QED BY <1>5, <2>1, <2>2 DEF Goes
<1> QED BY <1>6, <1>7 DEF Local

LEMMA ApplyLocallyNext ==
  ASSUME BridgeInv, NEW a \in Apps, ApplyLocally(a) PROVE BridgeInv'
<1>1. Working(a, "begun") /\ command[a].op = "apply"
  BY AtWorking DEF ApplyLocally, ProcessOps
<1> DEFINE mine == {p \in Matched : access[p] = "open"}
           at == IF mine = Matched THEN "ok" ELSE "token"
           c == [command[a] EXCEPT !.handled = mine, !.applied = Sum(mine),
                                   !.at = at]
<1>2. command' = [command EXCEPT ![a].handled = mine, ![a].applied = Sum(mine),
                                 ![a].at = at]
  BY DEF ApplyLocally, Sum
<1>3. /\ mine \in SUBSET Pids /\ Sum(mine) \in Nat
      /\ (\A p \in Pids : RulesOn[p] <= 1) => Sum(mine) <= Cardinality(mine)
  <2>1. mine \in SUBSET Pids
    BY DEF Matched
  <2> QED BY <2>1, SumBounded
<1>4. at \in {"ok", "token"} /\ mine \subseteq Matched /\ (at = "ok" => mine = Matched)
  OBVIOUS
<1> HIDE DEF mine, at
<1>5. /\ c \in Commands /\ c.op = "apply" /\ c.at = at /\ c.pid = command[a].pid
      /\ c.handled = mine /\ c.applied = Sum(mine)
  BY <1>1, <1>3, <1>4 DEF Commands, Working
<1>6. command' = [command EXCEPT ![a] = c]
  BY <1>1, <1>2 DEF BridgeInv, CommandsOK, CommandTable, Working, Commands
<1> HIDE DEF c
<1>7. command' \in CommandTable /\ OthersStay(a) /\ command'[a] = c /\ c # Idle
  BY <1>5, <1>6, PutEffect DEF BridgeInv
<1>8. CommandOK(c)
  BY <1>1, <1>3, <1>4, <1>5
     DEF CommandOK, Working, ServiceOps, Changes, Beyond
<1>9. UNCHANGED <<scm, marker, gave_up, overtaken, workload, access, scripts, listener, conn,
                  token_file, elevation_failed, mints>>
  BY DEF ApplyLocally, AppUnchanged
<1>10. ~Holds(a, AtToken) /\ ~Holds(a, AtToken)' /\ c.at \notin {"waiting", "present", "gone"}
  BY <1>1, <1>4, <1>5, <1>7 DEF Holds, AtToken, Working
<1>11. RestOK'
  BY <1>9, RestSame DEF BridgeInv
<1> QED BY <1>1, <1>7, <1>8, <1>9, <1>10, <1>11, LocalStep DEF Working


-----------------------------------------------------------------------------
(* The app, the token and the pipe *)

\* How the other commands stand with the token does not change.
LEMMA OthersHold ==
  ASSUME NEW a \in Apps, OthersStay(a), NEW b \in Apps \ {a}
  PROVE  /\ \A ats : Holds(b, ats)' <=> Holds(b, ats)
         /\ Reading(b)' <=> Reading(b)
         /\ command'[b] = command[b]
BY DEF OthersStay, Holds, Reading

LEMMA SendEffect ==
  ASSUME CommandsOK, NEW a \in Apps, Working(a, command[a].at),
         command[a].at \in {"token", "minting"},
         NEW t \in Apps \cup {NoToken, OldToken}, Send(a, t)
  PROVE  /\ command' \in CommandTable /\ OthersStay(a) /\ command'[a] # Idle
         /\ command'[a].op = command[a].op /\ command'[a].token = t
         /\ command'[a].at = "connect" /\ CommandOK(command'[a])
<1> DEFINE c == [command[a] EXCEPT !.at = "connect", !.token = t]
<1>1. /\ c \in Commands /\ c.at = "connect" /\ c.token = t
      /\ c.op = command[a].op /\ c.pid = command[a].pid
      /\ c.made = command[a].made /\ c.handled = command[a].handled
      /\ c.applied = command[a].applied
  BY DEF Working, Commands
<1>2. command' = [command EXCEPT ![a] = c]
  BY DEF Send, CommandsOK, CommandTable, Working, Commands
<1> HIDE DEF c
<1>3. CommandOK(c)
  BY <1>1 DEF Working, CommandOK, ServiceOps, Beyond, ProcessOps, Changes
<1> QED BY <1>1, <1>2, <1>3, PutEffect

\* An app that has no token yet goes on without one.
LEMMA TokenlessNext ==
  ASSUME BridgeInv, NEW a \in Apps, NEW at \in {"token", "mint", "minting"},
         Working(a, at), NEW new \in {"mint", "fallback"}, Goto(a, new),
         UNCHANGED <<scm, marker, gave_up, overtaken, workload, access, scripts,
                     listener, conn, token_file, elevation_failed, mints>>
  PROVE  BridgeInv'
<1>1. CommandsOK /\ ConnOK /\ OneToken /\ RestOK'
  BY RestSame DEF BridgeInv
<1>2. Goes(a, new)
  BY <1>1, GotoEffect DEF Working, Ats
<1>3. CommandOK(command'[a])
  BY <1>1, <1>2, GoesOK DEF Working, Ats, ProcessOps
<1>4. /\ ~Reading(a) /\ ~Reading(a)' /\ ~Holds(a, {"minting"})'
      /\ ~Holds(a, {"connect", "reading"})'
  BY <1>2 DEF Reading, Holds, Goes, Working
<1>5. ConnOK'
  BY <1>1, <1>2, <1>4, ConnSame DEF Goes
<1>6. OneToken'
  BY <1>1, <1>2, <1>4, TokenSame DEF Goes
<1> QED BY <1>1, <1>2, <1>3, <1>5, <1>6, CalmStep DEF BridgeInv, Goes, Working

LEMMA ReadTokenNext ==
  ASSUME BridgeInv, NEW a \in Apps, ReadToken(a) PROVE BridgeInv'
<1>1. Working(a, "token")
  BY AtWorking DEF ReadToken, AtPipe
<1>2. UNCHANGED <<scm, marker, gave_up, overtaken, workload, access, scripts, listener,
                  conn, token_file, elevation_failed, mints>>
  BY DEF ReadToken, ClientUnchanged, AppUnchanged
<1>3. CommandsOK /\ ConnOK /\ OneToken /\ RestOK /\ RestOK'
  BY <1>2, RestSame DEF BridgeInv
<1>4. CASE Goto(a, "mint")
  BY <1>1, <1>2, <1>4, TokenlessNext
<1>5. CASE token_file # NoToken /\ Send(a, token_file)
  <2>1. token_file \in Apps \cup {NoToken, OldToken}
    BY <1>3 DEF RestOK
  <2>2. /\ command' \in CommandTable /\ OthersStay(a) /\ command'[a] # Idle
        /\ command'[a].op = command[a].op /\ command'[a].token = token_file
        /\ command'[a].at = "connect" /\ CommandOK(command'[a])
    BY <1>1, <1>3, <1>5, <2>1, SendEffect DEF Working
  <2>3. ~Reading(a) /\ ~Reading(a)' /\ ~Holds(a, {"minting"})'
    BY <1>1, <2>2 DEF Reading, Holds, Working
  <2>4. ConnOK'
    BY <1>2, <1>3, <2>2, <2>3, ConnSame
  <2>5. OneToken'
    BY <1>2, <1>3, <1>5, <2>2, <2>3, OthersHold DEF OneToken
  <2> QED BY <1>1, <1>2, <1>3, <2>2, <2>4, <2>5, CalmStep DEF BridgeInv, Working
<1> QED BY <1>4, <1>5 DEF ReadToken

LEMMA MintNext ==
  ASSUME BridgeInv, NEW a \in Apps, Mint(a) PROVE BridgeInv'
<1>1. Working(a, "mint")
  BY AtWorking DEF Mint, AtPipe
<1>2. UNCHANGED <<scm, marker, gave_up, overtaken, workload, access, scripts, listener,
                  conn, elevation_failed>>
  BY DEF Mint, ClientUnchanged, AppUnchanged
<1>3. CommandsOK /\ ConnOK /\ OneToken /\ RestOK
  BY DEF BridgeInv
<1>4. CASE Goto(a, "fallback") /\ UNCHANGED <<token_file, mints>>
  BY <1>1, <1>2, <1>4, TokenlessNext
<1>5. CASE /\ Goto(a, "minting") /\ token_file' = NoToken
           /\ mints' = (IF mints = 0 THEN 1 ELSE 2)
  <2>1. RestOK'
    BY <1>2, <1>3, <1>5 DEF RestOK, Alive
  <2>2. Goes(a, "minting")
    BY <1>1, <1>3, <1>5, GotoEffect DEF Working, Ats
  <2>3. CommandOK(command'[a])
    BY <1>1, <1>3, <2>2, GoesOK DEF Working, Ats, ProcessOps
  <2>4. ~Reading(a) /\ ~Reading(a)' /\ ~Holds(a, {"connect", "reading"})'
    BY <1>1, <2>2 DEF Working, Reading, Holds, Goes
  <2>5. ConnOK'
    BY <1>2, <1>3, <2>2, <2>4, ConnSame DEF Goes
  <2>6. OneToken'
    <3>1. CASE mints = 0
      <4>1. \A b \in Apps : ~Holds(b, {"connect", "reading"}) /\ ~Holds(b, {"minting"})
        BY <1>3, <3>1 DEF OneToken
      <4>2. /\ \A b \in Apps : ~Holds(b, {"connect", "reading"})'
            /\ \A b \in Apps \ {a} : ~Holds(b, {"minting"})'
        BY <2>2, <2>4, <4>1, OthersHold DEF Goes
      <4> QED BY <1>2, <1>3, <1>5, <3>1, <4>2 DEF OneToken
    <3>2. CASE mints # 0
      BY <1>5, <3>2 DEF OneToken
    <3> QED BY <3>1, <3>2
  <2> QED BY <1>1, <1>2, <2>1, <2>2, <2>3, <2>5, <2>6, CalmStep
          DEF BridgeInv, Goes, Working
<1> QED BY <1>4, <1>5 DEF Mint

LEMMA WriteTokenNext ==
  ASSUME BridgeInv, NEW a \in Apps, WriteToken(a) PROVE BridgeInv'
<1>1. Working(a, "minting")
  BY AtWorking DEF WriteToken, AtPipe
<1>2. UNCHANGED <<scm, marker, gave_up, overtaken, workload, access, scripts, listener,
                  conn, elevation_failed, mints>>
  BY DEF WriteToken, ClientUnchanged, AppUnchanged
<1>3. CommandsOK /\ ConnOK /\ OneToken /\ RestOK
  BY DEF BridgeInv
<1>4. CASE Goto(a, "fallback") /\ UNCHANGED token_file
  BY <1>1, <1>2, <1>4, TokenlessNext
<1>5. CASE Send(a, a) /\ token_file' = a
  <2>1. RestOK'
    BY <1>2, <1>3, <1>5 DEF RestOK, Alive
  <2>2. /\ command' \in CommandTable /\ OthersStay(a) /\ command'[a] # Idle
        /\ command'[a].op = command[a].op /\ command'[a].token = a
        /\ command'[a].at = "connect" /\ CommandOK(command'[a])
    BY <1>1, <1>3, <1>5, SendEffect DEF Working
  <2>3. ~Reading(a) /\ ~Reading(a)' /\ Holds(a, {"minting"}) /\ ~Holds(a, {"minting"})'
    BY <1>1, <2>2 DEF Working, Reading, Holds
  <2>4. ConnOK'
    BY <1>2, <1>3, <2>2, <2>3, ConnSame
  <2>5. OneToken'
    <3>1. ASSUME mints <= 1
          PROVE  /\ mints = 1 /\ a # NoToken
                 /\ \A b \in Apps : ~Holds(b, {"connect", "reading"})
                 /\ \A b \in Apps \ {a} : ~Holds(b, {"minting"})
      BY <1>3, <2>3, <3>1, BridgeAssumption DEF OneToken
    <3>2. ASSUME mints <= 1
          PROVE  /\ \A b \in Apps \ {a} : ~Holds(b, {"connect", "reading"})'
                 /\ \A b \in Apps : ~Holds(b, {"minting"})'
      BY <2>2, <2>3, <3>1, <3>2, OthersHold
    <3> QED BY <1>2, <1>3, <1>5, <2>2, <3>1, <3>2 DEF OneToken
  <2> QED BY <1>1, <1>2, <2>1, <2>2, <2>4, <2>5, CalmStep DEF BridgeInv, Working
<1> QED BY <1>4, <1>5 DEF WriteToken

LEMMA ConnectNext ==
  ASSUME BridgeInv, NEW a \in Apps, Connect(a) PROVE BridgeInv'
<1>1. Working(a, "connect")
  BY AtWorking DEF Connect, AtPipe
<1>2. UNCHANGED <<scm, marker, gave_up, overtaken, workload, access, scripts, token_file,
                  elevation_failed, mints>>
  BY DEF Connect, ClientUnchanged, AppUnchanged
<1>3. CommandsOK /\ ConnOK /\ OneToken /\ RestOK
  BY DEF BridgeInv
<1>4. ~Reading(a) /\ Holds(a, {"connect", "reading"})
  BY <1>1 DEF Working, Reading, Holds
<1>5. ASSUME NEW at \in {"reading", "fallback"}, Goto(a, at),
             NEW k \in {"none", "raced", "pending"},
             conn' = [conn EXCEPT ![a] = k], at = "reading" <=> k # "none",
             listener' = listener \/ (listener = "waiting" /\ listener' = "creating")
      PROVE  BridgeInv'
  <2>1. Goes(a, at)
    BY <1>1, <1>3, <1>5, GotoEffect DEF Working, Ats
  <2>2. CommandOK(command'[a])
    BY <1>1, <1>3, <2>1, GoesOK DEF Working, Ats, ProcessOps
  <2>3. conn'[a] = k /\ \A b \in Apps \ {a} : conn'[b] = conn[b]
    BY <1>3, <1>5 DEF RestOK
  <2>4. ConnOK'
    BY <1>1, <1>3, <1>5, <2>1, <2>3, OthersHold DEF ConnOK, Goes, Reading, Working
  <2>5. RestOK'
    BY <1>2, <1>3, <1>5 DEF RestOK, Alive
  <2>6. /\ ~Holds(a, {"minting"})' /\ command'[a].token = command[a].token
        /\ \A b \in Apps : conn'[b] = "unauthorized" => conn[b] = "unauthorized"
    BY <2>1, <2>3 DEF Holds, Goes
  <2>7. OneToken'
    BY <1>2, <1>3, <1>4, <2>1, <2>6, TokenSame DEF Goes
  <2> QED BY <1>1, <1>2, <2>1, <2>2, <2>4, <2>5, <2>7, CalmStep
          DEF BridgeInv, Goes, Working
<1>6. conn[a] = "none" /\ conn = [conn EXCEPT ![a] = "none"]
  BY <1>3, <1>4 DEF ConnOK, RestOK
<1>7. \/ /\ Goto(a, "reading")
         /\ \E k \in {"raced", "pending"} : conn' = [conn EXCEPT ![a] = k]
         /\ listener' = listener \/ (listener = "waiting" /\ listener' = "creating")
      \/ Goto(a, "fallback") /\ UNCHANGED <<conn, listener>>
  BY DEF Connect
<1> QED BY <1>5, <1>6, <1>7

\* What the service has applied rules to and the app has not is counted once.
LEMMA NewOnes ==
  ASSUME NEW mine \in SUBSET Matched, NEW theirs \in SUBSET Matched, NEW n \in Nat,
         n <= Cardinality(mine)
  PROVE  /\ n + Cardinality(theirs \ mine) \in Nat
         /\ n + Cardinality(theirs \ mine) <= Cardinality(Matched)
<1> DEFINE new == theirs \ mine
<1>1. IsFiniteSet(Matched)
  BY BridgeAssumption, FS_Subset DEF Matched
<1>2. /\ IsFiniteSet(mine) /\ IsFiniteSet(new) /\ IsFiniteSet(mine \cup new)
      /\ Cardinality(mine \cup new) <= Cardinality(Matched)
  <2>1. new \in SUBSET Matched /\ (mine \cup new) \in SUBSET Matched
    OBVIOUS
  <2> QED BY <1>1, <2>1, FS_Subset
<1>3. mine \cap new = {} /\ Cardinality({}) = 0
  BY FS_EmptySet
<1> HIDE DEF new
<1>4. Cardinality(mine \cup new)
        = Cardinality(mine) + Cardinality(new) - Cardinality(mine \cap new)
  BY <1>2, FS_Union
<1>5. /\ Cardinality(mine) \in Nat /\ Cardinality(new) \in Nat
      /\ Cardinality(Matched) \in Nat
  BY <1>1, <1>2, FS_CardinalityType
<1> QED BY <1>2, <1>3, <1>4, <1>5 DEF new

LEMMA ReadReplyNext ==
  ASSUME BridgeInv, NEW a \in Apps, ReadReply(a) PROVE BridgeInv'
<1>1. Working(a, "reading")
  BY AtWorking DEF ReadReply, AtPipe
<1>2. /\ UNCHANGED <<scm, marker, gave_up, overtaken, workload, access, scripts, listener,
                     token_file, elevation_failed, mints>>
      /\ conn' = [conn EXCEPT ![a] = "none"]
  BY DEF ReadReply, ClientUnchanged, AppUnchanged
<1>3. CommandsOK /\ ConnOK /\ OneToken /\ RestOK
  BY DEF BridgeInv
<1> DEFINE at == IF conn[a] = "ok" THEN "ok" ELSE "fallback"
           n == command[a].applied + Cardinality(Theirs(a) \ command[a].handled)
           c == [command[a] EXCEPT !.applied = n, !.at = at]
<1>4. /\ Theirs(a) \in SUBSET Matched
      /\ conn[a] # "ok" \/ command[a].op # "apply" => Theirs(a) = {}
  BY DEF Theirs
<1>5. IsFiniteSet(Theirs(a) \ command[a].handled)
  <2>1. (Theirs(a) \ command[a].handled) \in SUBSET Pids
    BY <1>4 DEF Matched
  <2> QED BY <2>1, BridgeAssumption, FS_Subset
<1>6. command[a].applied \in Nat /\ n \in Nat
  <2>1. Cardinality(Theirs(a) \ command[a].handled) \in Nat
    BY <1>5, FS_CardinalityType
  <2>2. command[a].applied \in Nat
    BY <1>1 DEF Working, Commands
  <2> QED BY <2>1, <2>2
<1>7. Theirs(a) = {} => n = command[a].applied
  <2>1. Theirs(a) = {} => Theirs(a) \ command[a].handled = {}
    OBVIOUS
  <2> QED BY <1>6, <2>1, FS_EmptySet
<1>8. ASSUME \A p \in Pids : RulesOn[p] <= 1, command[a].op = "apply"
      PROVE  /\ command[a].handled \subseteq Matched
             /\ n <= Cardinality(IF at = "ok" THEN Matched ELSE command[a].handled)
  <2>1. command[a].handled \subseteq Matched
        /\ command[a].applied <= Cardinality(command[a].handled)
    BY <1>1, <1>8 DEF Working, CommandOK
  <2>2. n <= Cardinality(Matched)
    BY <1>4, <1>6, <2>1, NewOnes
  <2>3. conn[a] # "ok" => n <= Cardinality(command[a].handled)
    BY <1>4, <1>7, <2>1
  <2> QED BY <2>1, <2>2, <2>3
<1>9. command' = [command EXCEPT ![a].applied = n, ![a].at = at]
  BY DEF ReadReply
<1>10. at \in {"ok", "fallback"} /\ (at = "ok" => conn[a] = "ok")
  OBVIOUS
<1> HIDE DEF at, n
<1>11. /\ c \in Commands /\ c.op = command[a].op /\ c.pid = command[a].pid
       /\ c.at = at /\ c.token = command[a].token /\ c.made = command[a].made
       /\ c.handled = command[a].handled /\ c.applied = n
  BY <1>1, <1>6, <1>10 DEF Working, Commands
<1>12. command' = [command EXCEPT ![a] = c]
  BY <1>1, <1>9 DEF BridgeInv, CommandsOK, CommandTable, Working, Commands
<1> HIDE DEF c
<1>13. command' \in CommandTable /\ OthersStay(a) /\ command'[a] = c /\ c # Idle
  BY <1>3, <1>11, <1>12, PutEffect
<1>14. at = "ok" /\ c.op \in Changes => c.made = "yes"
  BY <1>3, <1>10, <1>11 DEF ConnOK
<1>15. CommandOK(c)
  BY <1>1, <1>8, <1>10, <1>11, <1>14
     DEF Working, CommandOK, ProcessOps, ServiceOps, Changes, Beyond
<1>16. conn'[a] = "none" /\ \A b \in Apps \ {a} : conn'[b] = conn[b]
  BY <1>2, <1>3 DEF RestOK
<1>17. ~Reading(a)' /\ ~Holds(a, {"minting"})' /\ ~Holds(a, {"connect", "reading"})'
  BY <1>1, <1>10, <1>11, <1>13 DEF Reading, Holds, Working
<1>18. ConnOK'
  BY <1>3, <1>13, <1>16, <1>17, OthersHold DEF ConnOK
<1>19. OneToken'
  BY <1>2, <1>3, <1>13, <1>16, <1>17, TokenSame
<1>20. RestOK'
  BY <1>2, <1>3 DEF RestOK, Alive
<1> QED BY <1>1, <1>2, <1>10, <1>11, <1>13, <1>15, <1>18, <1>19, <1>20, CalmStep
        DEF BridgeInv, Working

LEMMA ElevatedNext ==
  ASSUME BridgeInv, NEW a \in Apps, Elevated(a) PROVE BridgeInv'
<1>1. PICK op \in Changes, at \in {"done", "refused", "timed out"} :
        /\ At(a, op, {at})
        /\ \/ at = "done" /\ Goto(a, "ok") /\ UNCHANGED elevation_failed
           \/ /\ at # "done" /\ Goto(a, "failed")
              /\ elevation_failed' =
                   [elevation_failed EXCEPT ![a] = @ \cup {command[a].pid}]
  BY DEF Elevated, At
<1>2. Working(a, at) /\ command[a].op \in Changes
  BY <1>1, AtWorking DEF ProcessOps
<1>3. UNCHANGED <<scm, marker, gave_up, overtaken, workload, access, scripts, listener, conn,
                  token_file, mints>>
  BY DEF Elevated, AppUnchanged
<1>4. CommandsOK /\ RestOK
  BY DEF BridgeInv
<1>5. RestOK'
  <2>1. command[a].pid \in Pids
    BY <1>2 DEF Working, CommandOK
  <2> QED BY <1>1, <1>3, <1>4, <2>1 DEF RestOK, Alive
<1>6. PICK new \in {"ok", "failed"} : Goto(a, new) /\ (new = "ok" => at = "done")
  BY <1>1
<1>7. Goes(a, new)
  BY <1>2, <1>4, <1>6, GotoEffect DEF Working, Ats
<1>8. CommandOK(command'[a])
  BY <1>2, <1>6, <1>7 DEF Working, CommandOK, Goes, Changes, ServiceOps, Beyond
<1>9. ~Holds(a, AtToken) /\ ~Holds(a, AtToken)'
  BY <1>2, <1>7 DEF Holds, AtToken, Working, Goes
<1>10. ASSUME at = "waiting" PROVE FALSE
  BY <1>1, <1>10
<1> QED BY <1>2, <1>3, <1>5, <1>7, <1>8, <1>9, <1>10, LocalStep DEF Goes, Working

-----------------------------------------------------------------------------
(* The service and its pipe *)

\* A step that moves no command.
LEMMA NoCommandMoves ==
  ASSUME BridgeInv, RestOK',
         UNCHANGED <<command, scm, marker, gave_up, overtaken, scripts, token_file, mints>>,
         \A a \in Apps : /\ conn'[a] # "none" <=> conn[a] # "none"
                         /\ conn'[a] \in {"ok", "unauthorized"} => conn'[a] = conn[a]
  PROVE  BridgeInv'
<1>1. ScmOK' /\ CommandsOK' /\ ScriptsOK' /\ Marked' /\ Looked'
  <2>1. ScmOK'
    BY DEF BridgeInv, ScmOK, marker
  <2>2. CommandsOK'
    BY DEF BridgeInv, CommandsOK, CommandTable
  <2>3. ScriptsOK'
    BY DEF BridgeInv, ScriptsOK
  <2>4. Marked'
    BY DEF BridgeInv, Marked, Settling, Records, marker
  <2>5. Looked'
    BY DEF BridgeInv, Looked
  <2> QED BY <2>1, <2>2, <2>3, <2>4, <2>5
<1>2. ConnOK'
  BY DEF BridgeInv, ConnOK, Reading
<1>3. OneToken'
  <2>1. OneToken /\ \A a : \A ats : Holds(a, ats)' <=> Holds(a, ats)
    BY DEF BridgeInv, Holds
  <2>2. \A a \in Apps : conn[a] # "unauthorized" => conn'[a] # "unauthorized"
    OBVIOUS
  <2> QED BY <2>1, <2>2 DEF OneToken
<1> QED BY <1>1, <1>2, <1>3 DEF BridgeInv

LEMMA ListenerNext ==
  ASSUME BridgeInv, ListenerStep PROVE BridgeInv'
<1>1. /\ UNCHANGED <<command, scm, marker, gave_up, overtaken, scripts, workload, access,
                     token_file, elevation_failed, mints>>
      /\ listener \in {"creating", "created"}
      /\ listener' \in {"creating", "created", "waiting", "dead"}
      /\ \/ UNCHANGED conn
         \/ conn' = [a \in Apps |-> IF conn[a] = "raced" THEN "broken" ELSE conn[a]]
  BY DEF ListenerStep, CreatePipe, AwaitClient, ServerUnchanged, AppUnchanged, appVars
<1>2. RestOK'
  BY <1>1 DEF BridgeInv, RestOK, Alive
<1> QED BY <1>1, <1>2, NoCommandMoves

LEMMA DisconnectNext ==
  ASSUME BridgeInv, NEW a \in Apps, Disconnect(a) PROVE BridgeInv'
<1>1. /\ UNCHANGED <<command, scm, marker, gave_up, overtaken, scripts, workload, access, listener,
                     token_file, elevation_failed, mints>>
      /\ conn[a] \in Answers /\ conn' = [conn EXCEPT ![a] = "broken"]
  BY DEF Disconnect, ServerUnchanged, AppUnchanged, appVars
<1>2. conn[a] # "none"
  BY <1>1 DEF Answers
<1>3. RestOK' /\ conn'[a] = "broken" /\ \A b \in Apps \ {a} : conn'[b] = conn[b]
  BY <1>1 DEF BridgeInv, RestOK, Alive
<1> QED BY <1>1, <1>2, <1>3, NoCommandMoves

LEMMA ReuseNext ==
  ASSUME BridgeInv, Reuse PROVE BridgeInv'
<1>1. /\ UNCHANGED <<command, scm, marker, gave_up, overtaken, scripts, workload, listener, conn,
                     token_file, elevation_failed, mints>>
      /\ access' \in Rights
  BY DEF Reuse, scVars, appVars
<1>2. RestOK'
  BY <1>1 DEF BridgeInv, RestOK, Alive
<1> QED BY <1>1, <1>2, NoCommandMoves

LEMMA StutterNext ==
  ASSUME BridgeInv, UNCHANGED bvars PROVE BridgeInv'
<1>1. UNCHANGED <<command, scm, marker, gave_up, overtaken, scripts, workload, access, listener,
                  conn, token_file, elevation_failed, mints>>
  BY DEF bvars, scVars, appVars
<1>2. RestOK'
  BY <1>1, RestSame DEF BridgeInv
<1> QED BY <1>1, <1>2, NoCommandMoves

LEMMA DispatchNext ==
  ASSUME BridgeInv, NEW a \in Apps, Dispatch(a) PROVE BridgeInv'
<1>1. /\ UNCHANGED <<scm, marker, gave_up, overtaken, scripts, workload, access, listener,
                     token_file, elevation_failed, mints>>
      /\ conn[a] = "pending"
  BY DEF Dispatch, ServerUnchanged, AppUnchanged, appVars
<1>2. CommandsOK /\ ConnOK /\ OneToken /\ RestOK
  BY DEF BridgeInv
<1>3. Reading(a)
  BY <1>1, <1>2 DEF ConnOK
<1>4. Working(a, "reading") /\ Holds(a, {"connect", "reading"})
  BY <1>2, <1>3 DEF Reading, Working, Holds, CommandsOK, CommandTable, Settling, ProcessOps,
     Changes
<1>5. ASSUME NEW k \in Answers, conn' = [conn EXCEPT ![a] = k],
             k = "unauthorized" => command[a].token # token_file \/ mints = 2,
             command' \in CommandTable, OthersStay(a), command'[a] # Idle,
             command'[a].op = command[a].op, command'[a].token = command[a].token,
             command'[a].at = "reading", CommandOK(command'[a]),
             k = "ok" /\ command[a].op \in Changes => command'[a].made = "yes"
      PROVE  BridgeInv'
  <2>1. conn'[a] = k /\ k # "none" /\ \A b \in Apps \ {a} : conn'[b] = conn[b]
    BY <1>2, <1>5 DEF RestOK, Answers
  <2>2. Reading(a)'
    BY <1>4, <1>5 DEF Working, Reading
  <2>3. ConnOK'
    BY <1>2, <1>3, <1>5, <2>1, <2>2, OthersHold DEF ConnOK
  <2>4. RestOK'
    BY <1>1, <1>2, <1>5 DEF RestOK, Alive
  <2>5. ~Holds(a, {"minting"})'
    BY <1>5 DEF Holds
  <2>6. OneToken'
    <3>1. mints <= 1 => command[a].token = token_file
      BY <1>2, <1>4 DEF OneToken
    <3>2. mints <= 1 => \A b \in Apps : conn'[b] = "unauthorized" => conn[b] = "unauthorized"
      BY <1>2, <1>5, <2>1, <3>1 DEF RestOK
    <3> QED BY <1>1, <1>2, <1>4, <1>5, <2>5, <3>2, TokenSame
  <2> QED BY <1>1, <1>4, <1>5, <2>3, <2>4, <2>6, CalmStep DEF BridgeInv, Working
<1>6. ASSUME NEW k \in Answers, conn' = [conn EXCEPT ![a] = k], UNCHANGED command,
             k = "unauthorized" => command[a].token # token_file \/ mints = 2,
             k = "ok" => command[a].op \notin Changes
      PROVE  BridgeInv'
  <2>1. command' \in CommandTable /\ OthersStay(a) /\ command'[a] = command[a]
    BY <1>2, <1>6 DEF CommandsOK, OthersStay
  <2> QED BY <1>4, <1>5, <1>6, <2>1 DEF Working
<1>7. CASE MadeThen(a, "reading") /\ conn' = [conn EXCEPT ![a] = "ok"]
  <2>1. /\ command' \in CommandTable /\ OthersStay(a) /\ command'[a] # Idle
        /\ command'[a].op = command[a].op /\ command'[a].pid = command[a].pid
        /\ command'[a].token = command[a].token /\ command'[a].made = "yes"
        /\ command'[a].handled = command[a].handled
        /\ command'[a].applied = command[a].applied
        /\ command'[a].at = "reading"
    BY <1>2, <1>4, <1>7, MadeEffect DEF Working, Ats, MadeThen
  <2>2. CommandOK(command'[a])
    BY <1>4, <2>1 DEF Working, CommandOK
  <2> QED BY <1>5, <1>7, <2>1, <2>2 DEF Answers
<1> QED BY <1>6, <1>7 DEF Dispatch, Answers


-----------------------------------------------------------------------------
(* The service control manager *)

Kept == [state : {"stopped", "running", "stopping"}, deleting : BOOLEAN]

LEMMA ScmFacts ==
  ASSUME ScmOK
  PROVE  /\ Missing \notin Kept /\ Missing.state = "missing" /\ ~Missing.deleting
         /\ scm = Missing \/ scm \in Kept
         /\ scm \in Kept => scm = [state |-> scm.state, deleting |-> scm.deleting]
                            /\ scm.deleting \in BOOLEAN
                            /\ scm.state \in {"stopped", "running", "stopping"}
BY DEF ScmOK, Kept, Missing

LEMMA CreateEffect ==
  ASSUME ScmOK, ScOk("create")
  PROVE  /\ scm = Missing
         /\ ScAfter("create") = [state |-> "stopped", deleting |-> FALSE]
BY DEF ScOk, ScAfter

\* Neither of these makes the service come or go.
LEMMA SteadyEffect ==
  ASSUME ScmOK, NEW op \in {"config", "start", "stop"}, ScOk(op)
  PROVE  /\ scm # Missing /\ ScAfter(op) \in Kept
         /\ ScAfter(op).deleting = scm.deleting
         /\ ScAfter(op).state = "stopped" => ~ScAfter(op).deleting
<1>1. scm \in Kept /\ scm # Missing
  BY ScmFacts DEF ScOk, Missing, Kept
<1>2. CASE op = "config"
  BY <1>1, <1>2 DEF ScAfter, ScmOK
<1>3. CASE op = "start"
  <2>1. ScAfter(op) = [scm EXCEPT !.state = "running"]
    BY <1>3 DEF ScAfter
  <2> QED BY <1>1, <2>1 DEF Kept
<1>4. CASE op = "stop"
  <2>1. ScAfter(op) = [scm EXCEPT !.state = "stopping"]
    BY <1>4 DEF ScAfter
  <2> QED BY <1>1, <2>1 DEF Kept
<1> QED BY <1>2, <1>3, <1>4

LEMMA DeleteEffect ==
  ASSUME ScmOK, ScOk("delete")
  PROVE  \/ ScAfter("delete") = Missing
         \/ ScAfter("delete") \in Kept /\ ScAfter("delete").state # "stopped"
<1>1. scm \in Kept
  BY ScmFacts DEF ScOk
<1>2. ScAfter("delete") = IF Alive(scm) THEN [scm EXCEPT !.deleting = TRUE] ELSE Missing
  BY DEF ScAfter
<1> QED BY <1>1, <1>2 DEF Kept, Alive

LEMMA ScmNext ==
  ASSUME flag' \in BOOLEAN, unmarked' \in BOOLEAN, gave_up' \in BOOLEAN,
         \/ scm' = Missing
         \/ scm' \in Kept /\ (scm'.state = "stopped" => ~scm'.deleting)
  PROVE  ScmOK'
BY DEF ScmOK, Kept, Missing

-----------------------------------------------------------------------------
(* Scripts *)

LEMMA AskEffect ==
  ASSUME BridgeInv, NEW a \in Apps, NEW op \in ServiceScriptOps \cup {"change"},
         command[a] # Idle, command[a].at # "waiting", Ask(a, op),
         command[a].op \in Changes \cup ServiceOps,
         op = "change" <=> command[a].op \in Changes,
         op = "install" => command[a].op = "install",
         op = "delete" => command[a].op = "uninstall"
  PROVE  /\ Goes(a, "waiting") /\ CommandsOK' /\ ScriptsOK'
         /\ \A s \in scripts' : s.app = Idle => s \in scripts
<1> DEFINE s0 == [op |-> op, app |-> a, pid |-> command[a].pid, phase |-> "asked"]
<1>1. scripts' = scripts \cup {s0}
  BY DEF Ask
<1>2. s0.op = op /\ s0.app = a
  OBVIOUS
<1>3. CommandsOK /\ ScriptsOK /\ command[a] \in Commands
  BY DEF BridgeInv, CommandsOK, CommandTable
<1>4. s0 \in Scripts
  BY <1>3 DEF Scripts, Commands, ServiceScriptOps
<1> HIDE DEF s0
<1>5. Goes(a, "waiting")
  BY <1>3, GotoEffect DEF Ask, Ats
<1>6. CommandOK(command'[a])
  <2>1. CommandOK(command[a])
    BY <1>3 DEF CommandsOK
  <2> QED BY <1>5, <2>1
          DEF CommandOK, Goes, Beyond, ServiceOps, Changes, ProcessOps
<1>7. CommandsOK'
  BY <1>1, <1>3, <1>4, <1>5, <1>6, CommandsNext DEF CommandsOK, Goes
<1>8. \A s \in scripts : s.app # a
  BY <1>3 DEF ScriptsOK
<1>9. \A b \in Apps \ {a} : command'[b] = command[b]
  BY <1>5 DEF Goes, OthersStay
<1>10. ScriptsOK'
  <2>1. ASSUME NEW s \in scripts', s.app \in Apps
        PROVE  /\ command'[s.app] # Idle /\ command'[s.app].at = "waiting"
               /\ s.op = "change" <=> command'[s.app].op \in Changes
               /\ s.op = "install" => command'[s.app].op = "install"
               /\ s.op = "delete" => command'[s.app].op = "uninstall"
    <3>1. CASE s = s0
      BY <1>2, <1>5, <3>1 DEF Goes
    <3>2. CASE s \in scripts
      BY <1>3, <1>8, <1>9, <2>1, <3>2 DEF ScriptsOK
    <3> QED BY <1>1, <3>1, <3>2
  <2>2. \A s, t \in scripts' : s.app = t.app /\ s.app \in Apps => s = t
    BY <1>1, <1>2, <1>3, <1>8 DEF ScriptsOK
  <2>3. ASSUME NEW b \in Apps, command'[b] # Idle, command'[b].at = "waiting"
        PROVE  \E s \in scripts' : s.app = b
    <3>1. CASE b = a
      BY <1>1, <1>2, <3>1
    <3>2. CASE b # a
      BY <1>1, <1>3, <1>9, <2>3, <3>2 DEF ScriptsOK
    <3> QED BY <3>1, <3>2
  <2> QED BY <2>1, <2>2, <2>3 DEF ScriptsOK
<1>11. \A s \in scripts' : s.app = Idle => s \in scripts
  <2>1. a # Idle
    BY ServiceAssumption
  <2> QED BY <1>1, <1>2, <2>1
<1> QED BY <1>5, <1>7, <1>10, <1>11

\* A script goes, and the app that waited for it waits no more.
LEMMA ScriptGoes ==
  ASSUME BridgeInv, NEW s \in scripts, s.app \in Apps, scripts' = scripts \ {s},
         OthersStay(s.app), command'[s.app] # Idle => command'[s.app].at # "waiting"
  PROVE  ScriptsOK'
<1>1. ScriptsOK
  BY DEF BridgeInv
<1>2. \A t \in scripts' : t \in scripts /\ t.app # s.app
  BY <1>1 DEF ScriptsOK
<1>3. \A t \in scripts' : t.app \in Apps => command'[t.app] = command[t.app]
  BY <1>2 DEF OthersStay
<1>4. ASSUME NEW b \in Apps, command'[b] # Idle, command'[b].at = "waiting"
      PROVE  \E t \in scripts' : t.app = b
  <2>1. b # s.app /\ command'[b] = command[b]
    BY <1>4 DEF OthersStay
  <2>2. PICK t \in scripts : t.app = b
    BY <1>1, <1>4, <2>1 DEF ScriptsOK
  <2> QED BY <2>1, <2>2
<1> QED BY <1>1, <1>2, <1>3, <1>4 DEF ScriptsOK

\* A script becomes another one, of nobody, or of the same app.
LEMMA ScriptBecomes ==
  ASSUME BridgeInv, NEW s \in scripts, NEW T, scripts' = (scripts \ {s}) \cup T,
         UNCHANGED command,
         \A t \in T : t.app = s.app /\ (t.op = s.op \/ (t.op = "start" /\ s.op = "install")),
         s.app \in Apps => \E t \in T : T = {t}
  PROVE  ScriptsOK'
<1>1. ScriptsOK
  BY DEF BridgeInv
<1>2. ASSUME NEW t \in scripts', t.app \in Apps
      PROVE  LET c == command[t.app]
             IN  /\ c # Idle /\ c.at = "waiting"
                 /\ t.op = "change" <=> c.op \in Changes
                 /\ t.op = "install" => c.op = "install"
                 /\ t.op = "delete" => c.op = "uninstall"
  BY <1>1, <1>2 DEF ScriptsOK, Changes
<1>3. ASSUME NEW t \in scripts', NEW u \in scripts', t.app = u.app, t.app \in Apps
      PROVE  t = u
  <2>1. CASE s.app = t.app
    <3>1. \A v \in scripts \ {s} : v.app # s.app
      BY <1>1, <1>3, <2>1 DEF ScriptsOK
    <3> QED BY <1>3, <2>1, <3>1
  <2>2. CASE s.app # t.app
    BY <1>1, <1>3, <2>2 DEF ScriptsOK
  <2> QED BY <2>1, <2>2
<1>4. ASSUME NEW b \in Apps, command[b] # Idle, command[b].at = "waiting"
      PROVE  \E t \in scripts' : t.app = b
  <2>1. PICK t \in scripts : t.app = b
    BY <1>1, <1>4 DEF ScriptsOK
  <2> QED BY <2>1
<1> QED BY <1>2, <1>3, <1>4 DEF ScriptsOK

\* The script s has ended, that of nobody, or that of an app, which hears of it.
Heard(s, result) ==
  /\ CommandsOK' /\ ScriptsOK' /\ scripts' = scripts \ {s}
  /\ \/ s.app = Idle /\ UNCHANGED command
     \/ /\ s.app \in Apps /\ OthersStay(s.app)
        /\ command[s.app] # Idle /\ command[s.app].at = "waiting"
        /\ command'[s.app] # Idle /\ command'[s.app].at = result
        /\ command'[s.app].op = command[s.app].op
        /\ s.op = "change" <=> command[s.app].op \in Changes
        /\ s.op = "install" => command[s.app].op = "install"
        /\ s.op = "delete" => command[s.app].op = "uninstall"

LEMMA NobodyHears ==
  ASSUME BridgeInv, NEW s \in scripts, s.app = Idle, UNCHANGED command,
         scripts' = scripts \ {s}, NEW result
  PROVE  Heard(s, result)
<1>1. CommandsOK'
  BY DEF BridgeInv, CommandsOK, CommandTable
<1>2. ScriptsOK'
  <2>1. s.app \notin Apps
    BY ServiceAssumption
  <2> DEFINE T == {}
  <2>2. scripts' = (scripts \ {s}) \cup T
    OBVIOUS
  <2>3. \A t \in T : t.app = s.app /\ (t.op = s.op \/ (t.op = "start" /\ s.op = "install"))
    OBVIOUS
  <2> HIDE DEF T
  <2> QED BY <2>1, <2>2, <2>3, ScriptBecomes
<1> QED BY <1>1, <1>2 DEF Heard

\* The app that waits for a script, and the place it goes to.
LEMMA AppHears ==
  ASSUME BridgeInv, NEW s \in scripts, NEW a \in Apps, s.app = a,
         NEW result \in {"done", "refused"}, scripts' = scripts \ {s},
         command' \in CommandTable, OthersStay(a), command'[a] # Idle,
         command'[a].op = command[a].op, command'[a].pid = command[a].pid,
         command'[a].at = result,
         s.op = "change" /\ result = "done" => command'[a].made # "no"
  PROVE  Heard(s, result)
<1>1. CommandsOK /\ ScriptsOK /\ scripts' \subseteq Scripts
  BY DEF BridgeInv, CommandsOK
<1>2. /\ command[a] # Idle /\ command[a].at = "waiting" /\ CommandOK(command[a])
      /\ s.op = "change" <=> command[a].op \in Changes
      /\ s.op = "install" => command[a].op = "install"
      /\ s.op = "delete" => command[a].op = "uninstall"
  BY <1>1 DEF ScriptsOK, CommandsOK
<1>3. CommandOK(command'[a])
  BY <1>2 DEF CommandOK, Beyond, ServiceOps, Changes, ProcessOps
<1>4. CommandsOK'
  BY <1>1, <1>3, CommandsNext
<1>5. ScriptsOK'
  BY ScriptGoes
<1> QED BY <1>2, <1>4, <1>5 DEF Heard

LEMMA EndsEffect ==
  ASSUME BridgeInv, NEW s \in scripts, NEW result \in {"done", "refused"},
         Ends(s, result), s.op = "change" => result # "done"
  PROVE  Heard(s, result)
<1>1. /\ CommandsOK /\ ScriptsOK /\ scripts' = scripts \ {s}
      /\ s.app \in Apps \cup {Idle}
  BY DEF BridgeInv, CommandsOK, Scripts, Ends
<1>2. CASE s.app = Idle
  BY <1>1, <1>2, NobodyHears DEF Ends
<1>3. CASE s.app # Idle
  <2> DEFINE a == s.app
  <2>1. a \in Apps /\ command[a] # Idle
    BY <1>1, <1>3 DEF ScriptsOK
  <2>2. Goto(a, result)
    BY <1>3 DEF Ends
  <2> HIDE DEF a
  <2>3. Goes(a, result)
    BY <1>1, <2>1, <2>2, GotoEffect DEF Ats
  <2>4. s.app = a
    BY DEF a
  <2> QED BY <1>1, <2>1, <2>3, <2>4, AppHears DEF Goes
<1> QED BY <1>2, <1>3

\* A prompt is declined.
LEMMA DeclineEffect ==
  ASSUME BridgeInv, NEW s \in scripts, scripts' = scripts \ {s},
         IF s.app = Idle THEN UNCHANGED command
         ELSE command' = [command EXCEPT ![s.app].made = "declined",
                                         ![s.app].at   = "done"]
  PROVE  Heard(s, "done")
<1>1. CommandsOK /\ ScriptsOK /\ s.app \in Apps \cup {Idle}
  BY DEF BridgeInv, CommandsOK, Scripts
<1>2. CASE s.app = Idle
  BY <1>2, NobodyHears
<1>3. CASE s.app # Idle
  <2> DEFINE a == s.app
  <2>1. a \in Apps /\ command[a] # Idle
    BY <1>1, <1>3 DEF ScriptsOK
  <2>2. command' = [command EXCEPT ![a].made = "declined", ![a].at = "done"]
    BY <1>3
  <2> HIDE DEF a
  <2>3. /\ command' \in CommandTable /\ OthersStay(a) /\ command'[a] # Idle
        /\ command'[a].op = command[a].op /\ command'[a].pid = command[a].pid
        /\ command'[a].made = "declined" /\ command'[a].at = "done"
    BY <1>1, <2>1, <2>2, MadeEffect DEF Ats
  <2>4. s.app = a
    BY DEF a
  <2> QED BY <2>1, <2>3, <2>4, AppHears
<1> QED BY <1>2, <1>3

-----------------------------------------------------------------------------
(* The marker *)

LEMMA OthersSettle ==
  ASSUME NEW a \in Apps, OthersStay(a), NEW b \in Apps \ {a}
  PROVE  (\A ats : Settling(b, ats)' <=> Settling(b, ats)) /\ command'[b] = command[b]
BY DEF OthersStay, Settling

\* The same marker tells as much, while the service is there or is not.
LEMMA RecordsSame ==
  ASSUME UNCHANGED marker, scm' # Missing <=> scm # Missing
  PROVE  Records' <=> Records
BY DEF Records, marker

\* No app that settles something gives it up; a script nobody waits for is new
\* only if an app has just timed out.
LEMMA MarkedOn ==
  ASSUME Marked, NEW a \in Apps, OthersStay(a), UNCHANGED <<marker, gave_up>>,
         overtaken => overtaken',
         scm' # Missing <=> scm # Missing, scm'.deleting => scm.deleting,
         Settling(a, Beyond) => Settling(a, Beyond)',
         Settling(a, {"timed out"}) => Settling(a, {"timed out"})',
         \/ ~scm'.deleting
         \/ ~Settling(a, {"done"}) \/ command[a].op # "uninstall",
         \/ Settling(a, {"timed out"})'
         \/ \A s \in scripts' : s.app = Idle /\ s.op \in {"install", "delete"} =>
              \E t \in scripts : t.app = Idle /\ t.op \in {"install", "delete"}
  PROVE  Marked'
<1> SUFFICES ASSUME ~gave_up', ~overtaken'
             PROVE  /\ Records' \/ \E b \in Apps : Settling(b, Beyond)'
                    /\ scm'.deleting => \E b \in Apps :
                         \/ Settling(b, {"timed out"})'
                         \/ Settling(b, {"done"})' /\ command'[b].op = "uninstall"
                    /\ (\E s \in scripts' : s.app = Idle /\ s.op \in {"install", "delete"}) =>
                         \E b \in Apps : Settling(b, {"timed out"})'
  BY DEF Marked
<1>1. \A b \in Apps : Settling(b, Beyond) => Settling(b, Beyond)'
  BY OthersSettle
<1>2. \A b \in Apps : Settling(b, {"timed out"}) => Settling(b, {"timed out"})'
  BY OthersSettle
<1>3. scm'.deleting =>
        \A b \in Apps : Settling(b, {"done"}) /\ command[b].op = "uninstall" =>
          Settling(b, {"done"})' /\ command'[b].op = "uninstall"
  BY OthersSettle
<1>4. Records => Records'
  BY RecordsSame
<1> QED BY <1>1, <1>2, <1>3, <1>4 DEF Marked

\* The marker is updated, or a failure reported, by an app whose command ends
\* and has no script behind it.
LEMMA MarkedAnew ==
  ASSUME Marked, NEW a \in Apps, OthersStay(a), UNCHANGED <<scm, scripts>>,
         gave_up => gave_up', overtaken => overtaken',
         gave_up' \/ overtaken' \/ Records',
         ~Settling(a, {"timed out"}),
         ~Settling(a, {"done"}) \/ command[a].op # "uninstall" \/ gave_up' \/ ~scm.deleting
  PROVE  Marked'
<1>1. \A b \in Apps : Settling(b, {"timed out"}) => Settling(b, {"timed out"})'
  BY OthersSettle
<1>2. \A b \in Apps \ {a} : Settling(b, {"done"}) /\ command[b].op = "uninstall" =>
        Settling(b, {"done"})' /\ command'[b].op = "uninstall"
  BY OthersSettle
<1> QED BY <1>1, <1>2 DEF Marked

\* An app that is at it will see to the marker, whatever has become of the
\* service.
LEMMA MarkedBy ==
  ASSUME Marked, NEW a \in Apps, OthersStay(a), UNCHANGED gave_up,
         overtaken => overtaken',
         Settling(a, {"done"})', command'[a].op = "uninstall",
         ~Settling(a, {"timed out"}),
         \A s \in scripts' : s.app = Idle => s \in scripts
  PROVE  Marked'
<1>1. \A b \in Apps : Settling(b, {"timed out"}) => Settling(b, {"timed out"})'
  BY OthersSettle
<1>2. Settling(a, Beyond)'
  BY DEF Settling, Beyond
<1> QED BY <1>1, <1>2 DEF Marked

-----------------------------------------------------------------------------
(* The pipe while the service comes and goes *)

\* Commands that hold a token, or read, stay as they are.
PipeStays ==
  \A b \in Apps : Holds(b, AtToken) \/ Holds(b, AtToken)' =>
    /\ command'[b] = command[b]
    /\ \A ats : Holds(b, ats)' <=> Holds(b, ats)

LEMMA PipeStaysBy ==
  ASSUME NEW a \in Apps, OthersStay(a), ~Holds(a, AtToken), ~Holds(a, AtToken)'
  PROVE  PipeStays
BY OthersHold DEF PipeStays

LEMMA PipeNext ==
  ASSUME BridgeInv, PipeStays,
         listener' = (IF Alive(scm') = Alive(scm) THEN listener
                      ELSE IF Alive(scm') THEN "creating" ELSE "off"),
         conn' = [a \in Apps |->
                    IF ~Alive(scm') /\ conn[a] \in {"raced", "pending"}
                    THEN "broken" ELSE conn[a]],
         UNCHANGED <<workload, access, appVars>>, overtaken' \in BOOLEAN
  PROVE  RestOK' /\ ConnOK' /\ OneToken'
<1>1. RestOK /\ ConnOK /\ OneToken
      /\ UNCHANGED <<token_file, elevation_failed, mints>>
  BY DEF BridgeInv, appVars
<1>2. RestOK'
  BY <1>1 DEF RestOK, Alive
<1>3. \A b \in Apps : /\ conn'[b] # "none" <=> conn[b] # "none"
                      /\ conn'[b] \in {"ok", "unauthorized"} => conn'[b] = conn[b]
  OBVIOUS
<1>4. ConnOK'
  <2>1. \A b \in Apps : Reading(b)' <=> Reading(b)
    BY DEF PipeStays, Reading, Holds, AtToken
  <2>2. \A b \in Apps : Reading(b) => command'[b] = command[b]
    BY DEF PipeStays, Reading, Holds, AtToken
  <2> QED BY <1>1, <1>3, <2>1, <2>2 DEF ConnOK
<1>5. OneToken'
  <2>1. \A b \in Apps, ats \in SUBSET AtToken :
          /\ Holds(b, ats)' <=> Holds(b, ats)
          /\ Holds(b, ats) => command'[b] = command[b]
    <3>1. \A b \in Apps, ats \in SUBSET AtToken :
            /\ Holds(b, ats) => Holds(b, AtToken)
            /\ Holds(b, ats)' => Holds(b, AtToken)'
      BY DEF Holds
    <3> QED BY <3>1 DEF PipeStays
  <2> QED BY <1>1, <1>3, <2>1 DEF OneToken, AtToken
<1> QED BY <1>2, <1>4, <1>5

-----------------------------------------------------------------------------
(* Scripts for a change *)

LEMMA FallbackNext ==
  ASSUME BridgeInv, NEW a \in Apps, Fallback(a) PROVE BridgeInv'
<1>1. Working(a, "fallback")
  BY AtWorking DEF Fallback, AtPipe
<1>2. UNCHANGED <<scm, marker, gave_up, overtaken, workload, access, listener, conn,
                  token_file, elevation_failed, mints>>
  BY DEF Fallback, AppUnchanged
<1>3. CommandsOK /\ RestOK'
  BY <1>2, RestSame DEF BridgeInv
<1>4. CASE command[a].op \in Changes /\ Ask(a, "change")
  <2>1. /\ Goes(a, "waiting") /\ CommandsOK' /\ ScriptsOK'
        /\ \A s \in scripts' : s.app = Idle => s \in scripts
    BY <1>1, <1>4, AskEffect DEF Working, Changes
  <2>2. Marked'
    BY <1>1, <1>2, <2>1, MarkedSame DEF BridgeInv, Goes, Working
  <2>3. ~Holds(a, AtToken) /\ ~Holds(a, AtToken)'
    BY <1>1, <2>1 DEF Holds, AtToken, Working, Goes
  <2>4. ~Reading(a) /\ ~Reading(a)'
    BY <1>1, <2>1 DEF Reading, Working, Goes
  <2>5. ConnOK'
    BY <1>2, <2>1, <2>4, ConnSame DEF BridgeInv, Goes
  <2>6. OneToken'
    <3>1. ~Holds(a, {"minting"})' /\ ~Holds(a, {"connect", "reading"})'
      BY <2>3 DEF Holds, AtToken
    <3> QED BY <1>2, <2>1, <3>1, TokenSame DEF BridgeInv, Goes
  <2>7. ScmOK' /\ Looked'
    BY <1>2, <2>1, LookedSame DEF BridgeInv, ScmOK, marker, Goes
  <2> QED BY <1>3, <2>1, <2>2, <2>5, <2>6, <2>7 DEF BridgeInv
<1>5. ASSUME NEW at \in {"failed", "ok"}, Goto(a, at), UNCHANGED scripts,
             at = "ok" => command[a].op = "apply"
      PROVE  BridgeInv'
  <2>1. Goes(a, at)
    BY <1>1, <1>3, <1>5, GotoEffect DEF Working, Ats
  <2>2. CommandOK(command'[a])
    <3>1. CASE at = "failed"
      BY <1>1, <1>3, <2>1, <3>1, GoesOK DEF Working, Ats, ProcessOps
    <3>2. CASE at = "ok"
      <4>1. IsFiniteSet(Matched) /\ Cardinality(Matched) \in Nat
        BY BridgeAssumption, FS_Subset, FS_CardinalityType DEF Matched
      <4>2. command[a].handled \subseteq Matched =>
              /\ Cardinality(command[a].handled) \in Nat
              /\ Cardinality(command[a].handled) <= Cardinality(Matched)
        BY <4>1, FS_Subset, FS_CardinalityType
      <4>3. command[a].applied \in Nat /\ command[a].op = "apply"
        BY <1>1, <1>5, <3>2 DEF Working, Commands
      <4>4. (\A p \in Pids : RulesOn[p] <= 1) =>
              /\ command[a].handled \subseteq Matched
              /\ command[a].applied <= Cardinality(command[a].handled)
        BY <1>1, <4>3 DEF Working, CommandOK
      <4>5. (\A p \in Pids : RulesOn[p] <= 1) =>
              command[a].applied <= Cardinality(Matched)
        BY <4>1, <4>2, <4>3, <4>4
      <4> QED BY <1>1, <2>1, <3>2, <4>3, <4>4, <4>5
              DEF Working, CommandOK, Goes, ServiceOps, Changes, Beyond
    <3> QED BY <3>1, <3>2
  <2>3. ~Holds(a, AtToken) /\ ~Holds(a, AtToken)'
    BY <1>1, <2>1 DEF Holds, AtToken, Working, Goes
  <2> QED BY <1>1, <1>2, <1>3, <1>5, <2>1, <2>2, <2>3, LocalStep DEF Goes, Working
<1> QED BY <1>4, <1>5 DEF Fallback

\* The marker concerns neither the scripts of changes nor the apps that ask
\* for them.
LEMMA NotSettling ==
  ASSUME NEW a \in Apps, command[a].op \in Changes PROVE \A ats : ~Settling(a, ats)
BY DEF Settling, Changes

LEMMA RunChangeNext ==
  ASSUME BridgeInv, NEW s \in scripts, RunChange(s) PROVE BridgeInv'
<1>1. /\ UNCHANGED <<scm, marker, gave_up, overtaken, workload, access, listener, conn,
                     token_file, elevation_failed, mints>>
      /\ s.op = "change"
  BY DEF RunChange, AppUnchanged
<1>2. /\ CommandsOK /\ ScriptsOK /\ RestOK' /\ ScmOK'
      /\ s.app \in Apps \cup {Idle}
  BY <1>1, RestSame DEF BridgeInv, CommandsOK, Scripts, ScmOK, marker
<1>3. PICK result \in {"done", "refused"} : Heard(s, result)
  <2>1. CASE s.app = Idle /\ scripts' = scripts \ {s} /\ UNCHANGED command
    BY <2>1, NobodyHears
  <2>2. CASE s.app # Idle /\ scripts' = scripts \ {s} /\ MadeThen(s.app, "done")
    <3> DEFINE a == s.app
    <3>1. a \in Apps /\ command[a] # Idle
      BY <1>2, <2>2 DEF ScriptsOK
    <3>2. command' = [command EXCEPT ![a].made = "yes", ![a].at = "done"]
      BY <2>2 DEF MadeThen
    <3> HIDE DEF a
    <3>3. /\ command' \in CommandTable /\ OthersStay(a) /\ command'[a] # Idle
          /\ command'[a].op = command[a].op /\ command'[a].pid = command[a].pid
          /\ command'[a].made = "yes" /\ command'[a].at = "done"
      BY <1>2, <3>1, <3>2, MadeEffect DEF Ats
    <3>4. s.app = a
      BY DEF a
    <3> QED BY <2>2, <3>1, <3>3, <3>4, AppHears
  <2>3. CASE Ends(s, "refused")
    BY <2>3, EndsEffect
  <2> QED BY <2>1, <2>2, <2>3 DEF RunChange
<1>4. CommandsOK' /\ ScriptsOK' /\ scripts' = scripts \ {s}
  BY <1>3 DEF Heard
<1>5. CASE UNCHANGED command
  <2>1. ConnOK'
    BY <1>1, <1>5 DEF BridgeInv, ConnOK, Reading
  <2>2. OneToken'
    <3>1. OneToken /\ \A a : \A ats : Holds(a, ats)' <=> Holds(a, ats)
      BY <1>5 DEF BridgeInv, Holds
    <3> QED BY <1>1, <1>5, <3>1 DEF OneToken
  <2>3. Marked'
    <3>1. Records' <=> Records
      BY <1>1, RecordsSame
    <3>2. Marked /\ \A a : \A ats : Settling(a, ats)' <=> Settling(a, ats)
      BY <1>5 DEF BridgeInv, Settling
    <3> QED BY <1>1, <1>4, <1>5, <3>1, <3>2 DEF Marked
  <2>4. Looked'
    BY <1>1, <1>5 DEF BridgeInv, Looked
  <2> QED BY <1>2, <1>4, <2>1, <2>2, <2>3, <2>4 DEF BridgeInv
<1>6. ASSUME NEW a \in Apps, a = s.app, OthersStay(a),
             command[a] # Idle, command[a].at = "waiting", command[a].op \in Changes,
             command'[a] # Idle, command'[a].op = command[a].op, command'[a].at = result
      PROVE  BridgeInv'
  <2>1. Marked'
    <3>1. ~Settling(a, Beyond)
      BY <1>6, NotSettling
    <3> QED BY <1>1, <1>4, <1>6, <3>1, MarkedSame DEF BridgeInv
  <2>2. ~Reading(a) /\ ~Reading(a)'
    BY <1>6 DEF Reading
  <2>3. ConnOK'
    BY <1>1, <1>6, <2>2, ConnSame DEF BridgeInv
  <2>4. ~Holds(a, {"minting"})' /\ ~Holds(a, {"connect", "reading"})'
    BY <1>6 DEF Holds
  <2>5. OneToken'
    BY <1>1, <1>6, <2>4, TokenSame DEF BridgeInv
  <2>6. Looked'
    BY <1>1, <1>6, LookedSame DEF BridgeInv
  <2> QED BY <1>2, <1>4, <2>1, <2>3, <2>5, <2>6 DEF BridgeInv
<1> QED BY <1>1, <1>3, <1>5, <1>6 DEF Heard

-----------------------------------------------------------------------------
(* Commands that concern the service *)

\* What an app has seen of the service by this step is so, or it had seen it
\* before.
Looks ==
  \A b \in Apps :
    command'[b] # Idle /\ command'[b].at \in {"present", "gone"} =>
      \/ command[b] # Idle /\ command[b].at = command'[b].at
      \/ command'[b].at = "present" <=> scm' # Missing

LEMMA LooksBy ==
  ASSUME NEW a \in Apps, OthersStay(a),
         command'[a] # Idle =>
           \/ command'[a].at \notin {"present", "gone"}
           \/ command'[a].at = "present" <=> scm' # Missing
  PROVE  Looks
BY DEF Looks, OthersStay

LEMMA LooksSame ==
  ASSUME UNCHANGED command PROVE Looks
BY DEF Looks

CoreNext == ScmOK' /\ CommandsOK' /\ ScriptsOK' /\ Marked' /\ PipeStays /\ Looks

Serving(a, at) ==
  /\ command[a] # Idle /\ command[a] \in Commands /\ CommandOK(command[a])
  /\ command[a].op \in ServiceOps /\ command[a].at = at

LEMMA AtServing ==
  ASSUME BridgeInv, NEW a \in Apps, NEW at, NEW op \in ServiceOps, At(a, op, {at})
  PROVE  Serving(a, at) /\ command[a].op = op
BY DEF BridgeInv, CommandsOK, CommandTable, At, Serving

LEMMA NotAtPipe ==
  ASSUME NEW a \in Apps, NEW at, Serving(a, at)
  PROVE  ~Holds(a, AtToken)
BY DEF Serving, CommandOK, Holds, AtToken, Beyond, ServiceOps, ProcessOps, Changes

LEMMA EndsCalm ==
  ASSUME BridgeInv, NEW a \in Apps, NEW at, Serving(a, at), at # "waiting",
         Finish(a), UNCHANGED scripts
  PROVE  /\ CommandsOK' /\ ScriptsOK' /\ PipeStays /\ Looks
         /\ OthersStay(a) /\ command'[a] = Idle
<1>1. Ended(a) /\ CommandsOK /\ ScriptsOK
  BY FinishEffect DEF BridgeInv
<1>2. CommandsOK'
  BY <1>1, CommandsNext DEF Ended, CommandsOK
<1>3. ScriptsOK'
  BY <1>1, ScriptsSame DEF Ended, Serving
<1>4. PipeStays
  <2>1. ~Holds(a, AtToken)'
    BY <1>1 DEF Holds, Ended
  <2> QED BY <1>1, <2>1, NotAtPipe, PipeStaysBy DEF Ended
<1>5. Looks
  BY <1>1, LooksBy DEF Ended
<1> QED BY <1>1, <1>2, <1>3, <1>4, <1>5 DEF Ended

\* Where a command gets to by itself.
Tries == {"queried", "once", "twice", "stopped"}

LEMMA GoesCalm ==
  ASSUME BridgeInv, NEW a \in Apps, NEW at, Serving(a, at), at # "waiting",
         NEW new \in Tries \cup {"done", "refused", "present", "gone"}, Goto(a, new),
         new \in Tries => command[a].op # "install",
         new \in {"present", "gone"} => (new = "present" <=> scm' # Missing),
         UNCHANGED scripts
  PROVE  CommandsOK' /\ ScriptsOK' /\ PipeStays /\ Looks /\ Goes(a, new)
<1>1. CommandsOK /\ ScriptsOK
  BY DEF BridgeInv
<1>2. Goes(a, new)
  BY <1>1, GotoEffect DEF Serving, Ats, Tries
<1>3. CommandOK(command'[a])
  BY <1>2 DEF Serving, CommandOK, Goes, ServiceOps, ProcessOps, Changes, Beyond, Tries
<1>4. CommandsOK'
  BY <1>1, <1>2, <1>3, CommandsNext DEF Goes, CommandsOK
<1>5. ScriptsOK'
  BY <1>1, <1>2, ScriptsSame DEF Goes, Serving, Tries
<1>6. PipeStays
  <2>1. ~Holds(a, AtToken)'
    BY <1>2 DEF Holds, Goes, AtToken, Tries
  <2> QED BY <1>2, <2>1, NotAtPipe, PipeStaysBy DEF Goes
<1>7. Looks
  BY <1>2, LooksBy DEF Goes
<1> QED BY <1>2, <1>4, <1>5, <1>6, <1>7

LEMMA AskCalm ==
  ASSUME BridgeInv, NEW a \in Apps, NEW at, Serving(a, at), at # "waiting",
         NEW op \in ServiceScriptOps, Ask(a, op), ~Settling(a, Beyond),
         op = "install" => command[a].op = "install",
         op = "delete" => command[a].op = "uninstall",
         UNCHANGED <<scm, marker, gave_up>>, overtaken => overtaken'
  PROVE  CoreNext
<1>1. command[a].op \notin Changes /\ op # "change"
  BY DEF Serving, ServiceOps, Changes, ServiceScriptOps
<1>2. /\ Goes(a, "waiting") /\ CommandsOK' /\ ScriptsOK'
      /\ \A s \in scripts' : s.app = Idle => s \in scripts
  BY <1>1, AskEffect DEF Serving
<1>3. Marked'
  BY <1>2, MarkedSame DEF BridgeInv, Goes
<1>4. PipeStays
  <2>1. ~Holds(a, AtToken)'
    BY <1>2 DEF Holds, Goes, AtToken
  <2> QED BY <1>2, <2>1, NotAtPipe, PipeStaysBy DEF Goes
<1>5. ScmOK' /\ Looks
  BY <1>2, LooksBy DEF BridgeInv, ScmOK, marker, Goes
<1> QED BY <1>2, <1>3, <1>4, <1>5 DEF CoreNext

LEMMA QueryNext ==
  ASSUME BridgeInv, NEW a \in Apps, Query(a), overtaken => overtaken' PROVE CoreNext
<1>1. Serving(a, "begun") /\ command[a].op # "install"
  BY AtServing DEF Query, ServiceOps
<1>2. UNCHANGED <<scm, marker, scripts, gave_up>> /\ ScmOK' /\ Marked
  BY DEF Query, BridgeInv, ScmOK, marker
<1>3. ~Settling(a, Beyond)
  BY <1>1 DEF Settling, Serving, Beyond
<1>4. CommandsOK' /\ ScriptsOK' /\ PipeStays /\ Looks /\ OthersStay(a)
  <2>1. CASE scm # Missing /\ Goto(a, "queried")
    BY <1>1, <1>2, <2>1, GoesCalm DEF Goes, Tries
  <2>2. CASE scm = Missing /\ Goto(a, "gone")
    BY <1>1, <1>2, <2>2, GoesCalm DEF Goes, Tries
  <2>3. CASE Finish(a)
    BY <1>1, <1>2, <2>3, EndsCalm
  <2> QED BY <2>1, <2>2, <2>3 DEF Query
<1>5. Marked'
  BY <1>2, <1>3, <1>4, MarkedSame
<1> QED BY <1>2, <1>4, <1>5 DEF CoreNext

LEMMA StartOrStopNext ==
  ASSUME BridgeInv, NEW a \in Apps, StartOrStop(a), overtaken => overtaken'
  PROVE  CoreNext
<1>1. PICK op \in {"start", "stop"} : At(a, op, {"queried"}) /\ Direct(a, op)
  BY DEF StartOrStop
<1>2. Serving(a, "queried") /\ command[a].op = op
  BY <1>1, AtServing DEF ServiceOps
<1>3. UNCHANGED <<marker, gave_up>> /\ ScmOK /\ Marked
  BY DEF StartOrStop, BridgeInv
<1>4. (\A ats \in SUBSET Beyond : ~Settling(a, ats)) /\ ~Settling(a, Beyond)
      /\ ~Settling(a, {"timed out"}) /\ ~Settling(a, {"done"})
  BY <1>2 DEF Settling, Serving, Beyond
<1>5. CASE ScOk(op) /\ scm' = ScAfter(op) /\ Goto(a, "done") /\ UNCHANGED scripts
  <2>1. CommandsOK' /\ ScriptsOK' /\ PipeStays /\ Looks /\ OthersStay(a)
    BY <1>2, <1>5, GoesCalm DEF Goes, Tries
  <2>2. /\ scm # Missing /\ scm' \in Kept /\ scm'.deleting = scm.deleting
        /\ scm'.state = "stopped" => ~scm'.deleting
    BY <1>3, <1>5, SteadyEffect
  <2>3. scm' # Missing /\ ScmOK'
    BY <1>3, <2>2, ScmNext, ScmFacts DEF ScmOK, marker
  <2>4. Marked'
    BY <1>3, <1>4, <1>5, <2>1, <2>2, <2>3, MarkedOn
  <2> QED BY <2>1, <2>3, <2>4 DEF CoreNext
<1>6. CASE Goto(a, "refused") /\ UNCHANGED <<scm, scripts>>
  <2>1. CommandsOK' /\ ScriptsOK' /\ PipeStays /\ Looks /\ OthersStay(a)
    BY <1>2, <1>6, GoesCalm DEF Goes, Tries
  <2>2. ScmOK'
    BY <1>3, <1>6 DEF ScmOK, marker
  <2>3. Marked'
    BY <1>3, <1>4, <1>6, <2>1, MarkedSame
  <2> QED BY <2>1, <2>2, <2>3 DEF CoreNext
<1>7. CASE Ask(a, op) /\ UNCHANGED scm
  BY <1>2, <1>3, <1>4, <1>7, AskCalm DEF ServiceScriptOps
<1> QED BY <1>1, <1>5, <1>6, <1>7 DEF Direct

LEMMA UninstallStopNext ==
  ASSUME BridgeInv, NEW a \in Apps, UninstallStop(a), overtaken => overtaken'
  PROVE  CoreNext
<1>1. PICK at \in {"queried", "once", "twice"} : At(a, "uninstall", {at})
  BY DEF UninstallStop, AfterTry, At
<1>2. Serving(a, at) /\ command[a].op = "uninstall" /\ command[a].at = at
  BY <1>1, AtServing DEF ServiceOps, Serving
<1>3. /\ UNCHANGED <<marker, scripts, gave_up>> /\ ScmOK /\ Marked
      /\ UNCHANGED scm \/ (ScOk("stop") /\ scm' = ScAfter("stop"))
  BY DEF UninstallStop, BridgeInv
<1>4. PICK new \in Tries : Goto(a, new)
  BY <1>2 DEF UninstallStop, AfterTry, Tries
<1>5. ~Settling(a, Beyond) /\ ~Settling(a, {"timed out"}) /\ ~Settling(a, {"done"})
  BY <1>2 DEF Settling, Beyond
<1>6. CommandsOK' /\ ScriptsOK' /\ PipeStays /\ Looks /\ OthersStay(a)
  <2>1. at # "waiting" /\ new \notin {"present", "gone"}
    BY DEF Tries
  <2> QED BY <1>2, <1>3, <1>4, <2>1, GoesCalm DEF Goes
<1>7. ScmOK' /\ (scm' # Missing <=> scm # Missing) /\ scm'.deleting = scm.deleting
  <2>1. CASE UNCHANGED scm
    BY <1>3, <2>1 DEF ScmOK, marker
  <2>2. CASE ScOk("stop") /\ scm' = ScAfter("stop")
    <3>1. /\ scm # Missing /\ scm' \in Kept /\ scm'.deleting = scm.deleting
          /\ scm'.state = "stopped" => ~scm'.deleting
      BY <1>3, <2>2, SteadyEffect
    <3> QED BY <1>3, <3>1, ScmNext, ScmFacts DEF ScmOK, marker
  <2> QED BY <1>3, <2>1, <2>2
<1>8. Marked'
  BY <1>3, <1>5, <1>6, <1>7, MarkedOn
<1> QED BY <1>6, <1>7, <1>8 DEF CoreNext

LEMMA UninstallDeleteNext ==
  ASSUME BridgeInv, NEW a \in Apps, UninstallDelete(a), overtaken => overtaken'
  PROVE  CoreNext
<1>1. Serving(a, "stopped") /\ command[a].op = "uninstall"
  BY AtServing DEF UninstallDelete, ServiceOps
<1>2. UNCHANGED <<marker, gave_up>> /\ ScmOK /\ Marked
  BY DEF UninstallDelete, BridgeInv
<1>3. ~Settling(a, Beyond) /\ ~Settling(a, {"timed out"}) /\ ~Settling(a, {"done"})
  BY <1>1 DEF Settling, Serving, Beyond
<1>4. ASSUME NEW at \in {"gone", "refused"}, Goto(a, at), UNCHANGED <<scm, scripts>>,
             at = "gone" => scm = Missing
      PROVE  CoreNext
  <2>1. CommandsOK' /\ ScriptsOK' /\ PipeStays /\ Looks /\ OthersStay(a)
    BY <1>1, <1>4, GoesCalm DEF Goes, Tries
  <2>2. ScmOK'
    BY <1>2, <1>4 DEF ScmOK, marker
  <2>3. Marked'
    BY <1>2, <1>3, <1>4, <2>1, MarkedSame
  <2> QED BY <2>1, <2>2, <2>3 DEF CoreNext
<1>5. ASSUME ScOk("delete"), scm' = ScAfter("delete"), Goto(a, "done"), UNCHANGED scripts
      PROVE  CoreNext
  <2>1. CommandsOK' /\ ScriptsOK' /\ PipeStays /\ Looks /\ Goes(a, "done")
    BY <1>1, <1>5, GoesCalm DEF Tries
  <2>2. scm' = Missing \/ (scm' \in Kept /\ scm'.state # "stopped")
    BY <1>2, <1>5, DeleteEffect
  <2>3. ScmOK'
    BY <1>2, <1>5, <2>2, ScmNext DEF ScmOK, marker
  <2>4. Settling(a, {"done"})' /\ command'[a].op = "uninstall"
    BY <1>1, <2>1 DEF Goes, Settling
  <2>5. Marked'
    BY <1>2, <1>3, <1>5, <2>1, <2>4, MarkedBy DEF Goes
  <2> QED BY <2>1, <2>3, <2>5 DEF CoreNext
<1>6. ASSUME Ask(a, "delete"), UNCHANGED scm PROVE CoreNext
  BY <1>1, <1>2, <1>3, <1>6, AskCalm DEF ServiceScriptOps
<1> QED BY <1>4, <1>5, <1>6 DEF UninstallDelete, Direct

LEMMA VerifyNext ==
  ASSUME BridgeInv, NEW a \in Apps, UninstallVerify(a) \/ InstallVerify(a),
         overtaken => overtaken'
  PROVE  CoreNext
<1>1. /\ Serving(a, "done")
      /\ \/ command[a].op = "uninstall" /\ UninstallVerify(a)
         \/ command[a].op = "install" /\ InstallVerify(a)
  BY AtServing DEF UninstallVerify, InstallVerify, ServiceOps
<1>2. UNCHANGED <<scm, marker, scripts>> /\ ScmOK /\ Marked
  BY DEF UninstallVerify, InstallVerify, BridgeInv
<1>3. ~Settling(a, {"timed out"})
  BY <1>1 DEF Settling, Serving
<1>4. ASSUME Finish(a), gave_up' = TRUE PROVE CoreNext
  <2>1. CommandsOK' /\ ScriptsOK' /\ PipeStays /\ Looks /\ OthersStay(a)
    BY <1>1, <1>2, <1>4, EndsCalm
  <2>2. ScmOK' /\ Marked'
    BY <1>2, <1>4 DEF ScmOK, marker, Marked
  <2> QED BY <2>1, <2>2 DEF CoreNext
<1>5. ASSUME NEW at \in {"present", "gone"}, Goto(a, at), UNCHANGED gave_up,
             at = "present" <=> scm # Missing,
             at = "gone" => command[a].op = "uninstall",
             at = "present" => command[a].op = "install"
      PROVE  CoreNext
  <2>1. CommandsOK' /\ ScriptsOK' /\ PipeStays /\ Looks /\ Goes(a, at)
    BY <1>1, <1>2, <1>5, GoesCalm DEF Tries
  <2>2. ScmOK'
    BY <1>2, <1>5 DEF ScmOK, marker
  <2>3. Settling(a, Beyond) => Settling(a, Beyond)'
    BY <1>5, <2>1 DEF Settling, Goes, Beyond
  <2>4. ~scm'.deleting \/ command[a].op # "uninstall"
    BY <1>2, <1>5 DEF Missing
  <2>5. Marked'
    <3>1. OthersStay(a)
      BY <2>1 DEF Goes
    <3> QED BY <1>2, <1>3, <1>5, <2>3, <2>4, <3>1, MarkedOn
  <2> QED BY <2>1, <2>2, <2>5 DEF CoreNext
<1> QED BY <1>1, <1>4, <1>5 DEF UninstallVerify, InstallVerify

LEMMA MarkNext ==
  ASSUME BridgeInv, NEW a \in Apps, Mark(a), overtaken => overtaken' PROVE CoreNext
<1>1. PICK op \in {"install", "uninstall"}, at \in {"present", "gone"} :
        /\ At(a, op, {at}) /\ SetServiceFlag(at = "present")
  BY DEF Mark
<1>2. Serving(a, at) /\ command[a] # Idle /\ command[a].at = at
  BY <1>1, AtServing DEF ServiceOps, Serving
<1>3. /\ Finish(a) /\ UNCHANGED <<scm, scripts, gave_up>>
      /\ ScmOK /\ Marked /\ Looked
  BY DEF Mark, BridgeInv
<1>4. CommandsOK' /\ ScriptsOK' /\ PipeStays /\ Looks /\ OthersStay(a)
  BY <1>2, <1>3, EndsCalm
<1>5. flag \in BOOLEAN /\ flag' \in BOOLEAN /\ unmarked' \in BOOLEAN
  BY <1>1, <1>3 DEF SetServiceFlag, ScmOK
<1>6. ScmOK'
  BY <1>3, <1>5 DEF ScmOK
<1>7. overtaken \/ Records'
  <2>1. ~overtaken => (at = "present" <=> scm # Missing)
    BY <1>2, <1>3 DEF Looked
  <2> QED BY <1>1, <1>3, <1>5, <2>1 DEF SetServiceFlag, Records
<1>8. ~Settling(a, {"timed out"}) /\ ~Settling(a, {"done"})
  BY <1>2 DEF Settling
<1>9. Marked'
  BY <1>3, <1>4, <1>7, <1>8, MarkedAnew
<1> QED BY <1>4, <1>6, <1>9 DEF CoreNext

LEMMA InstallNext ==
  ASSUME BridgeInv, NEW a \in Apps, Install(a), overtaken => overtaken' PROVE CoreNext
<1>1. Serving(a, "begun") /\ command[a].op = "install"
  BY AtServing DEF Install, ServiceOps
<1>2. Ask(a, "install") /\ UNCHANGED <<scm, marker, gave_up>>
  BY DEF Install
<1>3. ~Settling(a, Beyond)
  BY <1>1 DEF Settling, Serving, Beyond
<1> QED BY <1>1, <1>2, <1>3, AskCalm DEF ServiceScriptOps

LEMMA EndServiceOpNext ==
  ASSUME BridgeInv, NEW a \in Apps, EndServiceOp(a), overtaken => overtaken'
  PROVE  CoreNext
<1>1. PICK at \in {"done", "refused", "timed out"}, op \in ServiceOps : At(a, op, {at})
  BY DEF EndServiceOp, At, ServiceOps
<1>2. Serving(a, at) /\ at # "waiting"
  BY <1>1, AtServing
<1>3. /\ Finish(a) /\ UNCHANGED <<scm, marker, scripts>> /\ ScmOK /\ Marked
      /\ gave_up' = (gave_up \/ command[a].op \in {"install", "uninstall"})
  BY DEF EndServiceOp, BridgeInv
<1>4. CommandsOK' /\ ScriptsOK' /\ PipeStays /\ Looks /\ OthersStay(a)
  BY <1>2, <1>3, EndsCalm
<1>5. ScmOK'
  BY <1>3 DEF ScmOK, marker
<1>6. Marked'
  <2>1. CASE command[a].op \in {"install", "uninstall"}
    BY <1>3, <2>1 DEF Marked
  <2>2. CASE command[a].op \notin {"install", "uninstall"}
    <3>1. ~Settling(a, Beyond)
      BY <2>2 DEF Settling
    <3>2. UNCHANGED gave_up
      BY <1>3, <2>2 DEF ScmOK
    <3> QED BY <1>3, <1>4, <3>1, <3>2, MarkedSame
  <2> QED BY <2>1, <2>2
<1> QED BY <1>4, <1>5, <1>6 DEF CoreNext

LEMMA TimeOutNext ==
  ASSUME BridgeInv, NEW a \in Apps, TimeOut(a), overtaken => overtaken' PROVE CoreNext
<1>1. PICK s \in scripts :
        /\ s.app = a
        /\ scripts' = (scripts \ {s}) \cup
             {t \in {[s EXCEPT !.app = Idle]} :
                s.phase = "running" \/ s.op = "install"}
        /\ Goto(a, "timed out")
  BY DEF TimeOut
<1>2. /\ command[a] # Idle /\ command[a].at = "waiting"
      /\ UNCHANGED <<scm, marker, gave_up>>
      /\ CommandsOK /\ ScriptsOK /\ ScmOK /\ Marked /\ s \in Scripts
      /\ command[a] \in Commands /\ CommandOK(command[a])
  BY DEF TimeOut, BridgeInv, CommandsOK, CommandTable
<1> DEFINE t0 == [s EXCEPT !.app = Idle]
<1>3. t0 \in Scripts /\ t0.app = Idle /\ t0.op = s.op
  BY <1>2 DEF Scripts
<1>4. \A t \in scripts' : t \in scripts \ {s} \/ t = t0
  BY <1>1
<1>5. \A t \in scripts \ {s} : t \in scripts'
  BY <1>1
<1> HIDE DEF t0
<1>6. Goes(a, "timed out")
  BY <1>1, <1>2, GotoEffect DEF Ats
<1>7. CommandOK(command'[a])
  BY <1>2, <1>6
     DEF CommandOK, Goes, Beyond, ServiceOps, Changes, ProcessOps
<1>8. CommandsOK'
  <2>1. scripts' \subseteq Scripts
    BY <1>2, <1>3, <1>4 DEF CommandsOK
  <2> QED BY <1>2, <1>6, <1>7, <2>1, CommandsNext DEF Goes
<1>9. ScriptsOK'
  <2>1. \A t \in scripts' : t.app \in Apps => t \in scripts /\ t.app # a
    <3>1. \A t \in scripts' : t.app \in Apps => t \in scripts \ {s}
      BY <1>3, <1>4, ServiceAssumption
    <3>2. \A t \in scripts \ {s} : t.app # a
      BY <1>1, <1>2 DEF ScriptsOK
    <3> QED BY <3>1, <3>2
  <2>2. \A t \in scripts' : t.app \in Apps => command'[t.app] = command[t.app]
    BY <1>6, <2>1 DEF Goes, OthersStay
  <2>3. ASSUME NEW b \in Apps, command'[b] # Idle, command'[b].at = "waiting"
        PROVE  \E t \in scripts' : t.app = b
    <3>1. b # a /\ command'[b] = command[b]
      BY <1>6, <2>3 DEF Goes, OthersStay
    <3>2. PICK t \in scripts : t.app = b
      BY <1>2, <2>3, <3>1 DEF ScriptsOK
    <3> QED BY <1>1, <1>5, <3>1, <3>2
  <2> QED BY <1>2, <2>1, <2>2, <2>3 DEF ScriptsOK
<1>10. Marked'
  <2>1. Settling(a, Beyond) => Settling(a, Beyond)'
    BY <1>6 DEF Settling, Goes, Beyond
  <2>2. ~Settling(a, {"timed out"}) /\ ~Settling(a, {"done"})
    BY <1>2 DEF Settling
  <2>3. s.op \in {"install", "delete"} => Settling(a, {"timed out"})'
    BY <1>1, <1>2, <1>6 DEF ScriptsOK, Settling, Goes
  <2>4. \/ Settling(a, {"timed out"})'
        \/ \A t \in scripts' : t.app = Idle /\ t.op \in {"install", "delete"} =>
             \E u \in scripts : u.app = Idle /\ u.op \in {"install", "delete"}
    BY <1>3, <1>4, <2>3
  <2> QED BY <1>2, <1>6, <2>1, <2>2, <2>4, MarkedOn DEF Goes
<1>11. PipeStays
  <2>1. ~Holds(a, AtToken) /\ ~Holds(a, AtToken)'
    BY <1>2, <1>6 DEF Holds, AtToken, Goes
  <2> QED BY <1>6, <2>1, PipeStaysBy DEF Goes
<1>12. ScmOK' /\ Looks
  BY <1>2, <1>6, LooksBy DEF ScmOK, marker, Goes
<1> QED BY <1>8, <1>9, <1>10, <1>11, <1>12 DEF CoreNext

\* Nothing moves at the pipe when a script ends, or goes on.
LEMMA PipeStaysSame ==
  ASSUME UNCHANGED command PROVE PipeStays
BY DEF PipeStays, Holds

\* A script that leaves the service as it is, or in being, ends.
LEMMA EndsCore ==
  ASSUME BridgeInv, NEW s \in scripts, NEW result \in {"done", "refused"},
         Heard(s, result), UNCHANGED <<marker, gave_up>>, overtaken => overtaken',
         scm' # Missing <=> scm # Missing, scm'.deleting => scm.deleting, ScmOK'
  PROVE  CoreNext
<1>1. /\ CommandsOK' /\ ScriptsOK' /\ scripts' = scripts \ {s} /\ Marked
  BY DEF BridgeInv, Heard
<1>2. CASE UNCHANGED command
  <2>1. Marked'
    <3>1. \A b \in Apps : \A ats : Settling(b, ats)' <=> Settling(b, ats)
      BY <1>2 DEF Settling
    <3>2. Records' <=> Records
      BY RecordsSame
    <3> QED BY <1>1, <1>2, <3>1, <3>2 DEF Marked
  <2> QED BY <1>1, <1>2, <2>1, PipeStaysSame, LooksSame DEF CoreNext
<1>3. ASSUME NEW a \in Apps, OthersStay(a), command[a] # Idle, command[a].at = "waiting",
             command'[a] # Idle, command'[a].at = result, command'[a].op = command[a].op
      PROVE  CoreNext
  <2>1. Settling(a, Beyond) => Settling(a, Beyond)'
    BY <1>3 DEF Settling, Beyond
  <2>2. ~Settling(a, {"timed out"}) /\ ~Settling(a, {"done"})
    BY <1>3 DEF Settling
  <2>3. \A t \in scripts' : t.app = Idle /\ t.op \in {"install", "delete"} =>
          \E u \in scripts : u.app = Idle /\ u.op \in {"install", "delete"}
    BY <1>1
  <2>4. Marked'
    BY <1>1, <1>3, <2>1, <2>2, <2>3, MarkedOn
  <2>5. ~Holds(a, AtToken) /\ ~Holds(a, AtToken)'
    BY <1>3 DEF Holds, AtToken
  <2>6. Looks
    BY <1>3, LooksBy
  <2> QED BY <1>1, <1>3, <2>4, <2>5, <2>6, PipeStaysBy DEF CoreNext
<1> QED BY <1>2, <1>3 DEF Heard

LEMMA UserAnswersNext ==
  ASSUME BridgeInv, NEW s \in scripts, UserAnswers(s), overtaken => overtaken'
  PROVE  CoreNext
<1>1. UNCHANGED <<scm, marker, gave_up>> /\ ScmOK' /\ Marked /\ CommandsOK
  BY DEF UserAnswers, BridgeInv, ScmOK, marker
<1>2. ASSUME Heard(s, "done") PROVE CoreNext
  BY <1>1, <1>2, EndsCore
<1>3. ASSUME scripts' = (scripts \ {s}) \cup {[s EXCEPT !.phase = "running"]},
             UNCHANGED command
      PROVE  CoreNext
  <2> DEFINE t == [s EXCEPT !.phase = "running"]
             T == {t}
  <2>1. t \in Scripts /\ t.app = s.app /\ t.op = s.op
    BY <1>1 DEF CommandsOK, Scripts
  <2>2. scripts' = (scripts \ {s}) \cup T
    BY <1>3
  <2> HIDE DEF t
  <2>3. \A u \in T : u.app = s.app /\ (u.op = s.op \/ (u.op = "start" /\ s.op = "install"))
    BY <2>1
  <2>4. \E u \in T : T = {u}
    OBVIOUS
  <2>5. CommandsOK'
    BY <1>1, <1>3, <2>1, <2>2 DEF CommandsOK, CommandTable
  <2> HIDE DEF T
  <2>6. ScriptsOK'
    BY <1>3, <2>2, <2>3, <2>4, ScriptBecomes
  <2>7. \A u \in scripts' : u.app = Idle /\ u.op \in {"install", "delete"} =>
          \E v \in scripts : v.app = Idle /\ v.op \in {"install", "delete"}
    BY <2>1, <2>2 DEF T
  <2>8. Marked'
    <3>1. \A b \in Apps : \A ats : Settling(b, ats)' <=> Settling(b, ats)
      BY <1>3 DEF Settling
    <3>2. Records' <=> Records
      BY <1>1, RecordsSame
    <3> QED BY <1>1, <1>3, <2>7, <3>1, <3>2 DEF Marked
  <2> QED BY <1>1, <1>3, <2>5, <2>6, <2>8, PipeStaysSame, LooksSame DEF CoreNext
<1> QED BY <1>2, <1>3, DeclineEffect DEF UserAnswers

LEMMA ServiceScriptNext ==
  ASSUME BridgeInv, NEW s \in scripts, ServiceScript(s), overtaken => overtaken'
  PROVE  CoreNext
<1> DEFINE op == IF s.op # "install" THEN s.op
                 ELSE IF scm = Missing THEN "create" ELSE "config"
<1>1. /\ s.op \in ServiceScriptOps /\ s.app \in Apps \cup {Idle} /\ s \in Scripts
      /\ UNCHANGED <<marker, gave_up>> /\ ScmOK /\ Marked /\ CommandsOK /\ ScriptsOK
      /\ flag' \in BOOLEAN /\ unmarked' \in BOOLEAN /\ gave_up' \in BOOLEAN
  BY DEF ServiceScript, RunScript, BridgeInv, CommandsOK, Scripts, ServiceScriptOps, ScmOK,
         marker
<1>2. CASE UNCHANGED scm /\ Ends(s, "refused")
  <2>1. ScmOK'
    BY <1>1, <1>2 DEF ScmOK, marker
  <2>2. Heard(s, "refused")
    BY <1>2, EndsEffect
  <2> QED BY <1>1, <1>2, <2>1, <2>2, EndsCore
<1>3. CASE ScOk(op) /\ scm' = ScAfter(op) /\ s.op # "install" /\ Ends(s, "done")
  <2>0. Heard(s, "done")
    BY <1>1, <1>3, EndsEffect DEF ServiceScriptOps
  <2>1. CASE s.op \in {"start", "stop"}
    <3>1. /\ scm # Missing /\ scm' \in Kept /\ scm'.deleting = scm.deleting
          /\ scm'.state = "stopped" => ~scm'.deleting
      BY <1>1, <1>3, <2>1, SteadyEffect
    <3>2. scm' # Missing /\ ScmOK'
      BY <1>1, <3>1, ScmNext, ScmFacts
    <3> QED BY <1>1, <2>0, <3>1, <3>2, EndsCore
  <2>2. CASE s.op = "delete"
    <3>1. scm' = Missing \/ (scm' \in Kept /\ scm'.state # "stopped")
      BY <1>1, <1>3, <2>2, DeleteEffect
    <3>2. ScmOK'
      BY <1>1, <3>1, ScmNext
    <3>3. CommandsOK' /\ ScriptsOK' /\ scripts' = scripts \ {s}
      BY <2>0 DEF Heard
    <3>4. CASE s.app = Idle /\ UNCHANGED command
      <4>1. \A b \in Apps : \A ats : Settling(b, ats)' <=> Settling(b, ats)
        BY <3>4 DEF Settling
      <4>2. ~gave_up /\ ~overtaken => \E b \in Apps : Settling(b, {"timed out"})
        BY <1>1, <2>2, <3>4 DEF Marked
      <4>3. \A b \in Apps : Settling(b, {"timed out"}) => Settling(b, Beyond)
        BY DEF Settling, Beyond
      <4>4. Marked'
        BY <1>1, <4>1, <4>2, <4>3 DEF Marked
      <4> QED BY <3>2, <3>3, <3>4, <4>4, PipeStaysSame, LooksSame DEF CoreNext
    <3>5. ASSUME NEW a \in Apps, OthersStay(a), command[a] # Idle,
                 command[a].at = "waiting", command[a].op = "uninstall",
                 command'[a] # Idle, command'[a].at = "done",
                 command'[a].op = "uninstall"
          PROVE  CoreNext
      <4>1. Settling(a, {"done"})' /\ ~Settling(a, {"timed out"})
        BY <3>5 DEF Settling
      <4>2. Marked'
        BY <1>1, <3>3, <3>5, <4>1, MarkedBy
      <4>3. ~Holds(a, AtToken) /\ ~Holds(a, AtToken)'
        BY <3>5 DEF Holds, AtToken
      <4>4. Looks
        BY <3>5, LooksBy
      <4> QED BY <3>2, <3>3, <3>5, <4>2, <4>3, <4>4, PipeStaysBy DEF CoreNext
    <3> QED BY <2>0, <2>2, <3>4, <3>5 DEF Heard
  <2> QED BY <1>1, <1>3, <2>1, <2>2 DEF ServiceScriptOps
<1>4. ASSUME ScOk(op), scm' = ScAfter(op), s.op = "install", UNCHANGED command,
             scripts' = (scripts \ {s}) \cup {[s EXCEPT !.op = "start"]}
      PROVE  CoreNext
  <2> DEFINE t == [s EXCEPT !.op = "start"]
             T == {t}
  <2>1. t \in Scripts /\ t.app = s.app /\ t.op = "start"
    BY <1>1 DEF Scripts
  <2>2. scripts' = (scripts \ {s}) \cup T
    BY <1>4
  <2> HIDE DEF t
  <2>3. \A u \in T : u.app = s.app /\ (u.op = s.op \/ (u.op = "start" /\ s.op = "install"))
    BY <1>4, <2>1
  <2>4. \E u \in T : T = {u}
    OBVIOUS
  <2>5. CommandsOK'
    BY <1>1, <1>4, <2>1, <2>2 DEF CommandsOK, CommandTable
  <2> HIDE DEF T
  <2>6. ScriptsOK'
    BY <1>4, <2>2, <2>3, <2>4, ScriptBecomes
  <2>7. \A u \in scripts' : u.app = Idle /\ u.op \in {"install", "delete"} =>
          u \in scripts
    BY <2>1, <2>2 DEF T
  <2>8. \A b \in Apps : \A ats : Settling(b, ats)' <=> Settling(b, ats)
    BY <1>4 DEF Settling
  <2>9. CASE scm = Missing
    <3>1. scm' = [state |-> "stopped", deleting |-> FALSE] /\ op = "create"
      BY <1>1, <1>4, <2>9, CreateEffect
    <3>2. ScmOK' /\ ~scm'.deleting
      BY <1>1, <3>1, ScmNext DEF Kept
    <3>3. ~gave_up /\ ~overtaken => \E b \in Apps : Settling(b, Beyond)
      <4>1. CASE s.app = Idle
        <5>1. ~gave_up /\ ~overtaken => \E b \in Apps : Settling(b, {"timed out"})
          BY <1>1, <1>4, <4>1 DEF Marked
        <5>2. \A b \in Apps : Settling(b, {"timed out"}) => Settling(b, Beyond)
          BY DEF Settling, Beyond
        <5> QED BY <5>1, <5>2
      <4>2. CASE s.app \in Apps
        <5>1. Settling(s.app, Beyond)
          BY <1>1, <1>4, <4>2 DEF ScriptsOK, Settling, Beyond
        <5> QED BY <4>2, <5>1
      <4> QED BY <1>1, <4>1, <4>2
    <3>4. Marked'
      BY <1>1, <2>7, <2>8, <3>2, <3>3 DEF Marked
    <3> QED BY <1>4, <2>5, <2>6, <3>2, <3>4, PipeStaysSame, LooksSame DEF CoreNext
  <2>10. CASE scm # Missing
    <3>1. op = "config"
      BY <1>4, <2>10
    <3>2. UNCHANGED scm
      BY <1>4, <3>1 DEF ScAfter
    <3>3. ScmOK'
      BY <1>1, <3>2 DEF ScmOK, marker
    <3>4. Marked'
      <4>1. Records' <=> Records
        BY <1>1, <3>2, RecordsSame
      <4> QED BY <1>1, <1>4, <2>7, <2>8, <3>2, <4>1 DEF Marked
    <3> QED BY <1>4, <2>5, <2>6, <3>3, <3>4, PipeStaysSame, LooksSame DEF CoreNext
  <2> QED BY <2>9, <2>10
<1> QED BY <1>2, <1>3, <1>4 DEF ServiceScript, RunScript

LEMMA ServiceEndsNext ==
  ASSUME BridgeInv, ServiceEnds, overtaken => overtaken' PROVE CoreNext
<1>1. /\ UNCHANGED <<marker, command, scripts, gave_up>>
      /\ ScmOK /\ Marked /\ CommandsOK /\ ScriptsOK
      /\ flag' \in BOOLEAN /\ unmarked' \in BOOLEAN /\ gave_up' \in BOOLEAN
  BY DEF ServiceEnds, BridgeInv, ScmOK, marker
<1>2. \A b \in Apps : \A ats : Settling(b, ats)' <=> Settling(b, ats)
  BY <1>1 DEF Settling
<1>3. CommandsOK' /\ ScriptsOK'
  BY <1>1 DEF CommandsOK, CommandTable, ScriptsOK
<1>4. scm \in Kept
  BY <1>1, ScmFacts DEF ServiceEnds, Alive, Missing
<1>5. CASE scm.deleting
  <2>1. scm' = Missing
    BY <1>5 DEF ServiceEnds
  <2>2. ScmOK' /\ ~scm'.deleting
    BY <1>1, <2>1, ScmNext DEF Missing
  <2>3. ~gave_up /\ ~overtaken => \E b \in Apps : Settling(b, Beyond)
    <3>1. \A b \in Apps :
            Settling(b, {"timed out"}) \/ Settling(b, {"done"}) => Settling(b, Beyond)
      BY DEF Settling, Beyond
    <3> QED BY <1>1, <1>5, <3>1 DEF Marked
  <2>4. Marked'
    BY <1>1, <1>2, <2>2, <2>3 DEF Marked
  <2> QED BY <1>1, <1>3, <2>2, <2>4, PipeStaysSame, LooksSame DEF CoreNext
<1>6. CASE ~scm.deleting
  <2>1. scm' = [scm EXCEPT !.state = "stopped"]
    BY <1>6 DEF ServiceEnds
  <2>2. scm' \in Kept /\ ~scm'.deleting
    BY <1>4, <1>6, <2>1 DEF Kept
  <2>3. scm' # Missing /\ scm # Missing /\ ScmOK'
    BY <1>1, <1>4, <2>2, ScmFacts, ScmNext
  <2>4. Marked'
    <3>1. Records' <=> Records
      BY <1>1, <2>3, RecordsSame
    <3> QED BY <1>1, <1>2, <2>2, <2>3, <3>1 DEF Marked
  <2> QED BY <1>1, <1>3, <2>3, <2>4, PipeStaysSame, LooksSame DEF CoreNext
<1> QED BY <1>5, <1>6

-----------------------------------------------------------------------------
(* The invariant *)

LEMMA BridgeInvInit == BridgeInit => BridgeInv
<1> SUFFICES ASSUME BridgeInit PROVE BridgeInv
  OBVIOUS
<1>1. /\ scm \in {Missing, [state |-> "running", deleting |-> FALSE]}
      /\ flag = (scm # Missing) /\ unmarked = FALSE
      /\ gave_up = FALSE /\ overtaken = FALSE
      /\ command = [a \in Apps |-> Idle] /\ scripts = {}
      /\ conn = [a \in Apps |-> "none"]
      /\ token_file \in {NoToken, OldToken}
      /\ mints = (IF token_file = OldToken THEN 1 ELSE 0)
  BY DEF BridgeInit, ServiceInit
<1>2. ScmOK /\ ~scm.deleting /\ Records
  <2>1. CASE scm = Missing
    <3>1. flag = FALSE
      BY <1>1, <2>1
    <3> QED BY <1>1, <2>1, <3>1 DEF ScmOK, Missing, Records
  <2>2. CASE scm = [state |-> "running", deleting |-> FALSE]
    <3>1. scm # Missing /\ scm.state = "running" /\ scm.deleting = FALSE
      BY <2>2 DEF Missing
    <3>2. flag = TRUE
      BY <1>1, <3>1
    <3>3. scm \in [state : {"stopped", "running", "stopping"}, deleting : BOOLEAN]
      BY <2>2
    <3> QED BY <1>1, <3>1, <3>2, <3>3 DEF ScmOK, Records
  <2> QED BY <1>1, <2>1, <2>2
<1>3. CommandsOK /\ ScriptsOK
  BY <1>1 DEF CommandsOK, CommandTable, ScriptsOK
<1>4. RestOK
  <2>1. mints \in 0..2
    <3>1. mints = 0 \/ mints = 1
      BY <1>1
    <3> QED BY <3>1
  <2>2. elevation_failed \in [Apps -> SUBSET Pids]
    BY DEF BridgeInit
  <2>3. overtaken \in BOOLEAN
    BY <1>1
  <2> QED BY <1>1, <2>1, <2>2, <2>3 DEF BridgeInit, RestOK
<1>5. ConnOK
  BY <1>1 DEF ConnOK, Reading
<1>6. OneToken
  BY <1>1 DEF OneToken, Holds
<1>7. Marked /\ Looked
  BY <1>1, <1>2 DEF Marked, Looked
<1> QED BY <1>2, <1>3, <1>4, <1>5, <1>6, <1>7 DEF BridgeInv

LEMMA WithServiceNext ==
  ASSUME BridgeInv, CoreNext, Overtake,
         listener' = (IF Alive(scm') = Alive(scm) THEN listener
                      ELSE IF Alive(scm') THEN "creating" ELSE "off"),
         conn' = [a \in Apps |->
                    IF ~Alive(scm') /\ conn[a] \in {"raced", "pending"}
                    THEN "broken" ELSE conn[a]],
         UNCHANGED <<workload, access, appVars>>
  PROVE  BridgeInv'
<1>1. overtaken \in BOOLEAN /\ overtaken' \in BOOLEAN
  BY DEF BridgeInv, RestOK, Overtake
<1>2. RestOK' /\ ConnOK' /\ OneToken'
  BY <1>1, PipeNext DEF CoreNext
<1>3. Looked'
  <2> SUFFICES ASSUME ~overtaken', NEW b \in Apps, command'[b] # Idle
               PROVE  /\ command'[b].at = "present" => scm' # Missing
                      /\ command'[b].at = "gone" => scm' = Missing
    BY DEF Looked
  <2>1. ~overtaken
    BY <1>1 DEF Overtake
  <2>2. CASE command'[b].at = "present" <=> scm' # Missing
    BY <2>2
  <2>3. CASE command[b] # Idle /\ command[b].at = command'[b].at
    <3>1. command[b].at \in {"present", "gone"} => ((scm = Missing) <=> (scm' = Missing))
      BY <2>3 DEF Overtake
    <3> QED BY <2>1, <2>3, <3>1 DEF BridgeInv, Looked
  <2> QED BY <2>2, <2>3 DEF CoreNext, Looks
<1> QED BY <1>2, <1>3 DEF CoreNext, BridgeInv

\* Nobody is caught up with again.
LEMMA OvertakeOn ==
  ASSUME BridgeInv, Overtake PROVE overtaken => overtaken'
BY DEF Overtake, BridgeInv, RestOK

LEMMA BridgeInvNext == BridgeInv /\ [BridgeNext]_bvars => BridgeInv'
<1> SUFFICES ASSUME BridgeInv, [BridgeNext]_bvars PROVE BridgeInv'
  OBVIOUS
<1>1. ASSUME NEW a \in Apps, WithService(ServiceOp(a)) PROVE BridgeInv'
  <2>1. CoreNext
    <3>1. ServiceOp(a) /\ (overtaken => overtaken')
      BY <1>1, OvertakeOn DEF WithService
    <3> QED BY <3>1, QueryNext, StartOrStopNext, UninstallStopNext, UninstallDeleteNext,
               VerifyNext, MarkNext, InstallNext, EndServiceOpNext DEF ServiceOp
  <2> QED BY <1>1, <2>1, WithServiceNext DEF WithService
<1>2. ASSUME NEW a \in Apps, WithService(TimeOut(a)) PROVE BridgeInv'
  BY <1>2, TimeOutNext, OvertakeOn, WithServiceNext DEF WithService
<1>3. ASSUME NEW a \in Apps, AppStep(a) PROVE BridgeInv'
  BY <1>1, <1>2, <1>3, LocalNext, ApplyLocallyNext, ReadTokenNext, MintNext,
     WriteTokenNext, ConnectNext, ReadReplyNext, FallbackNext, ElevatedNext, ReturnNext
     DEF AppStep
<1>4. ASSUME NEW s \in scripts, WithService(UserAnswers(s)) PROVE BridgeInv'
  BY <1>4, UserAnswersNext, OvertakeOn, WithServiceNext DEF WithService
<1>5. ASSUME NEW s \in scripts, WithService(ServiceScript(s)) PROVE BridgeInv'
  BY <1>5, ServiceScriptNext, OvertakeOn, WithServiceNext DEF WithService
<1>6. ASSUME WithService(ServiceEnds) PROVE BridgeInv'
  BY <1>6, ServiceEndsNext, OvertakeOn, WithServiceNext DEF WithService
<1> QED BY <1>3, <1>4, <1>5, <1>6, BeginNext, DispatchNext, DisconnectNext,
           ListenerNext, RunChangeNext, ReuseNext, StutterNext DEF BridgeNext

\* The invariant holds whatever users, apps, prompts and the service do, and in
\* whatever order.
THEOREM BridgeInvHolds == BridgeSpec => []BridgeInv
BY BridgeInvInit, BridgeInvNext, PTL DEF BridgeSpec

-----------------------------------------------------------------------------
(* What the runs check *)

\* Every command, script and connection is one the code can be in: an app reads
\* exactly while it has a connection, and waits exactly while it has a script.
THEOREM BridgeTypes == BridgeSpec => []BridgeTypeOK
<1>1. BridgeInv => BridgeTypeOK
  <2> SUFFICES ASSUME BridgeInv PROVE BridgeTypeOK
    OBVIOUS
  <2>1. ServiceTypeOK
    BY DEF BridgeInv, ScmOK, RestOK, ScriptsOK, ServiceTypeOK
  <2>2. \A a \in Apps : conn[a] # "none" <=> \E op \in ProcessOps : At(a, op, {"reading"})
    BY DEF BridgeInv, ConnOK, Reading, At
  <2> QED BY <2>1, <2>2 DEF BridgeInv, CommandsOK, CommandTable, RestOK, BridgeTypeOK
<1> QED BY <1>1, BridgeInvHolds, PTL

\* As long as no install or uninstall has reported failure, and nobody was
\* overtaken between a look at the service and the update of the marker, the
\* marker is wrong whenever nothing is under way exactly if its last update
\* failed.
THEOREM MarkerAgrees == BridgeSpec => []FlagAgrees
<1>1. BridgeInv => FlagAgrees
  BY DEF BridgeInv, Marked, Records, FlagAgrees, Quiet, Settling
<1> QED BY <1>1, BridgeInvHolds, PTL

\* The service refuses no app while one token at most has been made, whoever
\* makes it and whatever fails.
THEOREM OneTokenIsAccepted == BridgeSpec => []TokenAccepted
<1>1. BridgeInv => TokenAccepted
  BY DEF BridgeInv, OneToken, TokenAccepted
<1> QED BY <1>1, BridgeInvHolds, PTL

\* A change that is reported to have worked has been made, by the app, the
\* service or a script, or its prompt was declined.
THEOREM SuccessIsReal == BridgeSpec => []SuccessMeansWritten
<1>1. BridgeInv => SuccessMeansWritten
  BY DEF BridgeInv, CommandsOK, CommandOK, SuccessMeansWritten, At
<1> QED BY <1>1, BridgeInvHolds, PTL

\* An apply counts no process twice, however the app and the service share the
\* work, if no process matches two rules.
THEOREM CountsAreRight ==
  ASSUME \A p \in Pids : RulesOn[p] <= 1
  PROVE  BridgeSpec => []AppliedCounts
<1>1. BridgeInv => AppliedCounts
  BY DEF BridgeInv, CommandsOK, CommandOK, AppliedCounts, At
<1> QED BY <1>1, BridgeInvHolds, PTL
=============================================================================
