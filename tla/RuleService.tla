----------------------------- MODULE RuleService ------------------------------
(***************************************************************************)
(* The service main loop with both of its writers (run_service of          *)
(* cpum-service/src/main.rs): every RULE_APPLY_TICKS ticks the rules are   *)
(* loaded and applied to every process (cpum-core/src/engine.rs), and      *)
(* every tick runs ProBalance, which must leave the processes of the       *)
(* protecting rules alone.  Both write the same priorities, and neither    *)
(* knows what the other wrote.                                             *)
(*                                                                         *)
(* A rule is a record of the images it matches, whether it is enabled and  *)
(* passes validate_rule, and the class and IO priority it asks for (None:  *)
(* not managed).  Its affinity is the subject of ProcessAffinity.          *)
(***************************************************************************)
EXTENDS ProBalanceRuntime, Sequences

CONSTANTS
  RuleLists,         \* the rule lists the file can hold
  Unreadable,        \* the file cannot be read or parsed
  RULE_APPLY_TICKS   \* ticks from one rule pass to the next

\* AffinityRule, as far as the priorities need it.
Rule == [images : SUBSET Images, enabled : BOOLEAN, valid : BOOLEAN,
         class : Int \cup {None}, io : Int \cup {None}]

\* A rule that passes validate_rule asks for priorities that exist.
ASSUME RuleAssumption ==
  /\ RULE_APPLY_TICKS \in Nat \ {0}
  /\ Unreadable \notin RuleLists
  /\ RuleLists \subseteq Seq(Rule)
  /\ \A R \in RuleLists : \A i \in DOMAIN R : R[i].valid =>
       /\ R[i].class \in 0..5 \cup {None}
       /\ R[i].io \in 0..2 \cup {None}

VARIABLES
  rules,             \* the rules file
  protecting_rules,  \* the enabled rules that manage priorities, as last
                     \* loaded
  ticks,             \* ticks since the last rule pass
  unedited,          \* ticks since the rules file was saved, up to one more
                     \* than the period
  crossed            \* processes a rule wrote while ProBalance held them

rsvars == <<rtvars, rules, protecting_rules, ticks, unedited, crossed>>

ruleVars == <<rules, protecting_rules, ticks, unedited, crossed>>

RuleTypeOK ==
  /\ rules \in RuleLists \cup {Unreadable}
  /\ protecting_rules \subseteq Rule
  /\ ticks \in 0..RULE_APPLY_TICKS /\ unedited \in 0..RULE_APPLY_TICKS + 1
  /\ crossed \subseteq {p \in Pids : Live(p)}

-----------------------------------------------------------------------------
ManagesPriorities(r) == r.class # None \/ r.io # None

\* The places of the enabled rules in the list.
Active(R) == {i \in DOMAIN R : R[i].enabled}

Protecting(R) == {R[i] : i \in {j \in Active(R) : ManagesPriorities(R[j])}}

\* The images a set of rules matches.
Matched(S) == UNION {r.images : r \in S}

PrioritiesMatch(current, r) ==
  /\ r.class \in {None, current.class}
  /\ r.io \in {None, current.io}

\* How far apply_one gets with a process before a write fails.
Reaches == IF "write" \in Faults THEN {"nothing", "class", "all"} ELSE {"all"}

Or(wanted, current) == IF wanted = None THEN current ELSE wanted

\* apply_one: the priorities after one rule.
Applied(current, r, reach) ==
  IF PrioritiesMatch(current, r) \/ reach = "nothing" THEN current
  ELSE [class |-> Or(r.class, current.class),
        io    |-> IF reach = "class" THEN current.io
                                     ELSE Or(r.io, current.io)]

AfterRulesMut(name, current, R, reach) ==
  LET matching == {i \in Active(R) : name \in R[i].images}
      first    == CHOOSE i \in matching : \A j \in matching : i <= j
  IN  IF matching = {} THEN current ELSE Applied(current, R[first], reach)

\* apply_rules: the enabled rules in their order, each on what the last one
\* left.
AfterRules(name, current, R, reach) ==
  LET after[i \in 0..Len(R)] ==
        IF i = 0 THEN current
        ELSE IF i \in Active(R) /\ name \in R[i].images
             THEN Applied(after[i-1], R[i], reach)
             ELSE after[i-1]
  IN  after[Len(R)]

\* ProBalance holds p: it is lowered or boosted.
Held(p) == p \in DOMAIN tracked \/ (game_boost # None /\ game_boost.pid = p)

ApplyRules(R) ==
  \E reach \in [Pids -> Reaches] :
    LET after(p) == AfterRules(procs[p].name, Read(p), R, reach[p])
        written  == {p \in Pids : Live(p) /\ after(p) # Read(p)}
    IN  /\ procs' = [p \in Pids |->
             IF p \in written
             THEN [name |-> procs[p].name, class |-> after(p).class,
                   io |-> after(p).io, home |-> after(p)]
             ELSE procs[p]]
        /\ crossed' = crossed \cup {p \in written : Held(p)}

RulePassMut ==
  /\ Idle /\ ticks = RULE_APPLY_TICKS
  /\ ticks' = 0
  /\ \/ /\ rules \in RuleLists /\ \A i \in DOMAIN rules : rules[i].valid
        /\ protecting_rules' = Protecting(rules)
        /\ ApplyRules(rules)
     \/ /\ rules \in RuleLists => \E i \in DOMAIN rules : ~rules[i].valid
        /\ UNCHANGED <<protecting_rules, procs, crossed>>
  /\ UNCHANGED <<engineState, decisions, call, now, alive, booting,
                 game_boost, unlogged, orphans, file, edited, rules, unedited>>

\* Load the rules, refresh the protecting list, apply all of them or, when
\* one enabled rule is invalid, none.
RulePass ==
  /\ Idle /\ ticks = RULE_APPLY_TICKS
  /\ ticks' = 0
  /\ \/ /\ rules \in RuleLists
        /\ protecting_rules' = Protecting(rules)
        /\ \/ (\A i \in Active(rules) : rules[i].valid)
              /\ ApplyRules(rules)
           \/ (\E i \in Active(rules) : ~rules[i].valid)
              /\ UNCHANGED <<procs, crossed>>
     \/ rules = Unreadable /\ UNCHANGED <<protecting_rules, procs, crossed>>
  /\ UNCHANGED <<engineState, decisions, call, now, alive, booting,
                 game_boost, unlogged, orphans, file, edited, rules, unedited>>

\* One tick of ProBalance, before the rules are due again.
LoopTick ==
  /\ ticks < RULE_APPLY_TICKS
  /\ TickWith(Matched(protecting_rules)) \/ DisabledTick
  /\ ticks' = ticks + 1
  /\ unedited' = IF unedited > RULE_APPLY_TICKS THEN unedited ELSE unedited + 1
  /\ UNCHANGED <<rules, protecting_rules, crossed>>

\* A new service process starts its loop with a rule pass.
StartLoop ==
  /\ Start
  /\ ticks' = RULE_APPLY_TICKS
  /\ protecting_rules' = {}
  /\ UNCHANGED <<rules, unedited, crossed>>

LoopReload == ticks < RULE_APPLY_TICKS /\ Reload /\ UNCHANGED ruleVars
LoopFinishStart == FinishStart /\ UNCHANGED ruleVars
LoopExecute == Execute /\ UNCHANGED ruleVars
LoopAppendLog == AppendLog /\ UNCHANGED ruleVars

\* The user saves other rules, or a save is cut short.
SaveRules ==
  /\ \E R \in RuleLists \cup {Unreadable} : R # rules /\ rules' = R
  /\ unedited' = 0
  /\ UNCHANGED <<rtvars, protecting_rules, ticks, crossed>>

RuleInit ==
  /\ RuntimeInit
  /\ rules \in RuleLists
  /\ protecting_rules = {}
  /\ ticks = RULE_APPLY_TICKS /\ unedited = 0
  /\ crossed = {}

RuleNext ==
  \/ RulePass \/ LoopTick \/ StartLoop \/ LoopReload \/ LoopFinishStart
  \/ LoopExecute \/ LoopAppendLog \/ SaveRules
  \/ (Stop \/ Exit \/ Crash \/ SaveConfig) /\ UNCHANGED ruleVars
  \/ /\ Processes
     /\ crossed' = {p \in crossed : procs'[p] # Absent}
     /\ UNCHANGED <<rules, protecting_rules, ticks, unedited>>

RuleSpec == RuleInit /\ [][RuleNext]_rsvars

\* The loop goes on as long as the service process lives.
RuleFairSpec ==
  RuleSpec /\ WF_rsvars(RulePass) /\ WF_rsvars(LoopTick)
           /\ WF_rsvars(LoopReload) /\ WF_rsvars(LoopFinishStart)
           /\ WF_rsvars(LoopExecute) /\ WF_rsvars(LoopAppendLog)

-----------------------------------------------------------------------------
\* Rules a whole period old protect: in the tick after RULE_APPLY_TICKS ticks
\* without an edit, and from then on, no process a rule manages is asked to
\* be lowered, not even when another rule of the file is invalid.
ProtectionInTime ==
  unedited > RULE_APPLY_TICKS /\ rules # Unreadable =>
    \A d \in decisions :
      d.kind = "downgrade" => d.name \notin Matched(Protecting(rules))

Enforced(R) ==
  R # Unreadable /\ \A i \in Active(R) : R[i].valid

\* The last rule that manages a field of p decides it.
Decides(R, p, i, field) ==
  /\ procs[p].name \in R[i].images
  /\ R[i][field] # None
  /\ \A j \in Active(R) : j > i =>
       procs[p].name \notin R[j].images \/ R[j][field] = None

Obeys(R, p) ==
  \A i \in Active(R), field \in {"class", "io"} :
    Decides(R, p, i, field) => Read(p)[field] = R[i][field]

\* The rules prevail: when the rules and a process stay, the process ends up
\* with what the last rules that match it ask for, whatever ProBalance had
\* done or still does to it; only Game Mode may go on raising it.
RulesPrevail ==
  \A R \in RuleLists, p \in Pids :
    Enforced(R) =>
      (<>[](alive /\ call # "shutdown" /\ rules = R /\ Live(p)
              /\ ~(file.enabled /\ file.game_mode_enabled))
         => <>[](Live(p) => Obeys(R, p)))

\* Turning ProBalance off for good brings a process home that no rule
\* manages, while the service runs.  A process a rule wrote to while
\* ProBalance held it is the exception: it gets the older priorities back.
OffBringsHome ==
  \A R \in RuleLists, p \in Pids :
    <>[](alive /\ rules = R /\ Live(p) /\ ~file.enabled)
      => <>[](Live(p) /\ procs[p].name \notin Matched(Protecting(R))
                => AtHome(p) \/ p \in crossed)
=============================================================================
