-------------------------- MODULE RuleEngine_proofs ---------------------------
(***************************************************************************)
(* Proofs about the rule engine.  About ProcessAffinity: that a skipped    *)
(* write was not needed, for every number of threads, processor groups and *)
(* disturbances and every set of rules that does not take a process back   *)
(* and forth between masks for several groups and CPU Sets.  About         *)
(* Matcher: that glob_match finds what its pattern means, for every set of *)
(* characters and every pattern and name.                                  *)
(***************************************************************************)
EXTENDS ProcessAffinity, Matcher, TLAPS, WellFoundedInduction

(* Masks *)

Before == {ss \in Nat \X Nat : ss[1] < ss[2]}

LEMMA BeforeIsWellFounded == IsWellFoundedOn(Before, Nat)
<1>1. OpToRel(<, Nat) = Before
  BY DEF OpToRel, Before
<1> QED BY <1>1, NatLessThanWellFounded

\* A set of naturals has a first one.
LEMMA FirstOfSome ==
  ASSUME NEW S \in SUBSET Nat, S # {}
  PROVE  \E n \in S : \A m \in 0..n - 1 : m \notin S
<1>1. PICK n \in S : \A m \in S : ~(<<m, n>> \in Before)
  BY BeforeIsWellFounded, WFMin
<1>2. ASSUME NEW m \in 0..n - 1 PROVE m \notin S
  <2>1. m \in Nat /\ n \in Nat /\ m < n
    OBVIOUS
  <2>2. <<m, n>> \in Before
    BY <2>1 DEF Before
  <2> QED BY <1>1, <2>2
<1> QED BY <1>2

\* The primary group exists, and every group has a processor.
LEMMA GroupsExist ==
  /\ Primary \in Groups /\ Groups \subseteq Nat
  /\ \A g \in Groups : System(g) # {} /\ System(g) \subseteq Lps
<1>1. /\ ActiveCounts \in Seq(Nat \ {0}) /\ Len(ActiveCounts) \in Nat
      /\ Len(ActiveCounts) # 0
  BY AffinityAssumption
<1>2. Primary \in Groups /\ Groups \subseteq Nat
  BY <1>1 DEF Primary, Groups
<1>3. ASSUME NEW g \in Groups PROVE System(g) # {}
  <2>1. g + 1 \in 1..Len(ActiveCounts)
    BY <1>1 DEF Groups
  <2>2. ActiveCounts[g + 1] \in Nat \ {0}
    BY <1>1, <2>1
  <2>3. 0 \in System(g)
    BY <2>2 DEF System
  <2> QED BY <2>3
<1> QED BY <1>2, <1>3 DEF Lps

\* A rule that is valid has a group to send a thread to, and the masks of a
\* group lie within it.
LEMMA MaskWithin ==
  ASSUME NEW masks \in Seq(SUBSET (0..63)), ValidGroupMasks(masks), NEW g \in Groups
  PROVE  MaskOf(masks, g) \subseteq System(g)
<1>1. CASE g + 1 \in DOMAIN masks
  <2>1. (g + 1) - 1 = g
    BY GroupsExist
  <2> QED BY <1>1, <2>1 DEF MaskOf, ValidGroupMasks
<1>2. CASE g + 1 \notin DOMAIN masks
  BY <1>2 DEF MaskOf
<1> QED BY <1>1, <1>2

LEMMA TargetIsGroup ==
  ASSUME NEW masks \in Seq(SUBSET (0..63)), ValidGroupMasks(masks),
         NEW th, threads[th].group \in Groups, NEW known
  PROVE  /\ TargetGroup(th, masks, known) \in Groups
         /\ MaskOf(masks, TargetGroup(th, masks, known)) # {}
<1> DEFINE S == {g \in Groups : MaskOf(masks, g) # {}}
<1>1. S # {}
  <2>1. PICK i \in DOMAIN masks : masks[i] # {}
    BY DEF ValidGroupMasks
  <2>2. Len(masks) \in Nat /\ Len(ActiveCounts) \in Nat /\ i \in 1..Len(masks)
    BY AffinityAssumption
  <2>3. i - 1 \in Groups /\ (i - 1) + 1 = i
    BY <2>2 DEF Groups, ValidGroupMasks
  <2> QED BY <2>1, <2>3 DEF MaskOf
<1>2. PICK n \in S : \A m \in 0..n - 1 : m \notin S
  BY <1>1, GroupsExist, FirstOfSome
<1>3. \A m \in 0..n - 1 : m \in Groups
  BY GroupsExist, AffinityAssumption DEF Groups
<1>4. /\ n \in Groups /\ MaskOf(masks, n) # {}
      /\ \A h \in 0..n - 1 : MaskOf(masks, h) = {}
  BY <1>2, <1>3
<1>5. FirstGroup(masks) \in Groups /\ MaskOf(masks, FirstGroup(masks)) # {}
  BY <1>4 DEF FirstGroup
<1> QED BY <1>5 DEF TargetGroup

-----------------------------------------------------------------------------
(* The process *)

ThreadState == [group : Groups, mask : SUBSET Lps, own : BOOLEAN]

\* A mask a thread can have in its group.
Sits(c) == c.mask # {} /\ c.mask \subseteq System(c.group)

\* In the primary group no thread exceeds the process.
Below(c, h) == c.group = Primary => c.mask \subseteq h

\* Where only the process is written, its threads have its mask, unless one
\* chose its own.
Follows(c, h) == c.group = Primary /\ ~c.own => c.mask = h

NoGrouped == \A r \in family : ~IsGrouped(r)

HostOK ==
  /\ threads \in [Threads -> ThreadState \cup {Absent}]
  /\ Live # {}
  /\ hard # {} /\ hard \subseteq System(Primary)
  /\ \A th \in Live : /\ Sits(threads[th]) /\ Below(threads[th], hard)
                      /\ NoGrouped => Follows(threads[th], hard)

\* What a pass writes is valid, and needs to be written thread by thread.
PassOK ==
  pass # Idle =>
    ValidGroupMasks(pass.rule.masks) /\ IsGrouped(pass.rule) /\ pass.rule \in family

RestOK ==
  /\ family \in Families /\ rule \in family
  /\ cpu_sets \subseteq Groups \X Lps
  /\ pass = Idle \/ pass \in [rule : family, todo : SUBSET Threads, all_failed : BOOLEAN]
  /\ outcome \in {"none", "skipped", "applied", "failed"}
  /\ budget \in 0..MaxDisturbances

AffinityInv == HostOK /\ PassOK /\ RestOK

LEMMA PlacedType ==
  ASSUME NEW g \in Groups, NEW mask \in SUBSET System(g)
  PROVE  /\ Placed(g, mask) \in ThreadState /\ Placed(g, mask) # Absent
         /\ Placed(g, mask).group = g /\ Placed(g, mask).mask = mask
         /\ ~Placed(g, mask).own
<1>1. Placed(g, mask) \in ThreadState
  BY GroupsExist DEF Placed, ThreadState
<1> QED BY <1>1, AffinityAssumption DEF Placed, ThreadState

LEMMA StateType ==
  ASSUME HostOK, NEW th \in Live
  PROVE  /\ threads[th] \in ThreadState /\ threads[th].group \in Groups
         /\ Sits(threads[th]) /\ Below(threads[th], hard)
         /\ NoGrouped => Follows(threads[th], hard)
BY DEF HostOK, Live, ThreadState

\* Which rules there are does not change.
SameRules == UNCHANGED <<family, cpu_sets_available>>

LEMMA SameGrouped ==
  ASSUME SameRules
  PROVE  NoGrouped' = NoGrouped /\ \A r : IsGrouped(r)' = IsGrouped(r)
BY DEF SameRules, NoGrouped, IsGrouped, IsSoft

\* Windows moves the threads of the primary group to the mask of the process.
LEMMA ProcessWritten ==
  ASSUME HostOK, SameRules, NEW mask \in SUBSET System(Primary), mask # {},
         SetProcessAffinityMask(mask)
  PROVE  HostOK'
<1> DEFINE c == Placed(Primary, mask)
<1>1. /\ c \in ThreadState /\ c # Absent /\ c.group = Primary /\ c.mask = mask
      /\ ~c.own
  BY PlacedType, GroupsExist
<1>2. /\ hard' = mask
      /\ threads' = [th \in Threads |->
                       IF th \in Live /\ threads[th].group = Primary
                       THEN c ELSE threads[th]]
  BY DEF SetProcessAffinityMask
<1> HIDE DEF c
<1>3. threads' \in [Threads -> ThreadState \cup {Absent}]
  BY <1>1, <1>2 DEF HostOK
<1>4. Live' = Live
  BY <1>1, <1>2 DEF Live
<1>5. ASSUME NEW th \in Live
      PROVE  Sits(threads'[th]) /\ Below(threads'[th], mask) /\ (NoGrouped => Follows(threads'[th], mask))
  <2>1. th \in Threads
    BY DEF Live
  <2>2. CASE threads[th].group = Primary
    <3>1. threads'[th] = c
      BY <1>2, <2>1, <2>2
    <3> QED BY <1>1, <3>1 DEF Sits, Below, Follows
  <2>3. CASE threads[th].group # Primary
    <3>1. threads'[th] = threads[th]
      BY <1>2, <2>1, <2>3
    <3> QED BY <2>3, <3>1 DEF HostOK, Sits, Below, Follows
  <2> QED BY <2>2, <2>3
<1> QED BY <1>2, <1>3, <1>4, <1>5, SameGrouped DEF HostOK

\* One thread comes, or moves.
LEMMA ThreadPlaced ==
  ASSUME HostOK, SameRules, NEW th \in Threads, NEW c \in ThreadState,
         Sits(c), Below(c, hard), NoGrouped => Follows(c, hard),
         threads' = [threads EXCEPT ![th] = c], UNCHANGED hard
  PROVE  HostOK'
<1>1. c # Absent
  BY AffinityAssumption DEF ThreadState
<1>2. /\ threads' \in [Threads -> ThreadState \cup {Absent}]
      /\ threads'[th] = c /\ \A u \in Threads : u # th => threads'[u] = threads[u]
  BY DEF HostOK
<1>3. Live' = Live \cup {th}
  BY <1>1, <1>2 DEF Live
<1>4. ASSUME NEW u \in Live'
      PROVE  Sits(threads'[u]) /\ Below(threads'[u], hard) /\ (NoGrouped => Follows(threads'[u], hard))
  <2>1. CASE u = th
    BY <1>2, <2>1
  <2>2. CASE u # th
    <3>1. u \in Live /\ threads'[u] = threads[u]
      BY <1>2, <1>3, <2>2 DEF Live
    <3> QED BY <3>1 DEF HostOK
  <2> QED BY <2>1, <2>2
<1> QED BY <1>2, <1>3, <1>4, SameGrouped DEF HostOK

\* A thread that is not the last one ends.
LEMMA ThreadGone ==
  ASSUME HostOK, SameRules, NEW th \in Live, Live # {th},
         threads' = [threads EXCEPT ![th] = Absent], UNCHANGED hard
  PROVE  HostOK'
<1>1. /\ threads' \in [Threads -> ThreadState \cup {Absent}]
      /\ threads'[th] = Absent /\ \A u \in Threads : u # th => threads'[u] = threads[u]
  BY DEF HostOK, Live
<1>2. Live' = Live \ {th}
  BY <1>1 DEF Live
<1> QED BY <1>1, <1>2, SameGrouped DEF HostOK, Live

LEMMA HostSame ==
  ASSUME HostOK, SameRules, UNCHANGED <<threads, hard>>
  PROVE  HostOK'
<1>1. Live' = Live
  BY DEF Live
<1> QED BY <1>1, SameGrouped DEF HostOK


-----------------------------------------------------------------------------
(* Disturbances *)

\* What a step leaves of the rules and the pass, when others act.
Others == UNCHANGED <<family, cpu_sets_available, cpu_sets, pass, outcome>>

LEMMA RestSame ==
  ASSUME AffinityInv, Others, rule' \in family, budget' \in 0..MaxDisturbances, HostOK'
  PROVE  AffinityInv'
<1>1. RestOK'
  BY DEF AffinityInv, RestOK, Others
<1>2. PassOK'
  BY SameGrouped DEF AffinityInv, PassOK, Others, SameRules
<1> QED BY <1>1, <1>2 DEF AffinityInv

LEMMA Budget ==
  ASSUME RestOK, Disturb
  PROVE  budget' \in 0..MaxDisturbances
BY AffinityAssumption DEF RestOK, Disturb

LEMMA ThreadStartKeeps ==
  ASSUME AffinityInv, ThreadStart
  PROVE  AffinityInv'
<1>1. HostOK /\ Disturb /\ SameRules /\ UNCHANGED hard /\ Others /\ rule' \in family
  BY DEF ThreadStart, AffinityInv, RestOK, SameRules, Others
<1>2. PICK th \in Threads \ Live, new \in {threads[c] : c \in Live} \cup {Placed(Primary, hard)} :
        threads' = [threads EXCEPT ![th] = new]
  BY DEF ThreadStart
<1>3. new \in ThreadState /\ Sits(new) /\ Below(new, hard) /\ (NoGrouped => Follows(new, hard))
  <2>1. CASE new = Placed(Primary, hard)
    BY <1>1, <2>1, PlacedType, GroupsExist DEF HostOK, Sits, Below, Follows
  <2>2. CASE new \in {threads[c] : c \in Live}
    BY <1>1, <2>2, StateType
  <2> QED BY <2>1, <2>2
<1>4. HostOK'
  BY <1>1, <1>2, <1>3, ThreadPlaced
<1> QED BY <1>1, <1>4, Budget, RestSame DEF AffinityInv

LEMMA ThreadExitKeeps ==
  ASSUME AffinityInv, ThreadExit
  PROVE  AffinityInv'
<1>1. HostOK /\ Disturb /\ SameRules /\ UNCHANGED hard /\ Others /\ rule' \in family
  BY DEF ThreadExit, AffinityInv, RestOK, SameRules, Others
<1>2. HostOK'
  BY <1>1, ThreadGone DEF ThreadExit
<1> QED BY <1>1, <1>2, Budget, RestSame DEF AffinityInv

LEMMA ForeignWriteKeeps ==
  ASSUME AffinityInv, ForeignWrite
  PROVE  AffinityInv'
<1>1. HostOK /\ Disturb /\ SameRules /\ Others /\ rule' \in family
  BY DEF ForeignWrite, AffinityInv, RestOK, SameRules, Others
<1>2. ASSUME NEW mask \in (SUBSET System(Primary)) \ {{}}, SetProcessAffinityMask(mask)
      PROVE  HostOK'
  <2>1. mask \in SUBSET System(Primary) /\ mask # {}
    OBVIOUS
  <2> QED BY <1>1, <1>2, <2>1, ProcessWritten
<1>3. ASSUME NEW th \in Live, NEW g \in Groups, NEW mask \in (SUBSET System(g)) \ {{}},
             ~Exceeds(g, mask), UNCHANGED hard,
             threads' = [threads EXCEPT ![th] = [group |-> g, mask |-> mask, own |-> TRUE]]
      PROVE  HostOK'
  <2> DEFINE c == [group |-> g, mask |-> mask, own |-> TRUE]
  <2>1. c \in ThreadState /\ Sits(c) /\ Below(c, hard) /\ Follows(c, hard)
    <3>1. c.group = g /\ c.mask = mask /\ c.own
      OBVIOUS
    <3>2. mask # {} /\ mask \subseteq System(g) /\ mask \subseteq Lps
      BY GroupsExist
    <3>3. c \in ThreadState
      BY <3>2 DEF ThreadState
    <3> HIDE DEF c
    <3> QED BY <1>3, <3>1, <3>2, <3>3 DEF Sits, Below, Follows, Exceeds
  <2>2. th \in Threads /\ threads' = [threads EXCEPT ![th] = c]
    BY <1>3 DEF Live
  <2> HIDE DEF c
  <2> QED BY <1>1, <1>3, <2>1, <2>2, ThreadPlaced
<1>4. HostOK'
  BY <1>2, <1>3 DEF ForeignWrite
<1> QED BY <1>1, <1>4, Budget, RestSame DEF AffinityInv

LEMMA EditRuleKeeps ==
  ASSUME AffinityInv, EditRule
  PROVE  AffinityInv'
<1>1. HostOK /\ Disturb /\ SameRules /\ Others /\ rule' \in family
  BY DEF EditRule, AffinityInv, SameRules, Others
<1>2. HostOK'
  BY <1>1, HostSame DEF EditRule
<1> QED BY <1>1, <1>2, Budget, RestSame DEF AffinityInv

-----------------------------------------------------------------------------
(* Passes *)

\* The rules of a family are rules.
LEMMA RuleType ==
  ASSUME RestOK, NEW r \in family
  PROVE  r.masks \in Seq(SUBSET (0..63)) /\ r.mode \in {"strict", "soft"}
<1>1. r \in Rule
  BY AffinityAssumption DEF RestOK
<1> QED BY <1>1 DEF Rule

LEMMA Reported ==
  ASSUME AffinityInv, HostOK', NEW o \in {"skipped", "applied", "failed"}, Report(o),
         UNCHANGED <<family, rule>>, cpu_sets' \subseteq Groups \X Lps,
         budget' \in 0..MaxDisturbances
  PROVE  AffinityInv'
<1>1. pass' = Idle /\ outcome' = o
  BY DEF Report
<1> QED BY <1>1 DEF AffinityInv, RestOK, PassOK

LEMMA WritesEffect ==
  ASSUME AffinityInv, Writes
  PROVE  ValidGroupMasks(rule.masks) /\ budget' \in 0..MaxDisturbances
BY Budget DEF AffinityInv, Writes, RestOK

LEMMA SkipKeeps ==
  ASSUME AffinityInv, Skip \/ Fail \/ EndThreads
  PROVE  AffinityInv'
<1>1. /\ SameRules /\ UNCHANGED <<family, rule, threads, hard, cpu_sets>>
      /\ HostOK /\ RestOK
  BY DEF Skip, Fail, EndThreads, SameRules, AffinityInv
<1>2. budget' \in 0..MaxDisturbances
  BY <1>1, Budget DEF Skip, Fail, EndThreads, RestOK
<1>3. HostOK'
  BY <1>1, HostSame
<1>4. PICK o \in {"skipped", "applied", "failed"} : Report(o)
  BY DEF Skip, Fail, EndThreads
<1>5. cpu_sets' \subseteq Groups \X Lps
  BY <1>1 DEF RestOK
<1> QED BY <1>1, <1>2, <1>3, <1>4, <1>5, Reported

LEMMA WriteSoftKeeps ==
  ASSUME AffinityInv, WriteSoft
  PROVE  AffinityInv'
<1>1. /\ HostOK /\ SameRules /\ UNCHANGED <<family, rule>>
      /\ budget' \in 0..MaxDisturbances
  BY WritesEffect DEF WriteSoft, SameRules, AffinityInv
<1>2. cpu_sets' \subseteq Groups \X Lps
  BY DEF WriteSoft, CpuSetIds
<1>3. CASE SetProcessAffinityMask(System(Primary)) /\ Report("applied")
  <2>1. HostOK'
    BY <1>1, <1>3, ProcessWritten, GroupsExist
  <2> QED BY <1>1, <1>2, <1>3, <2>1, Reported
<1>4. CASE UNCHANGED <<hard, threads>> /\ (Report("failed") \/ Report("applied"))
  <2>1. HostOK'
    BY <1>1, <1>4, HostSame
  <2> QED BY <1>1, <1>2, <1>4, <2>1, Reported
<1> QED BY <1>3, <1>4 DEF WriteSoft

LEMMA WriteProcessKeeps ==
  ASSUME AffinityInv, WriteProcess
  PROVE  AffinityInv'
<1>1. /\ HostOK /\ RestOK /\ SameRules /\ UNCHANGED <<family, rule, cpu_sets>>
      /\ budget' \in 0..MaxDisturbances /\ ValidGroupMasks(rule.masks)
      /\ ~IsSoft(rule) /\ ~IsGrouped(rule) /\ rule \in family
      /\ SetProcessAffinityMask(rule.masks[1]) /\ Report("applied")
  BY WritesEffect DEF WriteProcess, SameRules, AffinityInv, RestOK
<1> DEFINE masks == rule.masks
<1>2. masks \in Seq(SUBSET (0..63))
  BY <1>1, RuleType
<1>3. Len(masks) = 1 /\ DOMAIN masks = {1}
  <2>1. ~(Len(masks) > 1) /\ masks # <<>>
    BY <1>1 DEF IsGrouped, ValidGroupMasks
  <2> HIDE DEF masks
  <2>2. Len(masks) \in Nat /\ DOMAIN masks = 1..Len(masks) /\ Len(masks) # 0
    BY <1>2, <2>1
  <2>3. Len(masks) = 1
    BY <2>1, <2>2
  <2> QED BY <2>2, <2>3
<1>4. masks[1] # {} /\ masks[1] \subseteq System(Primary)
  BY <1>1, <1>3 DEF ValidGroupMasks, Primary
<1>5. HostOK'
  BY <1>1, <1>4, ProcessWritten
<1>6. cpu_sets' \subseteq Groups \X Lps
  BY <1>1 DEF RestOK
<1> QED BY <1>1, <1>5, <1>6, Reported

LEMMA WriteThreadsKeeps ==
  ASSUME AffinityInv, WriteThreads
  PROVE  AffinityInv'
<1>1. /\ HostOK /\ RestOK /\ SameRules
      /\ UNCHANGED <<family, rule, cpu_sets, threads, hard, outcome>>
      /\ budget' \in 0..MaxDisturbances /\ ValidGroupMasks(rule.masks)
      /\ IsGrouped(rule) /\ rule \in family
      /\ pass' = [rule |-> rule, todo |-> Live, all_failed |-> TRUE]
  BY WritesEffect DEF WriteThreads, SameRules, AffinityInv, RestOK
<1>2. HostOK'
  BY <1>1, HostSame
<1>3. PassOK'
  BY <1>1, SameGrouped DEF PassOK
<1>4. RestOK'
  BY <1>1 DEF RestOK, Live
<1> QED BY <1>2, <1>3, <1>4 DEF AffinityInv

LEMMA WriteThreadKeeps ==
  ASSUME AffinityInv, WriteThread
  PROVE  AffinityInv'
<1> DEFINE masks == pass.rule.masks
<1>1. /\ HostOK /\ RestOK /\ PassOK /\ SameRules /\ pass # Idle
      /\ UNCHANGED <<family, rule, cpu_sets, hard, outcome>>
  BY DEF WriteThread, AffinityInv, SameRules
<1>2. /\ ValidGroupMasks(masks) /\ IsGrouped(pass.rule) /\ pass.rule \in family
      /\ pass.todo \subseteq Threads
  BY <1>1 DEF PassOK, RestOK
<1>3. masks \in Seq(SUBSET (0..63)) /\ ~NoGrouped
  BY <1>1, <1>2, RuleType DEF NoGrouped
<1>11. budget' \in 0..MaxDisturbances
  <2>1. UNCHANGED budget \/ Disturb
    BY DEF WriteThread
  <2> QED BY <1>1, <2>1, AffinityAssumption DEF RestOK, Disturb
<1>12. PICK known \in BOOLEAN, works \in BOOLEAN, th \in pass.todo :
        LET group  == TargetGroup(th, masks, known)
            mask   == MaskOf(masks, group)
            writes == th \in Live /\ works /\ ~Exceeds(group, mask)
        IN  /\ threads' = IF writes THEN [threads EXCEPT ![th] = Placed(group, mask)]
                          ELSE threads
            /\ pass' = [pass EXCEPT !.todo = @ \ {th}, !.all_failed = @ /\ ~writes]
  BY DEF WriteThread
<1> DEFINE group(d) == TargetGroup(d, masks, known)
           mask(d) == MaskOf(masks, group(d))
           writes(d) == d \in Live /\ works /\ ~Exceeds(group(d), mask(d))
<1>4. /\ threads' = IF writes(th) THEN [threads EXCEPT ![th] = Placed(group(th), mask(th))]
                    ELSE threads
      /\ pass' = [pass EXCEPT !.todo = @ \ {th}, !.all_failed = @ /\ ~writes(th)]
  BY <1>12
<1>5. ASSUME writes(th) PROVE HostOK'
  <2>1. threads[th].group \in Groups
    BY <1>1, <1>5, StateType
  <2>2. group(th) \in Groups /\ mask(th) # {}
    BY <1>2, <1>3, <2>1, TargetIsGroup
  <2>3. mask(th) \in SUBSET System(group(th))
    BY <1>2, <1>3, <2>2, MaskWithin
  <2>4. ~Exceeds(group(th), mask(th)) /\ th \in Threads
    BY <1>2, <1>5
  <2> HIDE DEF group, mask
  <2> DEFINE c == Placed(group(th), mask(th))
  <2>5. c \in ThreadState /\ c.group = group(th) /\ c.mask = mask(th)
    BY <2>2, <2>3, PlacedType
  <2>6. threads' = [threads EXCEPT ![th] = c]
    BY <1>4, <1>5
  <2> HIDE DEF c
  <2>7. Sits(c) /\ Below(c, hard)
    BY <2>2, <2>3, <2>4, <2>5 DEF Sits, Below, Exceeds
  <2> QED BY <1>1, <1>3, <2>4, <2>5, <2>6, <2>7, ThreadPlaced
<1>6. ASSUME ~writes(th) PROVE HostOK'
  <2>1. UNCHANGED threads
    BY <1>4, <1>6
  <2> QED BY <1>1, <2>1, HostSame
<1>7. HostOK'
  BY <1>5, <1>6
<1>8. /\ pass' \in [rule : family, todo : SUBSET Threads, all_failed : BOOLEAN]
      /\ pass'.rule = pass.rule
  BY <1>1, <1>4 DEF RestOK
<1>9. PassOK'
  BY <1>1, <1>2, <1>8, SameGrouped DEF PassOK
<1>10. RestOK'
  BY <1>1, <1>2, <1>8, <1>11 DEF RestOK
<1> QED BY <1>7, <1>9, <1>10 DEF AffinityInv


-----------------------------------------------------------------------------
(* The theorems *)

\* The invariant of the process and its passes is inductive.
THEOREM AffinityInvHolds == AffinitySpec => []AffinityInv
<1>1. AffinityInit => AffinityInv
  <2> SUFFICES ASSUME AffinityInit PROVE AffinityInv
    OBVIOUS
  <2>1. ASSUME NEW g \in Groups
        PROVE  /\ Placed(g, System(g)) \in ThreadState
               /\ Sits(Placed(g, System(g))) /\ Below(Placed(g, System(g)), System(Primary))
               /\ Follows(Placed(g, System(g)), System(Primary))
    BY PlacedType, GroupsExist DEF Sits, Below, Follows
  <2>2. threads \in [Threads -> {Placed(g, System(g)) : g \in Groups} \cup {Absent}]
    BY DEF AffinityInit
  <2>3. threads \in [Threads -> ThreadState \cup {Absent}]
    BY <2>1, <2>2
  <2>4. \A th \in Live : \E g \in Groups : threads[th] = Placed(g, System(g))
    BY <2>2 DEF Live
  <2>5. hard = System(Primary) /\ hard # {} /\ Live # {}
    BY GroupsExist DEF AffinityInit
  <2>6. HostOK
    BY <2>1, <2>3, <2>4, <2>5 DEF HostOK
  <2>7. RestOK /\ PassOK
    BY AffinityAssumption DEF AffinityInit, RestOK, PassOK
  <2> QED BY <2>6, <2>7 DEF AffinityInv
<1>2. AffinityInv /\ [AffinityNext]_avars => AffinityInv'
  <2> SUFFICES ASSUME AffinityInv, [AffinityNext]_avars PROVE AffinityInv'
    OBVIOUS
  <2>1. CASE UNCHANGED avars
    <3>1. SameRules /\ UNCHANGED <<family, rule, threads, hard, cpu_sets, pass, outcome, budget>>
      BY <2>1 DEF avars, SameRules
    <3>2. HostOK'
      BY <3>1, HostSame DEF AffinityInv
    <3>3. RestOK' /\ PassOK'
      BY <3>1, SameGrouped DEF AffinityInv, RestOK, PassOK
    <3> QED BY <3>2, <3>3 DEF AffinityInv
  <2> QED BY <2>1, ThreadStartKeeps, ThreadExitKeeps, ForeignWriteKeeps, EditRuleKeeps,
             SkipKeeps, WriteSoftKeeps, WriteProcessKeeps, WriteThreadsKeeps,
             WriteThreadKeeps DEF AffinityNext, Apply
<1> QED BY <1>1, <1>2, PTL DEF AffinitySpec

\* AffinityTypeOK: whatever others do to a process between the calls of a pass,
\* at least one of its threads runs, on processors of its own group, and the
\* process mask is never empty (procwin.rs).
THEOREM AffinityTypes == AffinitySpec => []AffinityTypeOK
<1>1. AffinityInv => AffinityTypeOK
  BY DEF AffinityInv, HostOK, RestOK, AffinityTypeOK, Live, ThreadState, Sits
<1> QED BY <1>1, AffinityInvHolds, PTL

\* What affinity_matches compares is all there is to compare, unless CPU Sets,
\* which leave the threads where they are, take turns with masks for several
\* groups, which are written to the threads.
LEMMA MatchConforms ==
  ASSUME AffinityInv, AffinityMatches(rule), IsSoft(rule) => NoGrouped
  PROVE  Conforms(rule)
<1> DEFINE masks == rule.masks
<1>1. /\ HostOK /\ RestOK /\ rule \in family /\ family \in Families
      /\ ValidGroupMasks(masks)
  BY DEF AffinityInv, RestOK, AffinityMatches
<1>2. masks \in Seq(SUBSET (0..63)) /\ rule.mode \in {"strict", "soft"}
  BY <1>1, RuleType
<1>3. Len(masks) \in Nat /\ DOMAIN masks = 1..Len(masks) /\ Len(masks) # 0
  <2>1. masks # <<>>
    BY <1>1 DEF ValidGroupMasks
  <2> HIDE DEF masks
  <2> QED BY <1>2, <2>1
<1>4. \A g \in Groups : g \in Nat /\ (g + 1 \in DOMAIN masks <=> g < Len(masks))
  BY <1>3, GroupsExist
<1>5. ASSUME IsSoft(rule) PROVE Conforms(rule)
  <2>1. cpu_sets = CpuSetIds(masks) /\ hard = System(Primary)
    BY <1>5 DEF AffinityMatches, SoftAffinityMatches
  <2>2. CpuSetIds(masks) = {s \in Groups \X Lps : s[1] < Len(masks) /\ s[2] \in masks[s[1] + 1]}
    <3>1. ASSUME NEW g \in Groups, NEW b \in Lps
          PROVE  (b \in System(g) /\ b \in MaskOf(masks, g)) <=> (g < Len(masks) /\ b \in masks[g + 1])
      <4>1. MaskOf(masks, g) \subseteq System(g)
        BY <1>1, <1>2, MaskWithin
      <4> QED BY <1>4, <4>1 DEF MaskOf
    <3> QED BY <3>1 DEF CpuSetIds
  <2>3. NoGrouped
    BY <1>5
  <2>4. \A th \in Live : Follows(threads[th], hard)
    BY <1>1, <2>3, StateType
  <2> QED BY <1>5, <2>1, <2>2, <2>4 DEF Conforms, Follows
<1>6. ASSUME IsGrouped(rule) PROVE Conforms(rule)
  <2>1. ~IsSoft(rule) /\ Len(masks) > 1
    BY <1>6 DEF IsGrouped
  <2>2. \A g \in Groups : Union(g) = MaskOf(masks, g)
    BY <1>6 DEF AffinityMatches
  <2>3. ASSUME NEW th \in Live
        PROVE  threads[th].group < Len(masks) /\ threads[th].mask \subseteq masks[threads[th].group + 1]
    <3>1. threads[th].group \in Groups /\ threads[th].mask # {}
      BY <1>1, StateType DEF Sits
    <3>2. threads[th].mask \subseteq Union(threads[th].group)
      BY DEF Union
    <3>3. threads[th].mask \subseteq MaskOf(masks, threads[th].group)
      BY <2>2, <3>1, <3>2
    <3> QED BY <1>4, <3>1, <3>3 DEF MaskOf
  <2> QED BY <2>1, <2>3 DEF Conforms
<1>7. ASSUME ~IsSoft(rule), ~IsGrouped(rule) PROVE Conforms(rule)
  <2>1. Len(masks) = 1
    <3>1. ~(Len(masks) > 1)
      BY <1>7 DEF IsGrouped
    <3> HIDE DEF masks
    <3> QED BY <1>3, <3>1
  <2>2. hard = masks[1]
    BY <1>7 DEF AffinityMatches
  <2>3. ASSUME NEW th \in Live, threads[th].group < Len(masks)
        PROVE  threads[th].mask \subseteq masks[threads[th].group + 1]
    <3>1. threads[th].group \in Groups /\ Below(threads[th], hard)
      BY <1>1, StateType
    <3>2. threads[th].group = 0
      BY <1>4, <2>1, <2>3, <3>1
    <3> QED BY <2>2, <3>1, <3>2 DEF Below, Primary
  <2> QED BY <1>7, <2>1, <2>3 DEF Conforms
<1> QED BY <1>5, <1>6, <1>7

\* Whatever rules a process is given in turn, apply_one is right to leave it
\* alone when the rule in force is a hard one, or when it is a soft one and no
\* rule for several groups has ever been written to the threads.
THEOREM SkipsAreSafeUnlessMixed ==
  AffinitySpec => []((IsSoft(rule) => NoGrouped) => SkipIsSafe)
<1>1. AffinityInv => ((IsSoft(rule) => NoGrouped) => SkipIsSafe)
  BY MatchConforms DEF SkipIsSafe
<1> QED BY <1>1, AffinityInvHolds, PTL

\* No process goes back and forth between masks for several groups and CPU Sets.
Unmixed ==
  \A F \in Families : \A r, s \in F :
    r.mode = "soft" /\ s.mode = "strict" => ~(Len(s.masks) > 1)

\* SkipIsSafe: when apply_one leaves a process alone because its affinity
\* already matches, the process is where the rule wants it, with threads that
\* start, end and move between any two calls of a pass, failed calls, and
\* users who set the mask themselves.
THEOREM SkipsAreSafe ==
  ASSUME Unmixed
  PROVE  AffinitySpec => []SkipIsSafe
<1>1. AffinityInv => (IsSoft(rule) => NoGrouped)
  <2> SUFFICES ASSUME AffinityInv, IsSoft(rule), NEW r \in family PROVE ~IsGrouped(r)
    BY DEF NoGrouped
  <2>1. rule \in family /\ family \in Families
    BY DEF AffinityInv, RestOK
  <2>2. r.mode \in {"strict", "soft"}
    BY RuleType DEF AffinityInv
  <2>3. rule.mode = "soft" /\ cpu_sets_available
    BY DEF IsSoft
  <2> QED BY <2>1, <2>2, <2>3 DEF Unmixed, IsGrouped, IsSoft
<1> QED BY <1>1, SkipsAreSafeUnlessMixed, AffinityInvHolds, PTL

-----------------------------------------------------------------------------
(* What a pattern means, one character at a time *)

\* Character i of a pattern takes the text from cut[i - 1] to cut[i].
Takes(pattern, text, cut, i) ==
  IF pattern[i] = AnyMany THEN cut[i - 1] <= cut[i]
  ELSE cut[i] = cut[i - 1] + 1 /\ pattern[i] \in {AnyOne, text[cut[i]]}

\* The pattern after its first i characters means the text after its first j.
Rest(pattern, text, i, j) ==
  \E cut \in [i..Len(pattern) -> 0..Len(text)] :
    /\ cut[i] = j /\ cut[Len(pattern)] = Len(text)
    /\ \A k \in i + 1..Len(pattern) : Takes(pattern, text, cut, k)

LEMMA GlobIsRest ==
  ASSUME NEW P, NEW T, Len(P) \in Nat
  PROVE  Glob(P, T) <=> Rest(P, T, 0, 0)
<1>1. 0 + 1 = 1
  OBVIOUS
<1> QED BY <1>1 DEF Glob, Rest, Takes

LEMMA RestAtEnd ==
  ASSUME NEW P, NEW T, Len(P) \in Nat, Len(T) \in Nat, NEW j \in 0..Len(T)
  PROVE  Rest(P, T, Len(P), j) <=> j = Len(T)
<1> DEFINE n == Len(P)
<1>1. n \in n..n /\ n + 1..n = {}
  OBVIOUS
<1> HIDE DEF n
<1>2. ASSUME Rest(P, T, n, j) PROVE j = Len(T)
  BY <1>2 DEF Rest, n
<1>3. ASSUME j = Len(T) PROVE Rest(P, T, n, j)
  <2> DEFINE cut == [k \in n..n |-> j]
  <2>1. cut \in [n..n -> 0..Len(T)] /\ cut[n] = j
    BY <1>1
  <2> HIDE DEF cut
  <2> QED BY <1>1, <1>3, <2>1 DEF Rest, n
<1> QED BY <1>2, <1>3 DEF n

\* One character of the pattern and the rest of it.
LEMMA RestSplits ==
  ASSUME NEW P, NEW T, Len(P) \in Nat, Len(T) \in Nat,
         NEW i \in 0..Len(P) - 1, NEW j \in 0..Len(T)
  PROVE  Rest(P, T, i, j) <=>
           \E m \in 0..Len(T) :
             /\ IF P[i + 1] = AnyMany THEN j <= m
                ELSE m = j + 1 /\ P[i + 1] \in {AnyOne, T[m]}
             /\ Rest(P, T, i + 1, m)
<1> DEFINE n == Len(P)
           First(m) == IF P[i + 1] = AnyMany THEN j <= m
                       ELSE m = j + 1 /\ P[i + 1] \in {AnyOne, T[m]}
<1>1. /\ i \in i..n /\ i + 1 \in i..n /\ n \in i..n /\ n \in i + 1..n /\ i + 1 \in i + 1..n
      /\ (i + 1) - 1 = i
      /\ \A k \in i + 1..n : k \in i..n /\ k # i
      /\ \A k \in (i + 1) + 1..n :
           k \in i + 1..n /\ k - 1 \in i + 1..n /\ k # i + 1 /\ k # i /\ k - 1 # i
      /\ \A k \in i + 1..n : k = i + 1 \/ k \in (i + 1) + 1..n
  OBVIOUS
<1> HIDE DEF n
<1>2. ASSUME Rest(P, T, i, j) PROVE \E m \in 0..Len(T) : First(m) /\ Rest(P, T, i + 1, m)
  <2>1. PICK cut \in [i..n -> 0..Len(T)] :
          /\ cut[i] = j /\ cut[n] = Len(T)
          /\ \A k \in i + 1..n : Takes(P, T, cut, k)
    BY <1>2 DEF Rest, n
  <2> DEFINE m == cut[i + 1]
             tail == [k \in i + 1..n |-> cut[k]]
  <2>2. m \in 0..Len(T) /\ First(m)
    BY <1>1, <2>1 DEF Takes
  <2>3. tail \in [i + 1..n -> 0..Len(T)] /\ tail[i + 1] = m /\ tail[n] = Len(T)
    BY <1>1, <2>1
  <2>4. ASSUME NEW k \in (i + 1) + 1..n PROVE Takes(P, T, tail, k)
    <3>1. Takes(P, T, cut, k) /\ tail[k] = cut[k] /\ tail[k - 1] = cut[k - 1]
      BY <1>1, <2>1
    <3> QED BY <3>1 DEF Takes
  <2> HIDE DEF m, tail, First
  <2>5. Rest(P, T, i + 1, m)
    BY <2>3, <2>4 DEF Rest, n
  <2> QED BY <2>2, <2>5
<1>3. ASSUME NEW m \in 0..Len(T), First(m), Rest(P, T, i + 1, m) PROVE Rest(P, T, i, j)
  <2>1. PICK tail \in [i + 1..n -> 0..Len(T)] :
          /\ tail[i + 1] = m /\ tail[n] = Len(T)
          /\ \A k \in (i + 1) + 1..n : Takes(P, T, tail, k)
    BY <1>3 DEF Rest, n
  <2> DEFINE cut == [k \in i..n |-> IF k = i THEN j ELSE tail[k]]
  <2>2. \A k \in i + 1..n : cut[k] = tail[k]
    BY <1>1
  <2>3. cut[i] = j /\ cut[i + 1] = m /\ cut[n] = Len(T)
    BY <1>1, <2>1, <2>2
  <2>4. cut \in [i..n -> 0..Len(T)]
    <3>1. \A k \in i..n : k = i \/ k \in i + 1..n
      OBVIOUS
    <3> QED BY <2>1, <3>1
  <2> HIDE DEF cut
  <2>5. ASSUME NEW k \in i + 1..n PROVE Takes(P, T, cut, k)
    <3>1. CASE k = i + 1
      BY <1>1, <1>3, <2>3, <3>1 DEF Takes
    <3>2. CASE k \in (i + 1) + 1..n
      <4>1. Takes(P, T, tail, k) /\ tail[k] = cut[k] /\ tail[k - 1] = cut[k - 1]
        BY <1>1, <2>1, <2>2, <3>2
      <4> QED BY <4>1 DEF Takes
    <3> QED BY <1>1, <3>1, <3>2
  <2> QED BY <2>3, <2>4, <2>5 DEF Rest, n
<1> QED BY <1>2, <1>3

LEMMA RestOfStar ==
  ASSUME NEW P, NEW T, Len(P) \in Nat, Len(T) \in Nat,
         NEW i \in 0..Len(P) - 1, NEW j \in 0..Len(T), P[i + 1] = AnyMany
  PROVE  Rest(P, T, i, j) <=> \E m \in j..Len(T) : Rest(P, T, i + 1, m)
<1>1. \A m : m \in j..Len(T) <=> m \in 0..Len(T) /\ j <= m
  OBVIOUS
<1> QED BY <1>1, RestSplits

LEMMA RestOfOther ==
  ASSUME NEW P, NEW T, Len(P) \in Nat, Len(T) \in Nat,
         NEW i \in 0..Len(P) - 1, NEW j \in 0..Len(T), P[i + 1] # AnyMany
  PROVE  Rest(P, T, i, j) <=>
           j < Len(T) /\ P[i + 1] \in {AnyOne, T[j + 1]} /\ Rest(P, T, i + 1, j + 1)
<1>1. j < Len(T) <=> j + 1 \in 0..Len(T)
  OBVIOUS
<1> QED BY <1>1, RestSplits

-----------------------------------------------------------------------------
(* The loop *)

Texts == Seq(Chars)
Lowerings == Seq(Chars \cup {AnyOne, AnyMany})

MatcherTypes ==
  /\ kind \in Kinds /\ name \in Texts
  /\ p \in Lowerings /\ t \in Texts
  /\ pi \in 0..Len(p) /\ ti \in 0..Len(t) /\ mark \in 0..Len(t)
  /\ star # NoStar => star \in 0..pi - 1 /\ p[star + 1] = AnyMany /\ mark <= ti
  /\ at \in {"begin", "match", "tail", "done"}
  /\ retried \in BOOLEAN /\ result \in BOOLEAN

\* Which call is under way, and why it is made.
Calls ==
  /\ at = "begin" => ~retried
  /\ at \in {"match", "tail"} =>
       /\ kind \in {"wildcard", "path"}
       /\ t = IF retried THEN Trimmed(Lowered(name)) ELSE Lowered(name)
  /\ retried => kind = "wildcard" /\ ~Glob(p, Lowered(name))

\* Without a star what is left to match decides.
BeforeStar == star = NoStar => (Rest(p, t, 0, 0) <=> Rest(p, t, pi, ti))

\* After a star, what follows it may begin at mark or later; what has matched
\* since then would have matched there, too, and only there.
AfterStar ==
  star # NoStar =>
    /\ Rest(p, t, 0, 0) <=> \E j \in mark..Len(t) : Rest(p, t, star + 1, j)
    /\ \A j \in mark..Len(t) : Rest(p, t, star + 1, j) =>
         j + (ti - mark) <= Len(t) /\ Rest(p, t, pi, j + (ti - mark))
    /\ Rest(p, t, pi, ti) => Rest(p, t, star + 1, mark)

InTail == ti = Len(t) /\ (Rest(p, t, 0, 0) <=> Rest(p, t, pi, ti))

MatcherInv ==
  /\ MatcherTypes /\ Calls
  /\ at = "match" => BeforeStar /\ AfterStar
  /\ at = "tail" => InTail
  /\ MeansWhatItSays

LEMMA LoweredTexts ==
  /\ \A s \in Texts : Lowered(s) \in Texts
  /\ \A s \in Lowerings : Lowered(s) \in Lowerings
<1>1. ASSUME NEW s \in Texts PROVE Lowered(s) \in Texts
  <2>1. Len(s) \in Nat /\ DOMAIN s = 1..Len(s) /\ \A i \in 1..Len(s) : s[i] \in Chars
    BY DEF Texts
  <2>2. \A i \in 1..Len(s) : Lower[s[i]] \in Chars
    BY <2>1, MatcherAssumption
  <2> QED BY <2>1, <2>2 DEF Lowered, Texts
<1>2. ASSUME NEW s \in Lowerings PROVE Lowered(s) \in Lowerings
  <2>1. /\ Len(s) \in Nat /\ DOMAIN s = 1..Len(s)
        /\ \A i \in 1..Len(s) : s[i] \in Chars \cup {AnyOne, AnyMany}
    BY DEF Lowerings
  <2>2. \A c \in Chars : Lower[c] \in Chars
    BY MatcherAssumption
  <2> QED BY <2>1, <2>2 DEF Lowered, Lowerings
<1> QED BY <1>1, <1>2

LEMMA TrimmedTexts == ASSUME NEW s \in Texts PROVE Trimmed(s) \in Texts
<1>1. Suffix \in Seq(Chars)
  BY MatcherAssumption
<1>2. /\ Len(s) \in Nat /\ Len(Suffix) \in Nat /\ DOMAIN s = 1..Len(s)
      /\ \A i \in 1..Len(s) : s[i] \in Chars
  BY <1>1 DEF Texts
<1>3. CASE HasSuffix(s)
  <2> DEFINE m == Len(s) - Len(Suffix)
  <2>1. m \in 0..Len(s)
    BY <1>2, <1>3 DEF HasSuffix
  <2>2. \A i \in 1..m : i \in 1..Len(s)
    BY <1>2, <2>1
  <2> HIDE DEF m
  <2>3. SubSeq(s, 1, m) \in Seq(Chars)
    BY <1>2, <2>1, <2>2
  <2> QED BY <1>3, <2>3 DEF Trimmed, Texts, m
<1>4. CASE ~HasSuffix(s)
  BY <1>4 DEF Trimmed
<1> QED BY <1>3, <1>4

\* A name with the suffix is, without it, the rule's.
LEMMA TrimmedIsRule ==
  ASSUME NEW r \in Lowerings PROVE Trimmed(r \o Suffix) = r
<1> DEFINE s == r \o Suffix
           A == Chars \cup {AnyOne, AnyMany}
<1>1. r \in Seq(A) /\ Suffix \in Seq(A)
  BY MatcherAssumption DEF Lowerings
<1>2. /\ Len(r) \in Nat /\ Len(Suffix) \in Nat /\ s \in Seq(A)
      /\ Len(s) = Len(r) + Len(Suffix)
      /\ \A i \in 1..Len(r) : s[i] = r[i]
      /\ \A i \in 1..Len(Suffix) : s[Len(r) + i] = Suffix[i]
  BY <1>1
<1> HIDE DEF s, A
<1>3. SubSeq(s, Len(s) - Len(Suffix) + 1, Len(s)) = Suffix
  <2> DEFINE u == SubSeq(s, Len(r) + 1, Len(r) + Len(Suffix))
  <2>1. /\ \A i \in Len(r) + 1..Len(r) + Len(Suffix) : s[i] \in A
        /\ Len(r) + 1 \in Int /\ Len(r) + Len(Suffix) \in Int
    BY <1>2
  <2>2. /\ u \in Seq(A) /\ Len(u) = Len(Suffix)
        /\ \A i \in 1..Len(Suffix) : u[i] = s[Len(r) + i]
    BY <1>2, <2>1
  <2> HIDE DEF u
  <2>3. u = Suffix
    <3>1. \A i \in 1..Len(Suffix) : u[i] = Suffix[i]
      BY <1>2, <2>2
    <3> QED BY <1>1, <2>2, <3>1
  <2>4. Len(s) - Len(Suffix) + 1 = Len(r) + 1
    BY <1>2
  <2> QED BY <1>2, <2>3, <2>4 DEF u
<1>4. HasSuffix(s)
  BY <1>2, <1>3 DEF HasSuffix
<1>5. SubSeq(s, 1, Len(s) - Len(Suffix)) = r
  <2> DEFINE u == SubSeq(s, 1, Len(r))
  <2>1. u \in Seq(A) /\ Len(u) = Len(r) /\ \A i \in 1..Len(r) : u[i] = s[i]
    BY <1>2
  <2> HIDE DEF u
  <2>2. u = r
    <3>1. \A i \in 1..Len(r) : u[i] = r[i]
      BY <1>2, <2>1
    <3> QED BY <1>1, <2>1, <3>1
  <2>3. Len(s) - Len(Suffix) = Len(r)
    BY <1>2
  <2> QED BY <2>2, <2>3 DEF u
<1> QED BY <1>4, <1>5 DEF Trimmed, s

-----------------------------------------------------------------------------
(* The branches of the loop *)

LEMMA MatcherLengths ==
  ASSUME MatcherTypes
  PROVE  /\ Len(p) \in Nat /\ Len(t) \in Nat
         /\ \A i \in 1..Len(t) : t[i] \in Chars /\ t[i] # AnyMany
<1>1. \A i \in 1..Len(t) : t[i] \in Chars
  BY DEF MatcherTypes, Texts
<1> QED BY <1>1, MatcherAssumption DEF MatcherTypes, Texts, Lowerings

\* A pattern that is stuck matches nothing from here.
LEMMA StuckMeansNo ==
  ASSUME MatcherTypes, ti < Len(t), ~Same, ~AtStar
  PROVE  ~Rest(p, t, pi, ti)
<1>1. Len(p) \in Nat /\ Len(t) \in Nat /\ pi \in 0..Len(p) /\ ti \in 0..Len(t)
  BY MatcherLengths DEF MatcherTypes
<1>2. CASE pi = Len(p)
  BY <1>1, <1>2, RestAtEnd
<1>3. CASE pi < Len(p)
  <2>1. pi \in 0..Len(p) - 1 /\ p[pi + 1] # AnyMany /\ p[pi + 1] \notin {AnyOne, t[ti + 1]}
    BY <1>1, <1>3 DEF Same, AtStar, Unread
  <2> QED BY <1>1, <2>1, RestOfOther
<1> QED BY <1>1, <1>2, <1>3

LEMMA AdvanceNext ==
  ASSUME MatcherTypes, BeforeStar, AfterStar, Advance
  PROVE  BeforeStar' /\ AfterStar'
<1>1. Len(p) \in Nat /\ Len(t) \in Nat /\ pi \in 0..Len(p) /\ ti \in 0..Len(t) /\ mark \in 0..Len(t)
  BY MatcherLengths DEF MatcherTypes
<1>2. /\ pi' = pi + 1 /\ ti' = ti + 1 /\ Same
      /\ UNCHANGED <<p, t, star, mark>>
  BY DEF Advance
<1>3. pi \in 0..Len(p) - 1 /\ ti < Len(t) /\ p[pi + 1] \in {AnyOne, t[ti + 1]}
  BY <1>1, <1>2 DEF Same, Unread
<1>4. p[pi + 1] # AnyMany
  <2>1. t[ti + 1] # AnyMany
    BY <1>1, <1>3, MatcherLengths
  <2> QED BY <1>3, <2>1, MatcherAssumption
<1>5. Rest(p, t, pi, ti) <=> Rest(p, t, pi + 1, ti + 1)
  BY <1>1, <1>3, <1>4, RestOfOther
<1>6. BeforeStar'
  BY <1>2, <1>5 DEF BeforeStar
<1>7. ASSUME star # NoStar
      PROVE  /\ Rest(p, t, 0, 0) <=> \E j \in mark..Len(t) : Rest(p, t, star + 1, j)
             /\ \A j \in mark..Len(t) : Rest(p, t, star + 1, j) =>
                  /\ j + ((ti + 1) - mark) <= Len(t)
                  /\ Rest(p, t, pi + 1, j + ((ti + 1) - mark))
             /\ Rest(p, t, pi + 1, ti + 1) => Rest(p, t, star + 1, mark)
  <2>1. mark <= ti
    BY <1>7 DEF MatcherTypes
  <2>2. ASSUME NEW j \in mark..Len(t), Rest(p, t, star + 1, j)
        PROVE  /\ j + ((ti + 1) - mark) <= Len(t)
               /\ Rest(p, t, pi + 1, j + ((ti + 1) - mark))
    <3> DEFINE k == j + (ti - mark)
    <3>1. k \in 0..Len(t) /\ Rest(p, t, pi, k)
      BY <1>1, <1>7, <2>1, <2>2 DEF AfterStar
    <3>2. k + 1 = j + ((ti + 1) - mark)
      BY <1>1
    <3> HIDE DEF k
    <3>3. k < Len(t) /\ Rest(p, t, pi + 1, k + 1)
      BY <1>1, <1>3, <1>4, <3>1, RestOfOther
    <3>4. k + 1 <= Len(t)
      BY <1>1, <3>1, <3>3
    <3> QED BY <3>2, <3>3, <3>4
  <2> QED BY <1>5, <1>7, <2>2 DEF AfterStar
<1> QED BY <1>2, <1>6, <1>7 DEF AfterStar

LEMMA MeetStarNext ==
  ASSUME MatcherTypes, BeforeStar, AfterStar, MeetStar
  PROVE  BeforeStar' /\ AfterStar'
<1>1. Len(p) \in Nat /\ Len(t) \in Nat /\ pi \in 0..Len(p) /\ ti \in 0..Len(t) /\ mark \in 0..Len(t)
  BY MatcherLengths DEF MatcherTypes
<1>2. /\ star' = pi /\ mark' = ti /\ pi' = pi + 1 /\ UNCHANGED <<p, t, ti>>
      /\ pi \in 0..Len(p) - 1 /\ p[pi + 1] = AnyMany
  BY <1>1 DEF MeetStar, AtStar, Unread
<1>3. Rest(p, t, pi, ti) <=> \E j \in ti..Len(t) : Rest(p, t, pi + 1, j)
  BY <1>1, <1>2, RestOfStar
<1>4. Rest(p, t, 0, 0) <=> \E j \in ti..Len(t) : Rest(p, t, pi + 1, j)
  <2>1. CASE star = NoStar
    BY <1>3, <2>1 DEF BeforeStar
  <2>2. CASE star # NoStar
    <3>1. /\ Rest(p, t, 0, 0) <=> \E j \in mark..Len(t) : Rest(p, t, star + 1, j)
          /\ \A j \in mark..Len(t) : Rest(p, t, star + 1, j) =>
               j + (ti - mark) <= Len(t) /\ Rest(p, t, pi, j + (ti - mark))
          /\ Rest(p, t, pi, ti) => Rest(p, t, star + 1, mark)
      BY <2>2 DEF AfterStar
    <3>2. mark <= ti /\ mark \in mark..Len(t)
      BY <1>1, <2>2 DEF MatcherTypes
    <3>3. ASSUME Rest(p, t, 0, 0) PROVE \E j \in ti..Len(t) : Rest(p, t, pi + 1, j)
      <4>1. PICK j \in mark..Len(t) : Rest(p, t, star + 1, j)
        BY <3>1, <3>3
      <4> DEFINE k == j + (ti - mark)
      <4>2. k \in 0..Len(t) /\ k >= ti /\ Rest(p, t, pi, k)
        BY <1>1, <3>1, <3>2, <4>1
      <4> HIDE DEF k
      <4>3. PICK m \in k..Len(t) : Rest(p, t, pi + 1, m)
        BY <1>1, <1>2, <4>2, RestOfStar
      <4>4. m \in ti..Len(t)
        BY <1>1, <4>2
      <4> QED BY <4>3, <4>4
    <3>4. ASSUME \E j \in ti..Len(t) : Rest(p, t, pi + 1, j) PROVE Rest(p, t, 0, 0)
      BY <1>3, <3>1, <3>2, <3>4
    <3> QED BY <3>3, <3>4
  <2> QED BY <2>1, <2>2
<1>5. ASSUME NEW j \in ti..Len(t), Rest(p, t, pi + 1, j)
      PROVE  j + (ti - ti) <= Len(t) /\ Rest(p, t, pi + 1, j + (ti - ti))
  <2>1. j + (ti - ti) = j /\ j <= Len(t)
    BY <1>1
  <2> QED BY <1>5, <2>1
<1>6. pi # NoStar
  BY <1>1, MatcherAssumption
<1>7. BeforeStar'
  BY <1>2, <1>6 DEF BeforeStar
<1> QED BY <1>2, <1>4, <1>5, <1>7 DEF AfterStar

LEMMA BacktrackNext ==
  ASSUME MatcherTypes, BeforeStar, AfterStar, Backtrack
  PROVE  BeforeStar' /\ AfterStar'
<1>1. Len(p) \in Nat /\ Len(t) \in Nat /\ pi \in 0..Len(p) /\ ti \in 0..Len(t) /\ mark \in 0..Len(t)
  BY MatcherLengths DEF MatcherTypes
<1>2. /\ pi' = star + 1 /\ mark' = mark + 1 /\ ti' = mark + 1 /\ UNCHANGED <<p, t, star>>
      /\ ti < Len(t) /\ ~Same /\ ~AtStar /\ star # NoStar
  BY DEF Backtrack
<1>3. mark <= ti /\ mark \in mark..Len(t)
  BY <1>1, <1>2 DEF MatcherTypes
<1>4. /\ Rest(p, t, 0, 0) <=> \E j \in mark..Len(t) : Rest(p, t, star + 1, j)
      /\ \A j \in mark..Len(t) : Rest(p, t, star + 1, j) =>
           j + (ti - mark) <= Len(t) /\ Rest(p, t, pi, j + (ti - mark))
  BY <1>2 DEF AfterStar
<1>5. ~Rest(p, t, star + 1, mark)
  <2>1. mark + (ti - mark) = ti
    BY <1>1
  <2>2. ~Rest(p, t, pi, ti)
    BY <1>2, StuckMeansNo
  <2> QED BY <1>3, <1>4, <2>1, <2>2
<1>6. Rest(p, t, 0, 0) <=> \E j \in mark + 1..Len(t) : Rest(p, t, star + 1, j)
  <2>1. \A j : j \in mark..Len(t) <=> j = mark \/ j \in mark + 1..Len(t)
    BY <1>1
  <2> QED BY <1>4, <1>5, <2>1
<1>7. ASSUME NEW j \in mark + 1..Len(t), Rest(p, t, star + 1, j)
      PROVE  /\ j + ((mark + 1) - (mark + 1)) <= Len(t)
             /\ Rest(p, t, star + 1, j + ((mark + 1) - (mark + 1)))
  <2>1. j + ((mark + 1) - (mark + 1)) = j /\ j <= Len(t)
    BY <1>1
  <2> QED BY <1>7, <2>1
<1> QED BY <1>2, <1>6, <1>7 DEF BeforeStar, AfterStar

LEMMA TextEndsNext ==
  ASSUME MatcherTypes, BeforeStar, AfterStar, TextEnds
  PROVE  InTail'
<1>1. Len(p) \in Nat /\ Len(t) \in Nat /\ pi \in 0..Len(p) /\ ti \in 0..Len(t) /\ mark \in 0..Len(t)
  BY MatcherLengths DEF MatcherTypes
<1>2. ti = Len(t) /\ UNCHANGED <<p, t, pi, ti>>
  BY <1>1 DEF TextEnds
<1>3. CASE star = NoStar
  BY <1>2, <1>3 DEF BeforeStar, InTail
<1>4. CASE star # NoStar
  <2>1. /\ Rest(p, t, 0, 0) <=> \E j \in mark..Len(t) : Rest(p, t, star + 1, j)
        /\ \A j \in mark..Len(t) : Rest(p, t, star + 1, j) =>
             j + (ti - mark) <= Len(t) /\ Rest(p, t, pi, j + (ti - mark))
        /\ Rest(p, t, pi, ti) => Rest(p, t, star + 1, mark)
    BY <1>4 DEF AfterStar
  <2>2. mark <= ti /\ mark \in mark..Len(t) /\ mark + (ti - mark) = ti
    BY <1>1, <1>4 DEF MatcherTypes
  <2>3. ASSUME Rest(p, t, 0, 0) PROVE Rest(p, t, pi, ti)
    <3>1. PICK j \in mark..Len(t) : Rest(p, t, star + 1, j)
      BY <2>1, <2>3
    <3>2. j + (ti - mark) <= Len(t) /\ Rest(p, t, pi, j + (ti - mark))
      BY <2>1, <3>1
    <3>3. j = mark
      BY <1>1, <1>2, <3>2
    <3> QED BY <2>2, <3>2, <3>3
  <2> QED BY <1>2, <2>1, <2>2, <2>3 DEF InTail
<1> QED BY <1>3, <1>4

LEMMA SkipStarNext ==
  ASSUME MatcherTypes, InTail, SkipStar
  PROVE  InTail'
<1>1. Len(p) \in Nat /\ Len(t) \in Nat /\ pi \in 0..Len(p)
  BY MatcherLengths DEF MatcherTypes
<1>2. /\ pi' = pi + 1 /\ UNCHANGED <<p, t, ti>>
      /\ pi \in 0..Len(p) - 1 /\ p[pi + 1] = AnyMany
  BY <1>1 DEF SkipStar, AtStar, Unread
<1>3. ti = Len(t) /\ (Rest(p, t, 0, 0) <=> Rest(p, t, pi, ti)) /\ ti \in 0..Len(t)
  BY <1>1 DEF InTail
<1>4. \A j : j \in ti..Len(t) <=> j = ti
  BY <1>1, <1>3
<1>5. Rest(p, t, pi, ti) <=> Rest(p, t, pi + 1, ti)
  BY <1>1, <1>2, <1>3, <1>4, RestOfStar
<1> QED BY <1>2, <1>3, <1>5 DEF InTail

\* At its end the loop has found what the pattern means.
LEMMA PatternEndsFinds ==
  ASSUME MatcherTypes, InTail, ~AtStar
  PROVE  Glob(p, t) <=> pi = Len(p)
<1>1. Len(p) \in Nat /\ Len(t) \in Nat /\ pi \in 0..Len(p)
  BY MatcherLengths DEF MatcherTypes
<1>2. ti = Len(t) /\ (Rest(p, t, 0, 0) <=> Rest(p, t, pi, ti)) /\ ti \in 0..Len(t)
  BY <1>1 DEF InTail
<1>3. Glob(p, t) <=> Rest(p, t, 0, 0)
  BY <1>1, GlobIsRest
<1>4. CASE pi = Len(p)
  BY <1>1, <1>2, <1>3, <1>4, RestAtEnd
<1>5. CASE pi # Len(p)
  <2>1. pi \in 0..Len(p) - 1 /\ p[pi + 1] # AnyMany
    BY <1>1, <1>5 DEF AtStar, Unread
  <2>2. ~Rest(p, t, pi, ti)
    BY <1>1, <1>2, <2>1, RestOfOther
  <2> QED BY <1>2, <1>3, <1>5, <2>2
<1> QED BY <1>4, <1>5

LEMMA StuckFindsNo ==
  ASSUME MatcherTypes, BeforeStar, Stuck
  PROVE  ~Glob(p, t)
<1>1. star = NoStar /\ ti < Len(t) /\ ~Same /\ ~AtStar
  BY DEF Stuck
<1>2. ~Rest(p, t, pi, ti)
  BY <1>1, StuckMeansNo
<1>3. Len(p) \in Nat
  BY MatcherLengths
<1> QED BY <1>1, <1>2, <1>3, GlobIsRest DEF BeforeStar

\* A call begins with everything left to match.
LEMMA CallNext ==
  ASSUME NEW text \in Texts, p \in Lowerings, UNCHANGED p, Call(text)
  PROVE  /\ t' = text /\ at' = "match" /\ star' = NoStar
         /\ pi' \in 0..Len(p') /\ ti' \in 0..Len(t') /\ mark' \in 0..Len(t')
         /\ BeforeStar' /\ AfterStar'
<1>1. /\ t' = text /\ at' = "match" /\ p' = p
      /\ pi' = 0 /\ ti' = 0 /\ star' = NoStar /\ mark' = 0
  BY DEF Call
<1>2. Len(p) \in Nat /\ Len(text) \in Nat
  BY DEF Texts, Lowerings
<1>3. 0 \in 0..Len(p) /\ 0 \in 0..Len(text)
  BY <1>2
<1> QED BY <1>1, <1>3 DEF BeforeStar, AfterStar

LEMMA NameTexts ==
  ASSUME MatcherTypes
  PROVE  Lowered(name) \in Texts /\ Trimmed(Lowered(name)) \in Texts
BY LoweredTexts, TrimmedTexts DEF MatcherTypes

LEMMA BeginNext ==
  ASSUME MatcherInv, Begin
  PROVE  MatcherInv'
<1>0. MatcherTypes /\ Calls
  BY DEF MatcherInv
<1>1. at = "begin" /\ UNCHANGED <<kind, name, p, retried>> /\ ~retried
  BY <1>0 DEF Begin, Calls
<1>2. kind \in Kinds /\ name \in Texts /\ p \in Lowerings
      /\ retried = FALSE
  BY <1>0, <1>1 DEF MatcherTypes
<1>3. CASE kind = "exact"
  <2> DEFINE text == Lowered(name)
  <2>7. NameMatches(text, p) \in BOOLEAN
    BY DEF NameMatches
  <2>1. /\ at' = "done" /\ result' = NameMatches(text, p)
        /\ UNCHANGED <<t, pi, ti, star, mark>>
    <3>1. /\ at' = "done" /\ UNCHANGED <<t, pi, ti, star, mark>>
          /\ result' = (kind = "exact" /\ NameMatches(text, p))
      BY <1>3 DEF Begin
    <3> HIDE DEF text
    <3> QED BY <1>3, <2>7, <3>1
  <2>2. NameMatches(text, p) <=> p \in {text, Trimmed(text)}
    <3>1. text = p \o Suffix => Trimmed(text) = p
      BY <1>2, TrimmedIsRule
    <3> HIDE DEF text
    <3> QED BY <3>1 DEF NameMatches
  <2>3. result' \in BOOLEAN
    BY <2>1 DEF NameMatches
  <2>4. MatcherTypes'
    BY <1>0, <1>1, <2>1, <2>3 DEF MatcherTypes
  <2>5. Calls'
    BY <1>1, <2>1 DEF Calls
  <2>6. MeansWhatItSays'
    BY <1>1, <1>3, <2>1, <2>2 DEF MeansWhatItSays
  <2> QED BY <2>1, <2>4, <2>5, <2>6 DEF MatcherInv
<1>5. CASE kind = "no path"
  <2>1. /\ at' = "done" /\ result' = FALSE
        /\ UNCHANGED <<t, pi, ti, star, mark>>
    BY <1>5 DEF Begin
  <2>2. MatcherTypes'
    BY <1>0, <1>1, <2>1 DEF MatcherTypes
  <2>3. Calls' /\ MeansWhatItSays'
    BY <1>1, <1>5, <2>1 DEF Calls, MeansWhatItSays
  <2> QED BY <2>1, <2>2, <2>3 DEF MatcherInv
<1>4. CASE kind \in {"wildcard", "path"}
  <2>1. Call(Lowered(name)) /\ UNCHANGED result
    BY <1>4 DEF Begin
  <2>2. Lowered(name) \in Texts
    BY <1>0, NameTexts
  <2>3. /\ t' = Lowered(name) /\ at' = "match" /\ star' = NoStar
        /\ pi' \in 0..Len(p') /\ ti' \in 0..Len(t') /\ mark' \in 0..Len(t')
        /\ BeforeStar' /\ AfterStar'
    BY <1>1, <1>2, <2>1, <2>2, CallNext
  <2>4. MatcherTypes'
    BY <1>0, <1>1, <2>1, <2>2, <2>3 DEF MatcherTypes
  <2>5. Calls'
    BY <1>1, <1>2, <1>4, <2>3 DEF Calls
  <2>6. MeansWhatItSays'
    BY <2>3 DEF MeansWhatItSays
  <2> QED BY <2>3, <2>4, <2>5, <2>6 DEF MatcherInv
<1> QED BY <1>2, <1>3, <1>4, <1>5 DEF Kinds

\* A call that returns what the pattern means of its text.
LEMMA ReturnedNext ==
  ASSUME MatcherInv, at \in {"match", "tail"}, UNCHANGED <<kind, name, p>>,
         NEW matched \in BOOLEAN, matched <=> Glob(p, t), Returned(matched)
  PROVE  MatcherInv'
<1>0. MatcherTypes /\ Calls
  BY DEF MatcherInv
<1>1. /\ kind \in {"wildcard", "path"} /\ p \in Lowerings /\ name \in Texts
      /\ t = IF retried THEN Trimmed(Lowered(name)) ELSE Lowered(name)
      /\ retried \in BOOLEAN
      /\ retried => kind = "wildcard" /\ ~Glob(p, Lowered(name))
  BY <1>0 DEF MatcherTypes, Calls
<1>2. CASE ~matched /\ kind = "wildcard" /\ ~retried
  <2> DEFINE text == Trimmed(Lowered(name))
  <2>1. Call(text) /\ retried' = TRUE /\ UNCHANGED result
    BY <1>2 DEF Returned
  <2>2. text \in Texts
    BY <1>0, NameTexts
  <2>3. /\ t' = text /\ at' = "match" /\ star' = NoStar
        /\ pi' \in 0..Len(p') /\ ti' \in 0..Len(t') /\ mark' \in 0..Len(t')
        /\ BeforeStar' /\ AfterStar'
    BY <1>1, <2>1, <2>2, CallNext
  <2>4. MatcherTypes'
    BY <1>0, <2>1, <2>2, <2>3 DEF MatcherTypes
  <2>5. Calls'
    BY <1>1, <1>2, <2>1, <2>3 DEF Calls
  <2>6. MeansWhatItSays'
    BY <2>3 DEF MeansWhatItSays
  <2> QED BY <2>3, <2>4, <2>5, <2>6 DEF MatcherInv
<1>3. CASE ~(~matched /\ kind = "wildcard" /\ ~retried)
  <2>1. /\ at' = "done" /\ result' = matched
        /\ UNCHANGED <<t, pi, ti, star, mark, retried>>
    BY <1>3 DEF Returned
  <2>2. MatcherTypes'
    BY <1>0, <2>1 DEF MatcherTypes
  <2>3. Calls'
    BY <1>1, <2>1 DEF Calls
  <2> DEFINE text == Lowered(name)
             short == Trimmed(text)
  <2>4. kind = "path" => (matched <=> Glob(p, text))
    BY <1>1
  <2>5. kind = "wildcard" => (matched <=> Glob(p, text) \/ Glob(p, short))
    <3> HIDE DEF text, short
    <3>1. ASSUME kind = "wildcard", retried PROVE matched <=> Glob(p, text) \/ Glob(p, short)
      BY <1>1, <3>1 DEF text, short
    <3>2. ASSUME kind = "wildcard", ~retried PROVE matched <=> Glob(p, text) \/ Glob(p, short)
      BY <1>1, <1>3, <3>2 DEF text
    <3> QED BY <3>1, <3>2
  <2>6. MeansWhatItSays'
    <3> HIDE DEF text, short
    <3>1. kind' = kind /\ p' = p /\ result' = matched /\ Lowered(name)' = text
      BY <2>1 DEF text
    <3> QED BY <1>1, <2>4, <2>5, <3>1 DEF MeansWhatItSays, short
  <2> QED BY <2>1, <2>2, <2>3, <2>6 DEF MatcherInv
<1> QED BY <1>2, <1>3

LEMMA LoopNext ==
  ASSUME MatcherInv, Advance \/ MeetStar \/ Backtrack \/ TextEnds \/ SkipStar
  PROVE  MatcherInv'
<1>0. MatcherTypes /\ Calls
  BY DEF MatcherInv
<1>1. /\ UNCHANGED <<kind, name, p, t, retried, result>>
      /\ at \in {"match", "tail"} /\ at' \in {"match", "tail"}
  BY DEF Advance, MeetStar, Backtrack, TextEnds, SkipStar
<1>2. Calls' /\ MeansWhatItSays'
  BY <1>0, <1>1 DEF Calls, MeansWhatItSays
<1>3. /\ Len(p) \in Nat /\ Len(t) \in Nat /\ NoStar \notin Nat
      /\ pi \in 0..Len(p) /\ ti \in 0..Len(t) /\ mark \in 0..Len(t)
      /\ star # NoStar => star \in 0..pi - 1 /\ p[star + 1] = AnyMany /\ mark <= ti
  BY <1>0, MatcherLengths, MatcherAssumption DEF MatcherTypes
<1>4. ASSUME /\ pi' \in 0..Len(p) /\ ti' \in 0..Len(t) /\ mark' \in 0..Len(t)
             /\ star' # NoStar =>
                  star' \in 0..pi' - 1 /\ p[star' + 1] = AnyMany /\ mark' <= ti'
      PROVE  MatcherTypes'
  BY <1>0, <1>1, <1>4 DEF MatcherTypes
<1>5. CASE Advance
  <2>1. /\ at = "match" /\ at' = "match" /\ pi' = pi + 1 /\ ti' = ti + 1
        /\ UNCHANGED <<star, mark>> /\ pi < Len(p) /\ ti < Len(t)
    BY <1>5 DEF Advance, Same, Unread
  <2>2. /\ pi' \in 0..Len(p) /\ ti' \in 0..Len(t) /\ mark' \in 0..Len(t)
        /\ star' # NoStar =>
             star' \in 0..pi' - 1 /\ p[star' + 1] = AnyMany /\ mark' <= ti'
    BY <1>3, <2>1
  <2>3. BeforeStar' /\ AfterStar'
    BY <1>0, <1>5, <2>1, AdvanceNext DEF MatcherInv
  <2> QED BY <1>2, <1>4, <2>1, <2>2, <2>3 DEF MatcherInv
<1>6. CASE MeetStar
  <2>1. /\ at = "match" /\ at' = "match" /\ star' = pi /\ mark' = ti /\ pi' = pi + 1
        /\ ti' = ti /\ pi < Len(p) /\ p[pi + 1] = AnyMany
    BY <1>6 DEF MeetStar, AtStar, Unread
  <2>2. /\ pi' \in 0..Len(p) /\ ti' \in 0..Len(t) /\ mark' \in 0..Len(t)
        /\ star' # NoStar =>
             star' \in 0..pi' - 1 /\ p[star' + 1] = AnyMany /\ mark' <= ti'
    BY <1>3, <2>1
  <2>3. BeforeStar' /\ AfterStar'
    BY <1>0, <1>6, <2>1, MeetStarNext DEF MatcherInv
  <2> QED BY <1>2, <1>4, <2>1, <2>2, <2>3 DEF MatcherInv
<1>7. CASE Backtrack
  <2>1. /\ at = "match" /\ at' = "match" /\ star # NoStar /\ star' = star /\ ti < Len(t)
        /\ pi' = star + 1 /\ mark' = mark + 1 /\ ti' = mark + 1
    BY <1>7 DEF Backtrack
  <2>2. /\ pi' \in 0..Len(p) /\ ti' \in 0..Len(t) /\ mark' \in 0..Len(t)
        /\ star' # NoStar =>
             star' \in 0..pi' - 1 /\ p[star' + 1] = AnyMany /\ mark' <= ti'
    BY <1>3, <2>1
  <2>3. BeforeStar' /\ AfterStar'
    BY <1>0, <1>7, <2>1, BacktrackNext DEF MatcherInv
  <2> QED BY <1>2, <1>4, <2>1, <2>2, <2>3 DEF MatcherInv
<1>8. CASE TextEnds
  <2>1. at = "match" /\ at' = "tail" /\ UNCHANGED <<pi, ti, star, mark>>
    BY <1>8 DEF TextEnds
  <2>2. MatcherTypes'
    BY <1>3, <1>4, <2>1
  <2>3. InTail'
    BY <1>0, <1>8, <2>1, TextEndsNext DEF MatcherInv
  <2> QED BY <1>2, <2>1, <2>2, <2>3 DEF MatcherInv
<1>9. CASE SkipStar
  <2>1. /\ at = "tail" /\ at' = "tail" /\ UNCHANGED <<ti, star, mark>>
        /\ pi' = pi + 1 /\ pi < Len(p)
    BY <1>9 DEF SkipStar, AtStar, Unread
  <2>2. /\ pi' \in 0..Len(p)
        /\ star' # NoStar =>
             star' \in 0..pi' - 1 /\ p[star' + 1] = AnyMany /\ mark' <= ti'
    BY <1>3, <2>1
  <2>3. MatcherTypes'
    BY <1>3, <1>4, <2>1, <2>2
  <2>4. InTail'
    BY <1>0, <1>9, <2>1, SkipStarNext DEF MatcherInv
  <2> QED BY <1>2, <2>1, <2>3, <2>4 DEF MatcherInv
<1> QED BY <1>5, <1>6, <1>7, <1>8, <1>9

LEMMA MatcherInvInit == MatcherInit => MatcherInv
<1> SUFFICES ASSUME MatcherInit PROVE MatcherInv
  OBVIOUS
<1>1. PICK pattern \in Patterns : p = Lowered(pattern)
  BY DEF MatcherInit
<1>2. pattern \in Lowerings /\ name \in Texts
  BY MatcherAssumption DEF MatcherInit, Lowerings, Texts
<1>3. p \in Lowerings
  BY <1>1, <1>2, LoweredTexts
<1>4. /\ kind \in Kinds /\ t = <<>> /\ pi = 0 /\ ti = 0
      /\ star = NoStar /\ mark = 0 /\ at = "begin" /\ retried = FALSE /\ result = FALSE
  BY DEF MatcherInit
<1>5. Len(p) \in Nat /\ <<>> \in Texts /\ Len(<<>>) = 0
  BY <1>3 DEF Lowerings, Texts
<1>6. 0 \in 0..Len(p) /\ 0 \in 0..0
  BY <1>5
<1> QED BY <1>2, <1>3, <1>4, <1>5, <1>6
  DEF MatcherInv, MatcherTypes, Calls, MeansWhatItSays

LEMMA MatcherInvNext == MatcherInv /\ [MatcherNext]_mvars => MatcherInv'
<1> SUFFICES ASSUME MatcherInv, [MatcherNext]_mvars PROVE MatcherInv'
  OBVIOUS
<1>0. MatcherTypes
  BY DEF MatcherInv
<1>1. CASE Begin
  BY <1>1, BeginNext
<1>2. CASE Advance \/ MeetStar \/ Backtrack \/ TextEnds \/ SkipStar
  BY <1>2, LoopNext
<1>3. CASE Stuck
  <2>1. /\ at = "match" /\ Returned(FALSE) /\ UNCHANGED <<kind, name, p>>
    BY <1>3 DEF Stuck
  <2>2. FALSE <=> Glob(p, t)
    BY <1>0, <1>3, <2>1, StuckFindsNo DEF MatcherInv
  <2> QED BY <2>1, <2>2, ReturnedNext
<1>4. CASE PatternEnds
  <2>1. /\ at = "tail" /\ ~AtStar /\ Returned(pi = Len(p)) /\ UNCHANGED <<kind, name, p>>
    BY <1>4 DEF PatternEnds
  <2>2. (pi = Len(p)) <=> Glob(p, t)
    BY <1>0, <2>1, PatternEndsFinds DEF MatcherInv
  <2> QED BY <2>1, <2>2, ReturnedNext
<1>5. CASE UNCHANGED mvars
  <2>1. UNCHANGED <<kind, name, p, t, pi, ti, star, mark, at, retried, result>>
    BY <1>5 DEF mvars
  <2>2. MatcherTypes' /\ Calls' /\ MeansWhatItSays'
    BY <2>1 DEF MatcherInv, MatcherTypes, Calls, MeansWhatItSays
  <2>3. (BeforeStar' <=> BeforeStar) /\ (AfterStar' <=> AfterStar) /\ (InTail' <=> InTail)
    BY <2>1 DEF BeforeStar, AfterStar, InTail
  <2> QED BY <2>1, <2>2, <2>3 DEF MatcherInv
<1> QED BY <1>1, <1>2, <1>3, <1>4, <1>5 DEF MatcherNext

\* The inductive invariant holds always.
THEOREM MatcherInvHolds == MatcherSpec => []MatcherInv
BY MatcherInvInit, MatcherInvNext, PTL DEF MatcherSpec

\* The loop stays within its pattern and its text, and goes back only to a star.
THEOREM MatcherTypesHold == MatcherSpec => []MatcherTypeOK
<1>1. MatcherInv => MatcherTypeOK
  <2> SUFFICES ASSUME MatcherInv PROVE MatcherTypeOK
    OBVIOUS
  <2>1. Len(p) \in Nat /\ MatcherTypes /\ Calls
    BY MatcherLengths DEF MatcherInv
  <2>2. star # NoStar => star < pi
    BY <2>1 DEF MatcherTypes
  <2> QED BY <2>1, <2>2 DEF MatcherTypeOK, MatcherTypes, Calls
<1> QED BY <1>1, MatcherInvHolds, PTL

\* glob_match finds a pattern exactly where it is, although it goes back to its
\* last star only; a rule means the processes its documentation says.
THEOREM RulesMeanWhatTheySay == MatcherSpec => []MeansWhatItSays
<1>1. MatcherInv => MeansWhatItSays
  BY DEF MatcherInv
<1> QED BY <1>1, MatcherInvHolds, PTL

=============================================================================
