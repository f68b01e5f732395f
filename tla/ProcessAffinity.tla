--------------------------- MODULE ProcessAffinity ---------------------------
(***************************************************************************)
(* The affinity half of the rule engine on one process (apply_one of       *)
(* cpum-core/src/engine.rs over cpum-core/src/procwin.rs): pass after pass *)
(* the process is compared with its rule and written only when it differs. *)
(* A strict rule is a hard mask - one call for the process when it has one *)
(* mask, one call for each thread when it has a mask for every processor   *)
(* group - and a soft rule is a set of default CPU Sets under a hard mask  *)
(* that is released.  Threads start, end and are moved by others between   *)
(* any two of these calls, and any call may fail.                          *)
(*                                                                         *)
(* A mask is the set of its bits.  What Windows does with a call is        *)
(* modelled from the comments and uses in procwin.rs and topology.rs.      *)
(***************************************************************************)
EXTENDS Integers, FiniteSets, Sequences

CONSTANTS
  Threads,
  Absent,            \* no thread has this id
  Idle,              \* no pass is writing
  ActiveCounts,      \* active logical processors of group 0, 1, ...
  Families,          \* the rules one process may be given in turn
  CPU_SET_BUFFER,    \* CPU Sets that get_process_default_cpu_set_locations reads
  MaxDisturbances    \* edits, foreign writes, thread starts and ends, failures

Groups == 0 .. Len(ActiveCounts) - 1
Primary == 0
System(group) == 0 .. ActiveCounts[group + 1] - 1
Lps == UNION {System(g) : g \in Groups}
Rule == [mode : {"strict", "soft"}, masks : Seq(SUBSET (0..63))]

ASSUME AffinityAssumption ==
  /\ ActiveCounts \in Seq(Nat \ {0}) /\ ActiveCounts # <<>>
  /\ \A F \in Families : F \subseteq Rule /\ F # {}
  /\ CPU_SET_BUFFER \in Nat /\ MaxDisturbances \in Nat
  /\ Threads # {} /\ Absent \notin [group : Groups, mask : SUBSET Lps, own : BOOLEAN]

VARIABLES
  family, rule,         \* the rules of this process, and the one in the file
  cpu_sets_available,
  threads,              \* thread -> its group, its mask in it, and whether it
                        \* chose that mask of its own
  hard,                 \* the process mask, in the primary group
  cpu_sets,             \* default CPU Sets: (group, index) pairs
  pass,                 \* the pass that is writing thread after thread
  outcome,              \* what the last pass reported
  budget                \* disturbances left

avars == <<family, rule, cpu_sets_available, threads, hard, cpu_sets, pass,
           outcome, budget>>

Live == {t \in Threads : threads[t] # Absent}

AffinityTypeOK ==
  /\ family \in Families /\ rule \in family
  /\ \A t \in Live : /\ threads[t].group \in Groups
                     /\ threads[t].mask # {}
                     /\ threads[t].mask \subseteq System(threads[t].group)
  /\ Live # {}
  /\ hard # {} /\ hard \subseteq System(Primary)
  /\ cpu_sets \subseteq Groups \X Lps
  /\ pass = Idle \/ (pass.rule \in family /\ pass.todo \subseteq Threads)
  /\ outcome \in {"none", "skipped", "applied", "failed"}
  /\ budget \in 0..MaxDisturbances

-----------------------------------------------------------------------------
(* Masks *)

\* validate_group_masks
ValidGroupMasks(masks) ==
  /\ masks # <<>> /\ Len(masks) <= Len(ActiveCounts)
  /\ \A i \in DOMAIN masks : masks[i] \subseteq System(i - 1)
  /\ \E i \in DOMAIN masks : masks[i] # {}

\* A group the masks leave out has no processor selected.
MaskOf(masks, group) ==
  IF group + 1 \in DOMAIN masks THEN masks[group + 1] ELSE {}

CpuSetIdsMut(masks) ==
  {s \in Groups \X Lps : s[2] \in System(s[1]) /\ s[2] \in MaskOf(masks, 0)}

\* cpu_set_ids_for_group_masks
CpuSetIds(masks) ==
  {s \in Groups \X Lps : s[2] \in System(s[1]) /\ s[2] \in MaskOf(masks, s[1])}

\* A soft rule is a hard one where there are no CPU Sets.
IsSoft(r) == r.mode = "soft" /\ cpu_sets_available
IsGrouped(r) == ~IsSoft(r) /\ Len(r.masks) > 1

-----------------------------------------------------------------------------
(* affinity_matches *)

\* get_process_group_masks: the union over the threads, for a group.
Union(group) == UNION {threads[t].mask : t \in {u \in Live : threads[u].group = group}}

SoftAffinityMatchesMut(masks) ==
  /\ Cardinality(cpu_sets) <= CPU_SET_BUFFER
  /\ cpu_sets = CpuSetIds(masks)

SoftAffinityMatches(masks) ==
  /\ Cardinality(cpu_sets) <= CPU_SET_BUFFER
  /\ cpu_sets = CpuSetIds(masks)
  /\ hard = System(Primary)

AffinityMatches(r) ==
  /\ ValidGroupMasks(r.masks)
  /\ IsSoft(r) => SoftAffinityMatches(r.masks)
  /\ IsGrouped(r) => \A g \in Groups : Union(g) = MaskOf(r.masks, g)
  /\ ~IsSoft(r) /\ ~IsGrouped(r) => hard = r.masks[1]

-----------------------------------------------------------------------------
(* Windows *)

Placed(group, mask) == [group |-> group, mask |-> mask, own |-> FALSE]

\* SetProcessAffinityMask: the mask of the process and of its threads, in the
\* primary group only.
SetProcessAffinityMask(mask) ==
  /\ hard' = mask
  /\ threads' = [t \in Threads |->
                   IF t \in Live /\ threads[t].group = Primary
                   THEN Placed(Primary, mask) ELSE threads[t]]

\* The mask of a thread cannot exceed that of its process.
Exceeds(group, mask) == group = Primary /\ ~(mask \subseteq hard)

Disturb == budget > 0 /\ budget' = budget - 1

\* A thread starts: like the thread that starts it, or like its process.
ThreadStart ==
  /\ Disturb
  /\ \E t \in Threads \ Live,
        new \in {threads[c] : c \in Live}
                \cup {Placed(Primary, hard)} :
       threads' = [threads EXCEPT ![t] = new]
  /\ UNCHANGED <<family, rule, cpu_sets_available, hard, cpu_sets, pass,
                 outcome>>

\* A thread that is not the last one ends.
ThreadExit ==
  /\ Disturb
  /\ \E t \in Live : Live # {t} /\ threads' = [threads EXCEPT ![t] = Absent]
  /\ UNCHANGED <<family, rule, cpu_sets_available, hard, cpu_sets, pass,
                 outcome>>

\* The user sets the mask of the process, or a thread its own.
ForeignWrite ==
  /\ Disturb
  /\ \/ \E mask \in (SUBSET System(Primary)) \ {{}} : SetProcessAffinityMask(mask)
     \/ /\ \E t \in Live, g \in Groups : \E mask \in (SUBSET System(g)) \ {{}} :
             /\ ~Exceeds(g, mask)
             /\ threads' = [threads EXCEPT
                            ![t] = [group |-> g, mask |-> mask, own |-> TRUE]]
        /\ UNCHANGED hard
  /\ UNCHANGED <<family, rule, cpu_sets_available, cpu_sets, pass, outcome>>

\* The rule is edited.
EditRule ==
  /\ Disturb
  /\ \E r \in family : r # rule /\ rule' = r
  /\ UNCHANGED <<family, cpu_sets_available, threads, hard, cpu_sets, pass,
                 outcome>>

-----------------------------------------------------------------------------
(* apply_one *)

Report(o) == pass' = Idle /\ outcome' = o

Skip ==
  /\ pass = Idle /\ AffinityMatches(rule)
  /\ Report("skipped")
  /\ UNCHANGED <<family, rule, cpu_sets_available, threads, hard, cpu_sets,
                 budget>>

\* The process cannot be opened or read, or a call on it fails.
Fail ==
  /\ pass = Idle
  /\ \/ ~ValidGroupMasks(rule.masks) /\ UNCHANGED budget
     \/ Disturb
  /\ Report("failed")
  /\ UNCHANGED <<family, rule, cpu_sets_available, threads, hard, cpu_sets>>

\* A write follows a mismatch, or a read that failed.
Writes ==
  /\ pass = Idle /\ ValidGroupMasks(rule.masks)
  /\ \/ ~AffinityMatches(rule) /\ UNCHANGED budget
     \/ Disturb

WriteSoftMut ==
  /\ Writes /\ IsSoft(rule)
  /\ cpu_sets' = CpuSetIds(rule.masks)
  /\ UNCHANGED <<hard, threads>>
  /\ Report("applied")
  /\ UNCHANGED <<family, rule, cpu_sets_available>>

\* set_process_soft_affinity_group_masks: the CPU Sets, then the hard mask
\* back to that of the system, which may fail with the CPU Sets set; where the
\* system mask cannot be read, it is left alone and nothing is reported.
WriteSoft ==
  /\ Writes /\ IsSoft(rule)
  /\ cpu_sets' = CpuSetIds(rule.masks)
  /\ \/ SetProcessAffinityMask(System(Primary)) /\ Report("applied")
     \/ /\ budget' < budget /\ UNCHANGED <<hard, threads>>
        /\ Report("failed") \/ Report("applied")
  /\ UNCHANGED <<family, rule, cpu_sets_available>>

\* set_process_affinity
WriteProcess ==
  /\ Writes /\ ~IsSoft(rule) /\ ~IsGrouped(rule)
  /\ SetProcessAffinityMask(rule.masks[1])
  /\ Report("applied")
  /\ UNCHANGED <<family, rule, cpu_sets_available, cpu_sets>>

\* set_process_affinity_group_masks: the threads of a snapshot ...
WriteThreads ==
  /\ Writes /\ IsGrouped(rule)
  /\ pass' = [rule |-> rule, todo |-> Live, all_failed |-> TRUE]
  /\ UNCHANGED <<family, rule, cpu_sets_available, threads, hard, cpu_sets,
                 outcome>>

\* first_nonzero_group
FirstGroup(masks) ==
  CHOOSE g \in Groups : /\ MaskOf(masks, g) # {}
                        /\ \A h \in 0 .. g - 1 : MaskOf(masks, h) = {}

\* A thread keeps its group when that is known and has a processor selected.
TargetGroup(t, masks, known) ==
  IF known /\ MaskOf(masks, threads[t].group) # {} THEN threads[t].group
                                                  ELSE FirstGroup(masks)

\* ... one after the other, but for those that have ended: the group of the
\* thread is read (known), and the mask set (works) ...
WriteThread ==
  /\ pass # Idle
  /\ \E t \in pass.todo, known, works \in BOOLEAN :
       LET masks  == pass.rule.masks
           group  == TargetGroup(t, masks, known)
           writes == /\ t \in Live /\ works
                     /\ ~Exceeds(group, MaskOf(masks, group))
       IN  /\ IF known /\ works THEN UNCHANGED budget ELSE Disturb
           /\ threads' = IF writes
                         THEN [threads EXCEPT
                                 ![t] = Placed(group, MaskOf(masks, group))]
                         ELSE threads
           /\ pass' = [pass EXCEPT !.todo = @ \ {t},
                                   !.all_failed = @ /\ ~writes]
  /\ UNCHANGED <<family, rule, cpu_sets_available, hard, cpu_sets, outcome>>

\* ... and an error only when every one failed.
EndThreads ==
  /\ pass # Idle /\ pass.todo = {}
  /\ Report(IF pass.all_failed THEN "failed" ELSE "applied")
  /\ UNCHANGED <<family, rule, cpu_sets_available, threads, hard, cpu_sets,
                 budget>>

AffinityInit ==
  /\ family \in Families /\ rule \in family
  /\ cpu_sets_available \in BOOLEAN
  /\ threads \in [Threads -> {Placed(g, System(g)) : g \in Groups}
                             \cup {Absent}]
  /\ Live # {}
  /\ hard = System(Primary) /\ cpu_sets = {}
  /\ pass = Idle /\ outcome = "none" /\ budget = MaxDisturbances

Apply == Skip \/ Fail \/ WriteSoft \/ WriteProcess \/ WriteThreads
           \/ WriteThread \/ EndThreads

AffinityNext == Apply \/ ThreadStart \/ ThreadExit \/ ForeignWrite \/ EditRule

\* The rules are applied again and again; a pass is never abandoned.
AffinitySpec == AffinityInit /\ [][AffinityNext]_avars /\ WF_avars(Apply)

-----------------------------------------------------------------------------
\* The process is where its rule wants it.  A single mask speaks of the
\* primary group only, as SetProcessAffinityMask does.
Conforms(r) ==
  IF IsSoft(r)
  THEN /\ cpu_sets = {s \in Groups \X Lps : s[1] < Len(r.masks)
                                              /\ s[2] \in r.masks[s[1] + 1]}
       /\ \A t \in Live :
            \/ threads[t].group # Primary \/ threads[t].own
            \/ threads[t].mask = System(Primary)
  ELSE \A t \in Live :
         IF threads[t].group < Len(r.masks)
         THEN threads[t].mask \subseteq r.masks[threads[t].group + 1]
         ELSE Len(r.masks) = 1

\* A skipped write was not needed: uncertainty or a coincidence never lets a
\* rule stop being enforced.
SkipIsSafe == pass = Idle /\ AffinityMatches(rule) => Conforms(rule)

\* The rule can be enforced: it is valid, and a grouped one, which is written
\* to the threads alone, stays below the mask the process has.
Enforceable ==
  /\ ValidGroupMasks(rule.masks)
  /\ IsGrouped(rule) => MaskOf(rule.masks, Primary) \subseteq hard

\* Every rule is enforced in the end: when the edits, the thread starts and
\* the failures stop, the process stays where its rule wants it, threads that
\* started in the middle of a pass included.
EnforcedInTheEnd == <>[]Enforceable => <>[]Conforms(rule)

\* Enforcing becomes free: in the end every pass is skipped - when a thread
\* runs in each group a grouped rule selects, and when the CPU Sets of a soft
\* one fit the buffer they are read into.
Quiesces ==
  <>[](/\ Enforceable
       /\ IsGrouped(rule) =>
            \A g \in Groups : MaskOf(rule.masks, g) # {} =>
                                \E t \in Live : threads[t].group = g
       /\ IsSoft(rule) =>
            Cardinality(CpuSetIds(rule.masks)) <= CPU_SET_BUFFER)
    => <>[](outcome = "skipped")
=============================================================================
