------------------------------- MODULE Topology -------------------------------
(***************************************************************************)
(* How the app finds out which cores share a die (src-tauri/src/topology.rs *)
(* and the startup of src/composables/useTopology.ts).  The topology of    *)
(* the last start is shown first, if the hardware signature is the same;   *)
(* then the real one is detected.  On an AMD processor that means pinning  *)
(* a thread to one logical processor after the other and asking CPUID,     *)
(* which needs the process's own affinity mask to be as wide as the        *)
(* machine: the mask is widened before, and anybody may change it          *)
(* meanwhile.                                                              *)
(*                                                                         *)
(* The processor and Windows are external: what a machine would answer is  *)
(* a record of constants.                                                  *)
(***************************************************************************)
EXTENDS Integers, FiniteSets, SequencesExt

CONSTANTS
  Machines,    \* machine -> what CPUID and GetLogicalProcessorInformationEx say
  Masks,       \* affinity masks somebody may give the app: sets of bits
  None,        \* no topology, no cache, no map
  MaxChanges   \* changes of the mask by others, in one behaviour

\* Fields: vendor, model and groups; cores, packages and dies (the Die and
\* Module relations), sequences of [group, bits]; max_ext, the highest CPUID
\* leaf (30 for 8000_001E, 38 for 8000_0026); node, die26 and x2apic, what CPUID says on each
\* bit; and ccd, where the bit really is (of a machine with one group).
Machine(m) == Machines[m]

ASSUME TopologyAssumption == MaxChanges \in Nat

\* u32::MAX, the die of a logical processor that could not be pinned: larger
\* than any id of eight bits.
Unpinned == 2 ^ 8

UsizeBits == 64

VARIABLES
  machine,       \* the hardware
  phase,         \* what the startup of the app does
  process_mask,  \* the affinity mask of the app
  orig,          \* the mask it had before it was widened
  lp,            \* the logical processor to be pinned next
  ok,            \* those that have been pinned
  shown,         \* the topology the app shows
  cache,         \* cpu_topology_cache.json
  changes,
  meddled        \* the mask was changed by others, or not read or widened

tvars == <<machine, phase, process_mask, orig, lp, ok, shown, cache, changes,
           meddled>>

-----------------------------------------------------------------------------
(* Hardware *)

Bits(entries) == UNION {e.bits : e \in Range(entries)}

System == Bits(Machine(machine).cores)

\* total_lps_guess, total_logical_processors: bits, group by group.
Total(m) ==
  Cardinality(UNION {{e.group} \X e.bits : e \in Range(Machine(m).cores)})

\* What Windows and the processors promise of a machine with one group: it has
\* at most 64 logical processors, numbered from 0, and a core has some of them,
\* on one CCD.  What CPUID says of a processor is a number.
ASSUME MachineAssumption ==
  \A m \in DOMAIN Machines :
    LET lps == Bits(Machine(m).cores)
    IN  Machine(m).groups = 1 =>
          /\ Machine(m).cores \in Seq([group : {0}, bits : (SUBSET Nat) \ {{}}])
          /\ \E n \in 0..64 : lps = 0..n - 1
          /\ Machine(m).max_ext \in Nat /\ DOMAIN Machine(m).ccd = lps
          /\ {Machine(m).node, Machine(m).die26} \subseteq [lps -> Int]
          /\ None \notin [lps -> Int]
          /\ \A core \in Range(Machine(m).cores) : \A b, c \in core.bits :
               Machine(m).ccd[b] = Machine(m).ccd[c]

SignatureMut(m, lps) == <<Machine(m).vendor, Machine(m).model>>

\* hw_signature_fast
Signature(m, lps) == <<Machine(m).vendor, Machine(m).model, lps>>

\* sys_info_logical_processor_count: those of one group.
SystemInfoCount(m) ==
  Cardinality(UNION {e.bits : e \in {c \in Range(Machine(m).cores) : c.group = 0}})

-----------------------------------------------------------------------------
(* detect_die_by_cpuid, once the logical processors have been asked *)

\* Methods 1 and 2: what CPUID says, if it does not say the same everywhere.
FromLeaf(of) ==
  IF Cardinality({of[b] : b \in ok}) > 1
  THEN [b \in 0..Total(machine) - 1 |-> IF b \in ok THEN of[b] ELSE Unpinned]
  ELSE None

\* Method 3: the highest bit of the x2APIC ids that splits the processors into
\* two sizeable halves.  leading_zeros counts those of a usize.
HighestBit(span) ==
  LET leading_zeros == UsizeBits - 1 - Max({b \in 0..30 : 2 ^ b <= span})
  IN  IF leading_zeros > 31 THEN 0 ELSE 31 - leading_zeros

FromX2apic ==
  LET x2apic == Machine(machine).x2apic
      ids    == {x2apic[b] : b \in ok}
      span   == Max(ids) - Min(ids) + 1
      Digit(b, bit) == (x2apic[b] \div 2 ^ bit) % 2
      Sizeable(bit) == \A d \in {0, 1} :
        Cardinality({b \in ok : Digit(b, bit) = d}) >= Cardinality(ok) \div 4
      splits == {bit \in 1..HighestBit(span) : Sizeable(bit)}
  IN  IF /\ Cardinality(ok) >= 16
         /\ span = Cardinality(ids) /\ span >= 16 /\ splits # {}
      THEN [b \in 0..Total(machine) - 1 |->
              IF b \in ok THEN Digit(b, Max(splits)) ELSE Unpinned]
      ELSE None

\* Method 4: the lower and the upper half.
Halves ==
  LET total == Total(machine)
      probed == IF ok = {} THEN 1 ELSE Cardinality(ok)
  IN  IF total >= 16 /\ total % 2 = 0 /\ probed * 5 >= total * 4
      THEN [b \in 0..total - 1 |-> IF b < total \div 2 THEN 0 ELSE 1]
      ELSE None

\* The first method that finds more than one die, and whether it leaves the
\* mask of the process as it was widened.
Detected ==
  LET has(leaf) == Machine(machine).max_ext >= leaf
      node  == IF has(30) THEN FromLeaf(Machine(machine).node) ELSE None
      die26 == IF has(38) THEN FromLeaf(Machine(machine).die26) ELSE None
      apic  == IF has(30) THEN FromX2apic ELSE None
  IN  IF node # None THEN [map |-> node, widened |-> TRUE]
      ELSE IF die26 # None THEN [map |-> die26, widened |-> TRUE]
      ELSE [map |-> IF apic # None THEN apic ELSE Halves, widened |-> FALSE]

-----------------------------------------------------------------------------
(* get_cpu_topology: the dies of the cores *)

\* The first entry that holds a core.
Holder(entries, core) ==
  LET i == SelectInSeq(entries,
             LAMBDA e : e.group = core.group /\ core.bits \subseteq e.bits)
  IN  IF i = 0 THEN 0 ELSE i - 1

RawDiesMut(map) ==
  LET cores == Machine(machine).cores
  IN  [c \in DOMAIN cores |->
         IF map # None THEN map[c - 1] ELSE Holder(Machine(machine).dies, cores[c])]

\* Its first logical processor speaks for a core.
RawDies(map) ==
  LET cores == Machine(machine).cores
  IN  [c \in DOMAIN cores |->
         IF map # None THEN map[Min(cores[c].bits)]
         ELSE Holder(Machine(machine).dies, cores[c])]

\* Cores, their dies renumbered from 0, and their packages.
BuildTopology(map) ==
  LET cores == Machine(machine).cores
      raw == RawDies(map)
  IN  [of |-> machine, cores |-> cores,
       die |-> [c \in DOMAIN cores |->
                  Cardinality({d \in Range(raw) : d < raw[c]})],
       package |-> [c \in DOMAIN cores |->
                      Holder(Machine(machine).packages, cores[c])]]

Dies(t) == Range(t.die)

LpsOfDie(t, d) ==
  UNION {{t.cores[c].group} \X t.cores[c].bits : c \in {c \in DOMAIN t.die : t.die[c] = d}}

-----------------------------------------------------------------------------
(* The startup of the app *)

\* load_cpu_topology_cache
LoadCache ==
  /\ phase = "load"
  /\ shown' = IF /\ cache # None
                 /\ cache.signature = Signature(machine, SystemInfoCount(machine))
              THEN cache.topology ELSE None
  /\ phase' = "query"
  /\ UNCHANGED <<machine, process_mask, orig, lp, ok, cache, changes, meddled>>

\* What shown' needs to be saved for: another number of something.
Differs(fresh) ==
  \/ shown = None
  \/ Total(shown.of) # Total(machine)
  \/ Cardinality(Dies(shown)) # Cardinality(Dies(fresh))
  \/ Len(shown.cores) # Len(fresh.cores)

Show(map) ==
  LET fresh == BuildTopology(map)
  IN  /\ shown' = fresh
      /\ phase' = IF Differs(fresh) THEN "save" ELSE "done"

\* Without CPUID the Die and Module relations have to do.
ShowWithoutCpuid ==
  /\ phase = "query"
  /\ \/ Machine(machine).groups > 1
     \/ Machine(machine).vendor # "AuthenticAMD"
     \/ Total(machine) > 64
  /\ Show(None)
  /\ UNCHANGED <<machine, process_mask, orig, lp, ok, cache, changes, meddled>>

\* CPUID is asked: the first conditions of detect_die_by_cpuid.
Asks ==
  /\ phase = "query"
  /\ Machine(machine).groups = 1 /\ Machine(machine).vendor = "AuthenticAMD"
  /\ Total(machine) <= 64

\* expand_process_affinity_to_system; widening may be refused.
Expand ==
  /\ Asks
  /\ orig' = process_mask /\ lp' = 0 /\ ok' = {} /\ phase' = "pin"
  /\ \/ process_mask' = System /\ UNCHANGED meddled
     \/ /\ process_mask # System /\ meddled' = TRUE
        /\ UNCHANGED process_mask
  /\ UNCHANGED <<machine, shown, cache, changes>>

\* GetProcessAffinityMask fails: nothing is widened, and the relations do.
CannotAsk ==
  /\ Asks
  /\ meddled' = TRUE
  /\ Show(None)
  /\ UNCHANGED <<machine, process_mask, orig, lp, ok, cache, changes>>

\* The thread is first given the whole mask: where that is not, or no longer,
\* the mask of the process, it may fail, and the mask is put back.
GiveUp ==
  /\ phase = "pin" /\ lp = 0 /\ process_mask # System
  /\ process_mask' = orig
  /\ Show(None)
  /\ UNCHANGED <<machine, orig, lp, ok, cache, changes, meddled>>

\* SetThreadAffinityMask fails outside the mask of the process.
Pin ==
  /\ phase = "pin" /\ lp < Total(machine)
  /\ ok' = IF lp \in process_mask THEN ok \cup {lp} ELSE ok
  /\ lp' = lp + 1
  /\ UNCHANGED <<machine, phase, process_mask, orig, shown, cache, changes, meddled>>

DetectMut ==
  /\ phase = "pin" /\ lp = Total(machine)
  /\ Show(Detected.map)
  /\ UNCHANGED <<machine, process_mask, orig, lp, ok, cache, changes, meddled>>

\* The thread ends; methods 1 and 2 return before the mask is put back.
Detect ==
  /\ phase = "pin" /\ lp = Total(machine)
  /\ Show(Detected.map)
  /\ process_mask' = IF Detected.widened THEN process_mask ELSE orig
  /\ UNCHANGED <<machine, orig, lp, ok, cache, changes, meddled>>

\* save_cpu_topology_cache; a failure is ignored, and a file that is cut off
\* does not parse.
SaveCache ==
  /\ phase = "save" /\ phase' = "done"
  /\ cache' \in {[signature |-> Signature(machine, Total(machine)),
                  topology |-> shown], cache, None}
  /\ UNCHANGED <<machine, process_mask, orig, lp, ok, shown, changes, meddled>>

\* Somebody else changes the affinity mask of the app.
ChangeMask ==
  /\ phase # "load" /\ changes < MaxChanges
  /\ \E mask \in Masks :
       /\ mask \subseteq System /\ mask # {} /\ mask # process_mask
       /\ process_mask' = mask
  /\ changes' = changes + 1 /\ meddled' = TRUE
  /\ UNCHANGED <<machine, phase, orig, lp, ok, shown, cache>>

\* The app is started anew, on another machine perhaps, with the mask its
\* launcher has.
Restart ==
  /\ phase # "load" /\ phase' = "load"
  /\ machine' \in DOMAIN Machines
  /\ process_mask' \in {mask \in Masks : mask # {} /\ mask \subseteq System'}
                         \cup {System'}
  /\ shown' = None /\ orig' = {} /\ lp' = 0 /\ ok' = {}
  /\ meddled' = FALSE
  /\ UNCHANGED <<cache, changes>>

-----------------------------------------------------------------------------
TopologyInit ==
  /\ machine \in DOMAIN Machines /\ phase = "load"
  /\ process_mask \in {mask \in Masks : mask # {} /\ mask \subseteq System}
                        \cup {System}
  /\ orig = {} /\ lp = 0 /\ ok = {} /\ shown = None /\ cache = None
  /\ changes = 0 /\ meddled = FALSE

TopologyNext ==
  \/ LoadCache \/ ShowWithoutCpuid \/ Expand \/ CannotAsk \/ GiveUp \/ Pin
  \/ Detect \/ SaveCache
  \/ ChangeMask \/ Restart

TopologySpec == TopologyInit /\ [][TopologyNext]_tvars

-----------------------------------------------------------------------------
TopologyTypeOK ==
  /\ machine \in DOMAIN Machines
  /\ phase \in {"load", "query", "pin", "save", "done"}
  /\ process_mask \subseteq System /\ ok \subseteq System /\ lp \in 0..Total(machine)
  /\ shown # None => Dies(shown) = 0..Cardinality(Dies(shown)) - 1

\* CPUID says where a processor is: in node, or failing that in die26.
Exposes(m, of) ==
  \A b, c \in System : of[b] = of[c] <=> Machine(m).ccd[b] = Machine(m).ccd[c]

Exposed(m) ==
  /\ Machine(m).vendor = "AuthenticAMD" /\ Machine(m).groups = 1
  /\ Cardinality(Range(Machine(m).ccd)) > 1
  /\ \/ Machine(m).max_ext >= 30 /\ Exposes(m, Machine(m).node)
     \/ /\ Machine(m).max_ext >= 38 /\ Exposes(m, Machine(m).die26)
        /\ Cardinality(Range(Machine(m).node)) = 1

Fresh == phase \in {"save", "done"}

\* Where the processor tells its CCDs apart and nobody narrows the mask of the
\* app meanwhile, the dies that are shown are the CCDs, whatever mask the app
\* was started with.
DiesAreReal ==
  Fresh /\ ~meddled /\ Exposed(machine) =>
    \A d \in Dies(shown) : \E x \in Range(Machine(machine).ccd) :
      LpsOfDie(shown, d) = {<<0, b>> : b \in {b \in System : Machine(machine).ccd[b] = x}}

\* What is shown has the logical processors of the machine, also when it comes
\* from the cache and the machine is another one.
LpsAreThere == shown # None => Total(shown.of) = Total(machine)

\* The app is back at the affinity mask it was started with, unless the dies
\* come from one of the two CPUID fields.  (Those leave the mask widened.)
MaskRestored ==
  Fresh /\ orig # {} /\ ~meddled => process_mask = orig \/ Detected.widened

\* An AMD processor with one CCD, asked through CPUID on every logical
\* processor, is shown with one die.  (The last fallback the module comment of
\* topology.rs names; the code splits it in two.)
OneCcdIsOneDie ==
  (/\ Fresh /\ ~meddled /\ ok = System
   /\ Machine(machine).groups = 1 /\ Machine(machine).vendor = "AuthenticAMD"
   /\ Cardinality(Range(Machine(machine).ccd)) = 1) =>
     Cardinality(Dies(shown)) = 1

\* The mask is put back (the comment on expand_process_affinity_to_system).
MaskAlwaysRestored == Fresh /\ orig # {} /\ ~meddled => process_mask = orig
=============================================================================
