--------------------------- MODULE Topology_proofs ----------------------------
(***************************************************************************)
(* Proofs about Topology: what the app shows of a processor, for every set *)
(* of machines of the kind MachineAssumption describes and every set of    *)
(* affinity masks somebody may give the app.                               *)
(***************************************************************************)
EXTENDS Topology, TLAPS, FiniteSetTheorems, FunctionTheorems,
        WellFoundedInduction

(* The processors of a machine *)

Before == {ss \in Nat \X Nat : ss[1] < ss[2]}

LEMMA BeforeIsWellFounded == IsWellFoundedOn(Before, Nat)
<1>1. OpToRel(<, Nat) = Before
  BY DEF OpToRel, Before
<1> QED BY <1>1, NatLessThanWellFounded

\* Min is the smallest of a set of naturals.
LEMMA MinIsIn ==
  ASSUME NEW S \in SUBSET Nat, S # {}
  PROVE  Min(S) \in S
<1>1. PICK n \in S : \A m \in S : ~(<<m, n>> \in Before)
  BY BeforeIsWellFounded, WFMin
<1>2. ASSUME NEW m \in S PROVE n <= m
  <2>1. m \in Nat /\ n \in Nat /\ ~(<<m, n>> \in Before)
    BY <1>1
  <2>2. ~(m < n)
    BY <2>1 DEF Before
  <2> QED BY <2>1, <2>2
<1> QED BY <1>2 DEF Min

LEMMA ElementsOfSeq ==
  ASSUME NEW T, NEW s \in Seq(T), NEW i \in DOMAIN s
  PROVE  s[i] \in T
OBVIOUS

\* With one group, total_lps_guess, GetSystemInfo and the largest affinity
\* mask agree on the number of logical processors.
LEMMA OneGroup ==
  ASSUME NEW m \in DOMAIN Machines, Machine(m).groups = 1
  PROVE  /\ Total(m) \in Nat /\ Total(m) <= 64
         /\ Bits(Machine(m).cores) = 0..Total(m) - 1
         /\ SystemInfoCount(m) = Total(m)
<1> DEFINE cores == Machine(m).cores
           B == Bits(cores)
<1>1. cores \in Seq([group : {0}, bits : (SUBSET Nat) \ {{}}])
  BY MachineAssumption
<1>2. PICK n \in 0..64 : B = 0..n - 1
  BY MachineAssumption
<1>3. \A e \in Range(cores) : e.group = 0
  <2> HIDE DEF cores
  <2>1. \A i \in DOMAIN cores : cores[i] \in [group : {0}, bits : (SUBSET Nat) \ {{}}]
    BY <1>1, ElementsOfSeq
  <2> QED BY <2>1 DEF Range
<1>4. UNION {{e.group} \X e.bits : e \in Range(cores)} = {0} \X B
  BY <1>3 DEF Bits
<1>5. {c \in Range(cores) : c.group = 0} = Range(cores)
  BY <1>3
<1>6. IsFiniteSet(B) /\ Cardinality(B) = n
  BY <1>2, FS_Interval
<1>7. Cardinality({0} \X B) = Cardinality(B)
  <2>1. IsFiniteSet({0}) /\ Cardinality({0}) = 1
    BY FS_Singleton
  <2>2. Cardinality({0} \X B) = 1 * Cardinality(B)
    BY <2>1, <1>6, FS_Product
  <2> QED BY <2>2, <1>6
<1>8. Total(m) = n
  BY <1>4, <1>6, <1>7 DEF Total
<1>9. SystemInfoCount(m) = n
  BY <1>5, <1>6 DEF SystemInfoCount, Bits
<1> QED BY <1>2, <1>8, <1>9


-----------------------------------------------------------------------------
(* Detection *)

\* One die at least, and not the same one everywhere.
LEMMA Several ==
  ASSUME NEW S, IsFiniteSet(S), NEW f, NEW a \in S, NEW b \in S, f[a] # f[b]
  PROVE  Cardinality({f[x] : x \in S}) > 1
<1> DEFINE T == {f[x] : x \in S}
           g == [x \in S |-> f[x]]
<1>1. g \in Surjection(S, T)
  BY DEF Surjection
<1>2. IsFiniteSet(T)
  BY <1>1, FS_Surjection
<1>3. Cardinality(T) \in Nat
  BY <1>2, FS_CardinalityType
<1>4. Cardinality(T) # 0
  BY <1>2, FS_EmptySet
<1>5. Cardinality(T) # 1
  <2>1. \A x : T # {x}
    OBVIOUS
  <2> QED BY <2>1, <1>2, FS_Singleton
<1> QED BY <1>3, <1>4, <1>5

\* The set of a function's values has two, if it has more than one.
LEMMA TwoValues ==
  ASSUME NEW f, Cardinality(Range(f)) > 1
  PROVE  \E a, b \in DOMAIN f : f[a] # f[b]
<1> SUFFICES ASSUME \A a, b \in DOMAIN f : f[a] = f[b] PROVE FALSE
  OBVIOUS
<1>1. CASE DOMAIN f = {}
  <2>1. Range(f) = {}
    BY <1>1 DEF Range
  <2>2. Cardinality(Range(f)) = 0
    BY <2>1, FS_EmptySet
  <2> QED BY <2>2
<1>2. CASE DOMAIN f # {}
  <2>1. PICK a \in DOMAIN f : TRUE
    BY <1>2
  <2>2. Range(f) = {f[a]}
    BY <2>1 DEF Range
  <2>3. Cardinality(Range(f)) = 1
    BY <2>2, FS_Singleton
  <2> QED BY <2>3
<1> QED BY <1>1, <1>2

Exposing(M) ==
  /\ M \in [System -> Int]
  /\ \A b, c \in System :
       M[b] = M[c] <=> Machine(machine).ccd[b] = Machine(machine).ccd[c]

\* Methods 1 and 2 take what CPUID says as it is, where all could be pinned.
LEMMA LeafIsTaken ==
  ASSUME machine \in DOMAIN Machines, Machine(machine).groups = 1, ok = System,
         NEW of \in [System -> Int], Exposes(machine, of),
         Cardinality(Range(Machine(machine).ccd)) > 1
  PROVE  FromLeaf(of) = of /\ of # None /\ Exposing(of)
<1>1. System = 0..Total(machine) - 1 /\ Total(machine) \in Nat
  <2>1. System = Bits(Machine(machine).cores)
    BY DEF System
  <2> QED BY <2>1, OneGroup
<1>2. DOMAIN Machine(machine).ccd = System /\ None \notin [System -> Int]
  BY MachineAssumption DEF System
<1>3. PICK a, b \in System : Machine(machine).ccd[a] # Machine(machine).ccd[b]
  BY <1>2, TwoValues
<1>4. of[a] # of[b]
  BY <1>3 DEF Exposes
<1>5. IsFiniteSet(System)
  BY <1>1, FS_Interval
<1>6. Cardinality({of[x] : x \in ok}) > 1
  BY <1>4, <1>5, Several
<1>7. FromLeaf(of) = [x \in System |-> of[x]]
  BY <1>1, <1>6 DEF FromLeaf
<1> QED BY <1>2, <1>7 DEF Exposing, Exposes

\* What is detected tells the CCDs apart, if CPUID does.
LEMMA DetectedExposes ==
  ASSUME machine \in DOMAIN Machines, Exposed(machine), ok = System
  PROVE  Exposing(Detected.map) /\ Detected.map # None
<1> DEFINE M == Machine(machine)
<1>1. M.groups = 1 /\ Cardinality(Range(M.ccd)) > 1
  BY DEF Exposed
<1>2. M.node \in [System -> Int] /\ M.die26 \in [System -> Int] /\ M.max_ext \in Nat
  BY <1>1, MachineAssumption DEF System
<1>3. CASE M.max_ext >= 30 /\ Exposes(machine, M.node)
  <2>1. FromLeaf(M.node) = M.node /\ M.node # None /\ Exposing(M.node)
    BY <1>1, <1>2, <1>3, LeafIsTaken
  <2>2. Detected.map = M.node
    BY <1>3, <2>1 DEF Detected
  <2> QED BY <2>1, <2>2
<1>4. CASE /\ M.max_ext >= 38 /\ Exposes(machine, M.die26)
           /\ Cardinality(Range(M.node)) = 1
  <2>1. FromLeaf(M.die26) = M.die26 /\ M.die26 # None /\ Exposing(M.die26)
    BY <1>1, <1>2, <1>4, LeafIsTaken
  <2>2. {M.node[b] : b \in ok} = Range(M.node)
    BY <1>2 DEF Range
  <2>3. FromLeaf(M.node) = None
    <3>1. ~(Cardinality({M.node[b] : b \in ok}) > 1)
      BY <1>4, <2>2
    <3> QED BY <3>1 DEF FromLeaf
  <2>4. M.max_ext >= 30
    BY <1>2, <1>4
  <2>5. Detected.map = M.die26
    BY <1>4, <2>1, <2>3, <2>4 DEF Detected
  <2> QED BY <2>1, <2>5
<1> QED BY <1>3, <1>4 DEF Exposed

-----------------------------------------------------------------------------
(* Dies are numbered as they were found *)

\* Where an id of a set stands in it.
Rank(S, x) == Cardinality({d \in S : d < x})

\* Two ids get the same number only if they are the same.
LEMMA RanksDiffer ==
  ASSUME NEW S \in SUBSET Int, IsFiniteSet(S), NEW x \in S, NEW y \in S, x # y
  PROVE  Rank(S, x) # Rank(S, y)
<1>1. ASSUME NEW a \in S, NEW b \in S, a < b PROVE Rank(S, a) # Rank(S, b)
  <2> DEFINE A == {d \in S : d < a}
             B == {d \in S : d < b}
  <2>1. A \in SUBSET B /\ a \in B /\ a \notin A
    <3>1. \A d \in S : d \in Int
      OBVIOUS
    <3>2. \A d \in S : d < a => d < b
      BY <3>1, <1>1
    <3>3. ~(a < a)
      BY <3>1
    <3> QED BY <1>1, <3>2, <3>3
  <2>2. IsFiniteSet(B)
    BY FS_Subset
  <2>3. Cardinality(B) # Cardinality(A)
    BY <2>1, <2>2, FS_Subset
  <2> QED BY <2>3 DEF Rank
<1>2. x < y \/ y < x
  OBVIOUS
<1> QED BY <1>1, <1>2

\* Two cores are shown on one die just if they were found on one.
LEMMA DiesAsFound ==
  ASSUME machine \in DOMAIN Machines, Machine(machine).groups = 1,
         NEW M \in [System -> Int], M # None,
         NEW c \in DOMAIN Machine(machine).cores,
         NEW e \in DOMAIN Machine(machine).cores
  PROVE  LET die == BuildTopology(M).die
             of(core) == M[Min(Machine(machine).cores[core].bits)]
         IN  die[c] = die[e] <=> of(c) = of(e)
<1> DEFINE cores == Machine(machine).cores
           raw == RawDies(M)
           S == Range(raw)
<1>1. cores \in Seq([group : {0}, bits : (SUBSET Nat) \ {{}}])
  BY MachineAssumption
<1>2. ASSUME NEW i \in DOMAIN cores
      PROVE  raw[i] = M[Min(cores[i].bits)] /\ raw[i] \in Int
  <2>1. cores[i] \in [group : {0}, bits : (SUBSET Nat) \ {{}}]
    BY <1>1, ElementsOfSeq
  <2>2. Min(cores[i].bits) \in cores[i].bits
    BY <2>1, MinIsIn
  <2>3. Min(cores[i].bits) \in System
    BY <2>2 DEF System, Bits, Range
  <2>4. raw[i] = M[Min(cores[i].bits)]
    BY DEF RawDies
  <2> QED BY <2>3, <2>4
<1>3. DOMAIN raw = DOMAIN cores
  BY DEF RawDies
<1>4. S \in SUBSET Int
  BY <1>2, <1>3 DEF Range
<1>5. IsFiniteSet(S)
  <2>1. Len(cores) \in Nat /\ DOMAIN cores = 1..Len(cores)
    BY <1>1
  <2>2. IsFiniteSet(DOMAIN cores)
    BY <2>1, FS_Interval
  <2> DEFINE g == [i \in DOMAIN cores |-> raw[i]]
  <2>3. g \in Surjection(DOMAIN cores, S)
    BY <1>3 DEF Surjection, Range
  <2> QED BY <2>2, <2>3, FS_Surjection
<1>6. raw[c] \in S /\ raw[e] \in S
  BY <1>3 DEF Range
<1>7. BuildTopology(M).die = [i \in DOMAIN cores |-> Rank(S, raw[i])]
  BY DEF BuildTopology, Rank
<1>8. Rank(S, raw[c]) = Rank(S, raw[e]) <=> raw[c] = raw[e]
  BY <1>4, <1>5, <1>6, RanksDiffer
<1> HIDE DEF S, raw
<1> QED BY <1>2, <1>7, <1>8


-----------------------------------------------------------------------------
(* The dies that are shown are the CCDs *)

\* All that could be pinned has been, and the map is what CPUID says.
Drawn ==
  Fresh /\ ~meddled /\ Exposed(machine) =>
    ok = System /\ shown = BuildTopology(Detected.map)

\* Those of a die are those of a CCD.
LEMMA DrawnIsReal ==
  ASSUME machine \in DOMAIN Machines, Drawn
  PROVE  DiesAreReal
<1> SUFFICES ASSUME Fresh, ~meddled, Exposed(machine), NEW d \in Dies(shown)
             PROVE  \E x \in Range(Machine(machine).ccd) :
                      LpsOfDie(shown, d) =
                        {<<0, b>> : b \in {b \in System : Machine(machine).ccd[b] = x}}
  BY DEF DiesAreReal
<1> DEFINE M == Detected.map
           cores == Machine(machine).cores
           ccd == Machine(machine).ccd
           die == shown.die
           of(core) == M[Min(cores[core].bits)]
<1>1. ok = System /\ shown = BuildTopology(M)
  BY DEF Drawn
<1>2. Exposing(M) /\ M # None
  BY <1>1, DetectedExposes
<1>3. Machine(machine).groups = 1
  BY DEF Exposed
<1>4. cores \in Seq([group : {0}, bits : (SUBSET Nat) \ {{}}])
  BY <1>3, MachineAssumption
<1>5. shown.cores = cores /\ DOMAIN die = DOMAIN cores
  BY <1>1 DEF BuildTopology
<1>6. ASSUME NEW c \in DOMAIN cores
      PROVE  /\ cores[c].group = 0 /\ Min(cores[c].bits) \in cores[c].bits
             /\ cores[c].bits \subseteq System
             /\ \A b \in cores[c].bits : ccd[b] = ccd[Min(cores[c].bits)]
  <2>1. cores[c] \in [group : {0}, bits : (SUBSET Nat) \ {{}}]
    BY <1>4, ElementsOfSeq
  <2>2. Min(cores[c].bits) \in cores[c].bits
    BY <2>1, MinIsIn
  <2>3. cores[c] \in Range(cores)
    BY DEF Range
  <2>4. \A b \in cores[c].bits : ccd[b] = ccd[Min(cores[c].bits)]
    BY <1>3, <2>2, <2>3, MachineAssumption
  <2>5. cores[c].bits \subseteq System
    BY <2>3 DEF System, Bits
  <2> QED BY <2>1, <2>2, <2>4, <2>5
<1>7. ASSUME NEW c \in DOMAIN cores, NEW e \in DOMAIN cores
      PROVE  die[c] = die[e] <=> ccd[Min(cores[c].bits)] = ccd[Min(cores[e].bits)]
  <2>1. M \in [System -> Int]
    BY <1>2 DEF Exposing
  <2>2. die[c] = die[e] <=> of(c) = of(e)
    BY <1>1, <1>2, <1>3, <2>1, DiesAsFound
  <2>3. Min(cores[c].bits) \in System /\ Min(cores[e].bits) \in System
    BY <1>6
  <2> QED BY <1>2, <2>2, <2>3 DEF Exposing
<1>8. PICK c \in DOMAIN cores : d = die[c]
  BY <1>5 DEF Dies, Range
<1> DEFINE x == ccd[Min(cores[c].bits)]
<1>9. x \in Range(ccd)
  <2>1. DOMAIN ccd = System
    BY <1>3, MachineAssumption DEF System
  <2> QED BY <2>1, <1>6 DEF Range
<1>10. ASSUME NEW e \in DOMAIN cores, die[e] = d, NEW b \in cores[e].bits
       PROVE  cores[e].group = 0 /\ b \in System /\ ccd[b] = x
  BY <1>6, <1>7, <1>8, <1>10
<1>11. ASSUME NEW b \in System, ccd[b] = x
       PROVE  \E e \in DOMAIN cores : die[e] = d /\ b \in cores[e].bits
  <2>1. PICK e \in DOMAIN cores : b \in cores[e].bits
    BY DEF System, Bits, Range
  <2> QED BY <1>6, <1>7, <1>8, <1>11, <2>1
<1>12. LpsOfDie(shown, d) = UNION {{cores[e].group} \X cores[e].bits :
                                     e \in {e \in DOMAIN cores : die[e] = d}}
  BY <1>5 DEF LpsOfDie
<1> HIDE DEF cores, ccd, die, x, M
<1>13. LpsOfDie(shown, d) = {<<0, b>> : b \in {b \in System : ccd[b] = x}}
  <2>1. ASSUME NEW p \in LpsOfDie(shown, d)
        PROVE  p \in {<<0, b>> : b \in {b \in System : ccd[b] = x}}
    <3>1. PICK e \in DOMAIN cores : die[e] = d /\ p \in {cores[e].group} \X cores[e].bits
      BY <1>12
    <3>2. PICK b \in cores[e].bits : p = <<cores[e].group, b>>
      BY <3>1
    <3> QED BY <1>10, <3>1, <3>2
  <2>2. ASSUME NEW b \in System, ccd[b] = x
        PROVE  <<0, b>> \in LpsOfDie(shown, d)
    <3>1. PICK e \in DOMAIN cores : die[e] = d /\ b \in cores[e].bits
      BY <1>11, <2>2
    <3>2. <<0, b>> \in {cores[e].group} \X cores[e].bits
      BY <1>6, <3>1
    <3> QED BY <1>12, <3>1, <3>2
  <2> QED BY <2>1, <2>2
<1> USE DEF ccd
<1> QED BY <1>9, <1>13


-----------------------------------------------------------------------------
(* The startup, step by step *)

Phases == {"load", "query", "pin", "save", "done"}

\* While the processors are pinned the mask is as wide as the machine, unless
\* others meddle, and none is left out.
Pinned ==
  phase = "pin" =>
    /\ Machine(machine).groups = 1 /\ lp \in Nat
    /\ ~meddled => process_mask = System /\ ok = 0..lp - 1

\* What the file holds was saved on a machine with that signature.
CacheKept ==
  cache # None => \E m \in DOMAIN Machines :
    cache.signature = Signature(m, Total(m)) /\ cache.topology.of = m

TopologyInv ==
  /\ machine \in DOMAIN Machines /\ phase \in Phases
  /\ phase \in {"load", "query"} => orig = {}
  /\ phase = "save" => shown.of = machine
  /\ Pinned
  /\ Drawn
  /\ MaskRestored

\* LoadCache and Restart leave nothing detected.
LEMMA NothingYet ==
  ASSUME phase' \in {"load", "query", "pin"}
  PROVE  Drawn' /\ MaskRestored'
BY DEF Drawn, MaskRestored, Fresh

LEMMA ShowEffect ==
  ASSUME NEW map, Show(map)
  PROVE  shown' = BuildTopology(map) /\ shown'.of = machine /\ phase' \in {"save", "done"}
<1>1. BuildTopology(map).of = machine
  BY DEF BuildTopology
<1> QED BY <1>1 DEF Show

LEMMA ShownWithoutCpuid ==
  ASSUME TopologyInv, ShowWithoutCpuid
  PROVE  TopologyInv'
<1>1. /\ phase' \in {"save", "done"} /\ shown'.of = machine
      /\ UNCHANGED <<machine, orig>> /\ orig = {}
  BY ShowEffect DEF ShowWithoutCpuid, TopologyInv
<1>2. ~Exposed(machine)
  BY OneGroup DEF ShowWithoutCpuid, Exposed, TopologyInv
<1>3. ~Exposed(machine)'
  BY <1>1, <1>2 DEF Exposed, Exposes, System
<1> QED BY <1>1, <1>3 DEF TopologyInv, Phases, Pinned, Drawn, MaskRestored

LEMMA ExpandedMask ==
  ASSUME TopologyInv, Expand
  PROVE  TopologyInv'
<1>1. UNCHANGED machine /\ Machine(machine).groups = 1 /\ phase' = "pin"
  BY DEF Expand, Asks
<1>2. lp' = 0 /\ ok' = 0..lp' - 1
  BY DEF Expand
<1>3. ~meddled' => process_mask' = System
  BY DEF Expand
<1>4. Pinned'
  BY <1>1, <1>2, <1>3 DEF Pinned, System
<1> QED BY <1>1, <1>4, NothingYet DEF TopologyInv, Phases

\* Where CPUID is not asked after all, the mask was not as it should be.
LEMMA NotAsked ==
  ASSUME TopologyInv, CannotAsk \/ GiveUp
  PROVE  TopologyInv'
<1>1. /\ phase' \in {"save", "done"} /\ shown'.of = machine
      /\ UNCHANGED machine
  BY ShowEffect DEF CannotAsk, GiveUp
<1>2. meddled'
  BY DEF CannotAsk, GiveUp, TopologyInv, Pinned
<1> QED BY <1>1, <1>2 DEF TopologyInv, Phases, Pinned, Drawn, MaskRestored

LEMMA PinnedOne ==
  ASSUME TopologyInv, Pin
  PROVE  TopologyInv'
<1>1. /\ UNCHANGED <<machine, phase, process_mask, meddled>> /\ phase = "pin"
      /\ lp \in Nat /\ lp' = lp + 1 /\ lp < Total(machine)
      /\ Machine(machine).groups = 1 /\ machine \in DOMAIN Machines
  BY DEF Pin, TopologyInv, Pinned
<1>2. lp \in System
  <2>1. /\ System = Bits(Machine(machine).cores)
        /\ Bits(Machine(machine).cores) = 0..Total(machine) - 1
        /\ Total(machine) \in Nat
    BY <1>1, OneGroup DEF System
  <2> QED BY <1>1, <2>1
<1>3. ~meddled' => process_mask' = System' /\ ok' = 0..lp' - 1
  <2> SUFFICES ASSUME ~meddled' PROVE process_mask' = System' /\ ok' = 0..lp' - 1
    OBVIOUS
  <2>1. process_mask = System /\ ok = 0..lp - 1
    BY <1>1 DEF TopologyInv, Pinned
  <2>2. ok' = ok \cup {lp}
    BY <1>2, <2>1 DEF Pin
  <2>3. 0..(lp + 1) - 1 = (0..lp - 1) \cup {lp}
    BY <1>1
  <2>4. process_mask' = System'
    BY <1>1, <2>1 DEF System
  <2> QED BY <1>1, <2>1, <2>2, <2>3, <2>4
<1>4. Pinned'
  BY <1>1, <1>3 DEF Pinned
<1> QED BY <1>1, <1>4, NothingYet DEF TopologyInv, Phases

\* What is detected depends on the machine and on what could be pinned.
LEMMA SameDetected ==
  ASSUME UNCHANGED <<machine, ok>>
  PROVE  /\ Detected' = Detected /\ System' = System
         /\ BuildTopology(Detected.map)' = BuildTopology(Detected.map)
         /\ Exposed(machine)' = Exposed(machine)
<1>1. FromX2apic' = FromX2apic
  BY DEF FromX2apic
<1>2. Halves' = Halves
  BY DEF Halves
<1>3. /\ FromLeaf(Machine(machine).node)' = FromLeaf(Machine(machine).node)
      /\ FromLeaf(Machine(machine).die26)' = FromLeaf(Machine(machine).die26)
  BY DEF FromLeaf
<1>4. Detected' = Detected
  BY <1>1, <1>2, <1>3 DEF Detected
<1>5. RawDies(Detected.map)' = RawDies(Detected.map)
  BY <1>4 DEF RawDies
<1>6. BuildTopology(Detected.map)' = BuildTopology(Detected.map)
  BY <1>5 DEF BuildTopology
<1> QED BY <1>4, <1>6 DEF System, Exposed, Exposes

LEMMA Detects ==
  ASSUME TopologyInv, Detect
  PROVE  TopologyInv'
<1>1. /\ UNCHANGED <<machine, orig, lp, ok, meddled>> /\ phase = "pin"
      /\ lp = Total(machine) /\ Machine(machine).groups = 1
      /\ machine \in DOMAIN Machines
  BY DEF Detect, TopologyInv, Pinned
<1>2. /\ shown' = BuildTopology(Detected.map) /\ shown'.of = machine
      /\ phase' \in {"save", "done"}
  BY ShowEffect DEF Detect
<1>3. process_mask' = orig \/ Detected.widened
  BY DEF Detect
<1>4. /\ Detected' = Detected /\ System' = System
      /\ BuildTopology(Detected.map)' = BuildTopology(Detected.map)
  BY <1>1, SameDetected
<1>5. ~meddled => ok = System
  BY <1>1, OneGroup DEF TopologyInv, Pinned, System
<1>6. Drawn'
  BY <1>1, <1>2, <1>4, <1>5 DEF Drawn
<1>7. MaskRestored'
  BY <1>1, <1>3, <1>4 DEF MaskRestored
<1> QED BY <1>1, <1>2, <1>6, <1>7 DEF TopologyInv, Phases, Pinned

\* What was detected stays, unless somebody changes the mask.
LEMMA Stays ==
  ASSUME UNCHANGED <<machine, process_mask, orig, ok, shown>>, Drawn, MaskRestored,
         Fresh' => Fresh, meddled => meddled'
  PROVE  Drawn' /\ MaskRestored'
<1>1. /\ Detected' = Detected /\ System' = System
      /\ BuildTopology(Detected.map)' = BuildTopology(Detected.map)
      /\ Exposed(machine)' = Exposed(machine)
  BY SameDetected
<1> QED BY <1>1 DEF Drawn, MaskRestored

LEMMA Stutters ==
  ASSUME TopologyInv, UNCHANGED tvars
  PROVE  TopologyInv'
<1>1. /\ UNCHANGED <<machine, process_mask, orig, ok, shown, phase, lp, meddled>>
      /\ Fresh' = Fresh
  BY DEF tvars, Fresh
<1>2. Drawn' /\ MaskRestored'
  BY <1>1, Stays DEF TopologyInv
<1>3. Pinned'
  BY <1>1 DEF TopologyInv, Pinned, System
<1> QED BY <1>1, <1>2, <1>3 DEF TopologyInv

\* The startup invariant is inductive.
THEOREM TopologyInvHolds == TopologySpec => []TopologyInv
<1>1. TopologyInit => TopologyInv
  BY DEF TopologyInit, TopologyInv, Phases, Pinned, Drawn, MaskRestored, Fresh
<1>2. TopologyInv /\ [TopologyNext]_tvars => TopologyInv'
  <2> SUFFICES ASSUME TopologyInv, [TopologyNext]_tvars PROVE TopologyInv'
    OBVIOUS
  <2>1. CASE LoadCache
    <3>1. UNCHANGED <<machine, orig>> /\ phase' = "query" /\ phase = "load"
      BY <2>1 DEF LoadCache
    <3> QED BY <3>1, NothingYet DEF TopologyInv, Phases, Pinned
  <2>2. CASE SaveCache
    <3>1. /\ UNCHANGED <<machine, process_mask, orig, ok, shown, meddled>>
          /\ phase' = "done" /\ Fresh
      BY <2>2 DEF SaveCache, Fresh
    <3>2. Drawn' /\ MaskRestored'
      BY <3>1, Stays DEF TopologyInv
    <3> QED BY <3>1, <3>2 DEF TopologyInv, Phases, Pinned
  <2>3. CASE ChangeMask
    <3>1. /\ UNCHANGED <<machine, phase, orig, lp, shown>> /\ meddled'
      BY <2>3 DEF ChangeMask
    <3>2. Drawn' /\ MaskRestored'
      BY <3>1 DEF Drawn, MaskRestored
    <3> QED BY <3>1, <3>2 DEF TopologyInv, Pinned
  <2>4. CASE Restart
    <3>1. machine' \in DOMAIN Machines /\ phase' = "load" /\ orig' = {}
      BY <2>4 DEF Restart
    <3> QED BY <3>1, NothingYet DEF TopologyInv, Phases, Pinned
  <2>5. CASE UNCHANGED tvars
    BY <2>5, Stutters
  <2> QED BY <2>1, <2>2, <2>3, <2>4, <2>5, ShownWithoutCpuid, ExpandedMask,
             NotAsked, PinnedOne, Detects DEF TopologyNext
<1> QED BY <1>1, <1>2, PTL DEF TopologySpec

\* MaskRestored: the affinity mask that Expand widened is put back by Detect,
\* unless the map comes from one of the two CPUID fields whose methods return
\* before that (topology.rs, detect_die_by_cpuid).
THEOREM MaskIsRestored == TopologySpec => []MaskRestored
<1>1. TopologyInv => MaskRestored
  BY DEF TopologyInv
<1> QED BY <1>1, TopologyInvHolds, PTL

\* DiesAreReal: on every machine whose CPUID tells its CCDs apart, the dies
\* that get_cpu_topology returns are the CCDs, however narrow the mask of the
\* app was at its start.
THEOREM DiesAreTheCcds == TopologySpec => []DiesAreReal
<1>1. TopologyInv => DiesAreReal
  BY DrawnIsReal DEF TopologyInv
<1> QED BY <1>1, TopologyInvHolds, PTL

-----------------------------------------------------------------------------
(* The topology of the last start *)

\* GetSystemInfo counts the processors of one group only.  A machine with one
\* group is told from every other by its signature; one with several, if no
\* machine of its model has altogether as many as its first group, as the same
\* processor in one socket instead of two has.
Told(m) ==
  \/ Machine(m).groups = 1
  \/ \A n \in DOMAIN Machines :
       /\ Machine(n).vendor = Machine(m).vendor /\ Machine(n).model = Machine(m).model
       => Total(n) # SystemInfoCount(m)

GroupsAreTold == \A m \in DOMAIN Machines : Told(m)

CacheFits == Told(machine) => LpsAreThere

\* A signature that matches comes from as many processors.
LEMMA SignatureTells ==
  ASSUME NEW m \in DOMAIN Machines, NEW n \in DOMAIN Machines, Told(m),
         Signature(n, Total(n)) = Signature(m, SystemInfoCount(m))
  PROVE  Total(n) = Total(m)
<1>1. /\ Machine(n).vendor = Machine(m).vendor /\ Machine(n).model = Machine(m).model
      /\ Total(n) = SystemInfoCount(m)
  BY DEF Signature
<1>2. Machine(m).groups = 1
  BY <1>1 DEF Told
<1> QED BY <1>1, <1>2, OneGroup

CacheInv == TopologyInv /\ CacheKept /\ CacheFits

\* On a machine its signature tells from the others, above all on each with one
\* processor group, the app shows as many logical processors as the machine has,
\* also while what it shows is still the cache, whichever machine wrote that.
THEOREM CacheFitsWhereTold == TopologySpec => [](Told(machine) => LpsAreThere)
<1>1. TopologyInit => CacheKept /\ CacheFits
  BY DEF TopologyInit, CacheKept, CacheFits, LpsAreThere
<1>2. CacheInv /\ [TopologyNext]_tvars => CacheKept' /\ CacheFits'
  <2> SUFFICES ASSUME CacheInv, [TopologyNext]_tvars PROVE CacheKept' /\ CacheFits'
    OBVIOUS
  <2>1. CASE LoadCache
    <3>1. UNCHANGED <<machine, cache>> /\ machine \in DOMAIN Machines
      BY <2>1 DEF LoadCache, CacheInv, TopologyInv
    <3>2. CASE cache # None /\ cache.signature = Signature(machine, SystemInfoCount(machine))
      <4>1. PICK n \in DOMAIN Machines :
              cache.signature = Signature(n, Total(n)) /\ cache.topology.of = n
        BY <3>2 DEF CacheInv, CacheKept
      <4>2. shown' = cache.topology
        BY <2>1, <3>2 DEF LoadCache
      <4>3. Told(machine) => Total(n) = Total(machine)
        BY <3>1, <3>2, <4>1, SignatureTells
      <4> QED BY <3>1, <4>1, <4>2, <4>3 DEF CacheInv, CacheKept, CacheFits, LpsAreThere
    <3>3. CASE ~(cache # None /\ cache.signature = Signature(machine, SystemInfoCount(machine)))
      <4>1. shown' = None
        BY <2>1, <3>3 DEF LoadCache
      <4> QED BY <3>1, <4>1 DEF CacheInv, CacheKept, CacheFits, LpsAreThere
    <3> QED BY <3>2, <3>3
  <2>2. CASE ShowWithoutCpuid \/ CannotAsk \/ GiveUp \/ Detect
    <3>1. UNCHANGED <<machine, cache>> /\ shown'.of = machine
      BY <2>2, ShowEffect DEF ShowWithoutCpuid, CannotAsk, GiveUp, Detect
    <3> QED BY <3>1 DEF CacheInv, CacheKept, CacheFits, LpsAreThere
  <2>3. CASE SaveCache
    <3>1. UNCHANGED <<machine, shown>> /\ shown.of = machine
          /\ machine \in DOMAIN Machines
      BY <2>3 DEF SaveCache, CacheInv, TopologyInv
    <3>2. CASE cache' = [signature |-> Signature(machine, Total(machine)),
                         topology |-> shown]
      BY <3>1, <3>2 DEF CacheKept, CacheInv, CacheFits, LpsAreThere
    <3>3. CASE cache' = cache \/ cache' = None
      BY <3>1, <3>3 DEF CacheKept, CacheInv, CacheFits, LpsAreThere
    <3> QED BY <2>3, <3>2, <3>3 DEF SaveCache
  <2>4. CASE Restart
    BY <2>4 DEF Restart, CacheInv, CacheKept, CacheFits, LpsAreThere
  <2>5. CASE Expand \/ Pin \/ ChangeMask \/ UNCHANGED tvars
    <3>1. UNCHANGED <<machine, shown, cache>>
      BY <2>5 DEF Expand, Pin, ChangeMask, tvars
    <3> QED BY <3>1 DEF CacheInv, CacheKept, CacheFits, LpsAreThere
  <2> QED BY <2>1, <2>2, <2>3, <2>4, <2>5 DEF TopologyNext
<1>3. CacheInv <=> TopologyInv /\ CacheKept /\ CacheFits
  BY DEF CacheInv
<1>4. CacheFits <=> (Told(machine) => LpsAreThere)
  BY DEF CacheFits
<1> QED BY <1>1, <1>2, <1>3, <1>4, TopologyInvHolds, PTL DEF TopologySpec

\* LpsAreThere: whatever machine the app is started on next, what it shows has
\* as many logical processors as that machine, also while it is still the
\* cache's.
THEOREM CacheFitsTheMachine ==
  ASSUME GroupsAreTold
  PROVE  TopologySpec => []LpsAreThere
<1>1. TopologyInv => Told(machine)
  BY DEF TopologyInv, GroupsAreTold
<1> QED BY <1>1, CacheFitsWhereTold, TopologyInvHolds, PTL

=============================================================================
