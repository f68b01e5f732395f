--------------------------- MODULE ActionLog_proofs ---------------------------
(***************************************************************************)
(* Proofs about ActionLog: what the order of the lines in the two files    *)
(* says to the service that pairs them and to the GUI that reads them, for *)
(* every number of processes and entries, every limit and every size the   *)
(* files are rotated at, with torn lines and failed renames.               *)
(***************************************************************************)
EXTENDS ActionLog, TLAPS, WellFoundedInduction

Before == {ss \in Nat \X Nat : ss[1] < ss[2]}

LEMMA BeforeIsWellFounded == IsWellFoundedOn(Before, Nat)
<1>1. OpToRel(<, Nat) = Before
  BY DEF OpToRel, Before
<1> QED BY <1>1, NatLessThanWellFounded

\* Induction over the naturals, for a set.
LEMMA InductionOnNat ==
  ASSUME NEW S, 0 \in S, \A n \in Nat : n \in S => n + 1 \in S
  PROVE  Nat \subseteq S
<1> SUFFICES ASSUME ~(Nat \subseteq S) PROVE FALSE
  OBVIOUS
<1>1. PICK n \in Nat \ S : \A m \in Nat \ S : ~(<<m, n>> \in Before)
  <2>1. Nat \ S \subseteq Nat /\ Nat \ S # {}
    OBVIOUS
  <2> QED BY <2>1, BeforeIsWellFounded, WFMin
<1>2. n # 0 /\ n - 1 \in Nat /\ n - 1 < n /\ (n - 1) + 1 = n
  BY <1>1
<1>3. <<n - 1, n>> \in Before
  BY <1>2 DEF Before
<1>4. n - 1 \in S
  BY <1>1, <1>2, <1>3
<1> QED BY <1>1, <1>2, <1>4

-----------------------------------------------------------------------------
(* The two loops over lines and entries *)

\* One round of read_log or of pair_orphans.
Round(loop, x, item) == IF loop = "read" THEN Push(x, item) ELSE Pair(x, item)

\* The recursive function FoldLeft chooses for a loop over q from b.
Folds(loop, f, b, q, n) ==
  f = [s \in SUBSET (1..n) |->
         IF s = {} THEN b ELSE Round(loop, f[s \ {Max(s)}], q[Max(s)])]

LEMMA MaxIsLast ==
  ASSUME NEW n \in Nat, NEW s \in SUBSET (1..n), n \in s
  PROVE  Max(s) = n
<1>1. \A y \in s : n >= y
  OBVIOUS
<1>2. ASSUME NEW x \in s, \A y \in s : x >= y PROVE x = n
  BY <1>2
<1> QED BY <1>1, <1>2 DEF Max

LEMMA FoldsExist ==
  ASSUME NEW loop, NEW b, NEW q, NEW n \in Nat
  PROVE  \E f : Folds(loop, f, b, q, n)
<1> DEFINE S == {m \in Nat : \E f : Folds(loop, f, b, q, m)}
<1>1. 0 \in S
  <2> DEFINE f == [s \in SUBSET (1..0) |-> b]
  <2>1. \A s \in SUBSET (1..0) : s = {}
    OBVIOUS
  <2>2. Folds(loop, f, b, q, 0)
    BY <2>1 DEF Folds
  <2> QED BY <2>2
<1>2. ASSUME NEW m \in Nat, m \in S PROVE m + 1 \in S
  <2>1. PICK f : Folds(loop, f, b, q, m)
    BY <1>2
  <2> DEFINE g == [s \in SUBSET (1..m+1) |->
                     IF m + 1 \in s THEN Round(loop, f[s \ {m + 1}], q[m + 1]) ELSE f[s]]
  <2>2. ASSUME NEW s \in SUBSET (1..m+1)
        PROVE  g[s] = IF s = {} THEN b ELSE Round(loop, g[s \ {Max(s)}], q[Max(s)])
    <3>1. CASE m + 1 \in s
      <4>1. Max(s) = m + 1 /\ s # {}
        BY <3>1, MaxIsLast
      <4>2. g[s \ {m + 1}] = f[s \ {m + 1}]
        OBVIOUS
      <4> QED BY <3>1, <4>1, <4>2
    <3>2. CASE m + 1 \notin s
      <4>1. s \in SUBSET (1..m) /\ g[s] = f[s]
        BY <3>2
      <4>2. f[s] = IF s = {} THEN b ELSE Round(loop, f[s \ {Max(s)}], q[Max(s)])
        BY <2>1, <4>1 DEF Folds
      <4>3. g[s \ {Max(s)}] = f[s \ {Max(s)}]
        BY <3>2
      <4> QED BY <4>1, <4>2, <4>3
    <3> QED BY <3>1, <3>2
  <2>3. Folds(loop, g, b, q, m + 1)
    BY <2>2 DEF Folds
  <2> QED BY <2>3
<1> HIDE DEF S
<1>3. Nat \subseteq S
  BY <1>1, <1>2, InductionOnNat
<1>4. n \in S
  BY <1>3
<1> QED BY <1>4 DEF S

\* What a loop has after each of its rounds.
Rounds(loop, g, b, q, n) ==
  /\ g[0] = b
  /\ \A k \in 0..n - 1 : g[k + 1] = Round(loop, g[k], q[k + 1])

LEMMA FoldsAreRounds ==
  ASSUME NEW loop, NEW b, NEW q, NEW n \in Nat, NEW f, Folds(loop, f, b, q, n)
  PROVE  Rounds(loop, [k \in 0..n |-> f[1..k]], b, q, n)
<1>1. 1..0 = {} /\ {} \in SUBSET (1..n)
  OBVIOUS
<1>2. f[1..0] = b
  BY <1>1 DEF Folds
<1>3. ASSUME NEW k \in 0..n - 1
      PROVE  f[1..k + 1] = Round(loop, f[1..k], q[k + 1])
  <2>1. /\ k \in Nat /\ k + 1 \in Nat /\ 1..k + 1 \in SUBSET (1..n) /\ k + 1 \in 1..k + 1
        /\ (1..k + 1) \ {k + 1} = 1..k
    OBVIOUS
  <2>2. Max(1..k + 1) = k + 1
    BY <2>1, MaxIsLast
  <2>3. 1..k + 1 # {}
    BY <2>1
  <2>4. f[1..k + 1] = Round(loop, f[(1..k + 1) \ {Max(1..k + 1)}], q[Max(1..k + 1)])
    BY <2>1, <2>3 DEF Folds
  <2> QED BY <2>1, <2>2, <2>4
<1>4. \A k \in 0..n - 1 : k \in 0..n /\ k + 1 \in 0..n
  OBVIOUS
<1> QED BY <1>2, <1>3, <1>4 DEF Rounds

\* A file without a line cut inside a character.
Readable(file) == ~ \E i \in DOMAIN file : file[i].entry = Broken

LEMMA ReadRounds ==
  ASSUME NEW b, NEW q, NEW n \in Nat, DOMAIN q = 1..n, Readable(q)
  PROVE  \E g : Rounds("read", g, b, q, n) /\ Read(b, q) = g[n]
<1> DEFINE h == CHOOSE f : f = [s \in SUBSET (DOMAIN q) |->
                  IF s = {} THEN b ELSE Push(f[s \ {Max(s)}], q[Max(s)])]
<1>1. Read(b, q) = h[1..n]
  BY DEF Read, Readable, FoldLeft, MapThenFoldSet
<1>2. PICK f : Folds("read", f, b, q, n)
  BY FoldsExist
<1>3. Folds("read", h, b, q, n)
  BY <1>2 DEF Folds, Round
<1> HIDE DEF h
<1>4. Rounds("read", [k \in 0..n |-> h[1..k]], b, q, n)
  BY <1>3, FoldsAreRounds
<1>5. [k \in 0..n |-> h[1..k]][n] = h[1..n]
  OBVIOUS
<1> QED BY <1>1, <1>4, <1>5

LEMMA PairRounds ==
  ASSUME NEW q, NEW n \in Nat, DOMAIN q = 1..n
  PROVE  \E g : Rounds("pair", g, <<>>, q, n) /\ PairOrphans(q) = g[n]
<1> DEFINE h == CHOOSE f : f = [s \in SUBSET (DOMAIN q) |->
                  IF s = {} THEN <<>> ELSE Pair(f[s \ {Max(s)}], q[Max(s)])]
<1>1. PairOrphans(q) = h[1..n]
  BY DEF PairOrphans, FoldLeft, MapThenFoldSet
<1>2. PICK f : Folds("pair", f, <<>>, q, n)
  BY FoldsExist
<1>3. Folds("pair", h, <<>>, q, n)
  BY <1>2 DEF Folds, Round
<1> HIDE DEF h
<1>4. Rounds("pair", [k \in 0..n |-> h[1..k]], <<>>, q, n)
  BY <1>3, FoldsAreRounds
<1>5. [k \in 0..n |-> h[1..k]][n] = h[1..n]
  OBVIOUS
<1> QED BY <1>1, <1>4, <1>5

-----------------------------------------------------------------------------
(* What read_log returns *)

Good(line) == line.entry \in Entry

\* The lines that parse are in the order of their numbers.
InOrder(file) ==
  \A i, k \in DOMAIN file :
    i < k /\ Good(file[i]) /\ Good(file[k]) => file[i].entry.n < file[k].entry.n

EntriesInOrder(entries) ==
  \A i, k \in DOMAIN entries : i < k => entries[i].n < entries[k].n

Precede(entries, file) ==
  \A i \in DOMAIN entries, k \in DOMAIN file :
    Good(file[k]) => entries[i].n < file[k].entry.n

\* Every entry returned was there before or is in the file.
ComesFrom(r, b, q, m) ==
  \A i \in DOMAIN r :
    \/ \E k \in DOMAIN b : r[i] = b[k]
    \/ \E k \in 1..m : Good(q[k]) /\ r[i] = q[k].entry

LEMMA LineFacts ==
  ASSUME NEW line \in Line
  PROVE  /\ Good(line) => line.entry \in Entry /\ line.entry.n \in 1..MaxEntries
         /\ ~Good(line) => line.entry \in {Garbage, Broken}
         /\ line.ended \in BOOLEAN
BY DEF Line, Good, Entry

\* One round: a line that parses becomes the last entry, another leaves none.
LEMMA PushFacts ==
  ASSUME NEW r \in Seq(Entry), NEW line \in Line, line.entry # Broken
  PROVE  /\ Push(r, line) \in Seq(Entry)
         /\ ~Good(line) => Push(r, line) = r
         /\ Good(line) =>
              /\ Len(Push(r, line)) = Len(r) + 1
              /\ Push(r, line)[Len(r) + 1] = line.entry
              /\ \A i \in 1..Len(r) : Push(r, line)[i] = r[i]
<1>1. CASE Good(line)
  <2>1. line.entry \in Entry /\ Push(r, line) = Append(r, line.entry)
    BY <1>1, LogAssumption DEF Push, Good
  <2>2. line.entry # Garbage
    BY <1>1, LogAssumption DEF Good
  <2> QED BY <1>1, <2>1, <2>2
<1>2. CASE line.entry = Garbage
  <2>1. ~Good(line)
    BY <1>2, LogAssumption DEF Good
  <2> QED BY <1>2, <2>1 DEF Push
<1> QED BY <1>1, <1>2, LineFacts

LEMMA ReadableFacts ==
  ASSUME NEW b \in Seq(Entry), NEW q \in Seq(Line), Readable(q)
  PROVE  /\ Read(b, q) \in Seq(Entry)
         /\ ComesFrom(Read(b, q), b, q, Len(q))
         /\ q # <<>> /\ Good(q[Len(q)]) =>
              Read(b, q) # <<>> /\ Read(b, q)[Len(Read(b, q))] = q[Len(q)].entry
         /\ EntriesInOrder(b) /\ Precede(b, q) /\ InOrder(q) =>
              EntriesInOrder(Read(b, q))
         /\ (\A k \in DOMAIN q : Good(q[k])) =>
              /\ Len(Read(b, q)) = Len(b) + Len(q)
              /\ \A i \in 1..Len(b) : Read(b, q)[i] = b[i]
              /\ \A k \in 1..Len(q) : Read(b, q)[Len(b) + k] = q[k].entry
<1> DEFINE n == Len(q)
<1>0. n \in Nat /\ DOMAIN q = 1..n /\ (q # <<>> => n > 0)
      /\ \A k \in 1..n : q[k] \in Line /\ q[k].entry # Broken
  BY DEF Readable
<1>1. PICK g : Rounds("read", g, b, q, n) /\ Read(b, q) = g[n]
  BY <1>0, ReadRounds
<1>2. g[0] = b /\ \A k \in 0..n - 1 : g[k + 1] = Push(g[k], q[k + 1])
  BY <1>1 DEF Rounds, Round
<1> DEFINE Intactness == \A k \in DOMAIN q : Good(q[k])
           Ordered == EntriesInOrder(b) /\ Precede(b, q) /\ InOrder(q)
           Complete(r, k) ==
             /\ Len(r) = Len(b) + k
             /\ \A i \in 1..Len(b) : r[i] = b[i]
             /\ \A i \in 1..k : r[Len(b) + i] = q[i].entry
           Claim(k) ==
             /\ g[k] \in Seq(Entry)
             /\ ComesFrom(g[k], b, q, k)
             /\ k > 0 /\ Good(q[k]) => g[k] # <<>> /\ g[k][Len(g[k])] = q[k].entry
             /\ Ordered => EntriesInOrder(g[k])
             /\ Intactness => Complete(g[k], k)
           S == {k \in Nat : k <= n => Claim(k)}
<1> HIDE DEF n
<1>3. Claim(0)
  <2>1. ComesFrom(b, b, q, 0)
    BY DEF ComesFrom
  <2>2. Complete(b, 0)
    OBVIOUS
  <2> QED BY <1>2, <2>1, <2>2
<1>4. ASSUME NEW k \in Nat, k + 1 <= n, Claim(k) PROVE Claim(k + 1)
  <2> DEFINE r == g[k]
             line == q[k + 1]
             s == g[k + 1]
  <2>1. k \in 0..n - 1 /\ k + 1 \in 1..n /\ k + 1 \in DOMAIN q /\ k <= n /\ k + 1 > 0
    BY <1>0, <1>4
  <2>2. line \in Line /\ line.entry # Broken /\ s = Push(r, line) /\ r \in Seq(Entry)
    BY <1>0, <1>2, <1>4, <2>1
  <2>3. ComesFrom(r, b, q, k) /\ (Ordered => EntriesInOrder(r)) /\ (Intactness => Complete(r, k))
    BY <1>4
  <2> HIDE DEF r, line, s, Complete
  <2>4. s \in Seq(Entry)
    BY <2>2, PushFacts
  <2>5. CASE Good(line)
    <3>1. /\ Len(s) = Len(r) + 1 /\ s[Len(r) + 1] = line.entry /\ Len(r) \in Nat
          /\ \A i \in 1..Len(r) : s[i] = r[i]
          /\ DOMAIN r = 1..Len(r) /\ DOMAIN s = 1..Len(s)
          /\ line.entry \in Entry
      <4>1. line.entry \in Entry
        BY <2>5 DEF Good
      <4>2. /\ Len(s) = Len(r) + 1 /\ s[Len(r) + 1] = line.entry
            /\ \A i \in 1..Len(r) : s[i] = r[i]
        BY <2>2, <2>5, PushFacts
      <4> QED BY <2>2, <2>4, <4>1, <4>2
    <3>2. ComesFrom(s, b, q, k + 1)
      <4> SUFFICES ASSUME NEW i \in DOMAIN s
                   PROVE  \/ \E j \in DOMAIN b : s[i] = b[j]
                          \/ \E j \in 1..k + 1 : Good(q[j]) /\ s[i] = q[j].entry
        BY DEF ComesFrom
      <4>1. CASE i \in 1..Len(r)
        <5>1. \/ \E j \in DOMAIN b : s[i] = b[j]
              \/ \E j \in 1..k : Good(q[j]) /\ s[i] = q[j].entry
          BY <4>1, <3>1, <2>3 DEF ComesFrom
        <5>2. \A j \in 1..k : j \in 1..k + 1
          OBVIOUS
        <5> QED BY <5>1, <5>2
      <4>2. CASE i = Len(r) + 1
        BY <4>2, <3>1, <2>1, <2>5 DEF line
      <4> QED BY <4>1, <4>2, <3>1
    <3>3. s # <<>> /\ s[Len(s)] = line.entry
      BY <3>1
    <3>4. ASSUME Ordered PROVE EntriesInOrder(s)
      <4> SUFFICES ASSUME NEW i \in DOMAIN s, NEW j \in DOMAIN s, i < j
                   PROVE  s[i].n < s[j].n
        BY DEF EntriesInOrder
      <4>1. CASE j \in 1..Len(r)
        <5>1. i \in 1..Len(r)
          BY <4>1, <3>1
        <5> QED BY <5>1, <4>1, <3>1, <2>3, <3>4 DEF EntriesInOrder
      <4>2. CASE j = Len(r) + 1
        <5>1. i \in DOMAIN r /\ s[i] = r[i] /\ s[j] = line.entry
          BY <4>2, <3>1
        <5>2. CASE \E m \in DOMAIN b : r[i] = b[m]
          BY <5>1, <5>2, <3>4, <2>1, <2>5 DEF Precede, line
        <5>3. CASE \E m \in 1..k : Good(q[m]) /\ r[i] = q[m].entry
          <6>1. PICK m \in 1..k : Good(q[m]) /\ r[i] = q[m].entry
            BY <5>3
          <6>2. m \in DOMAIN q /\ m < k + 1
            BY <1>0, <2>1
          <6> QED BY <6>1, <6>2, <5>1, <3>4, <2>1, <2>5 DEF InOrder, line
        <5> QED BY <5>1, <5>2, <5>3, <2>3 DEF ComesFrom
      <4> QED BY <4>1, <4>2, <3>1
    <3>5. ASSUME Intactness PROVE Complete(s, k + 1)
      <4>1. /\ Len(r) = Len(b) + k
            /\ \A i \in 1..Len(b) : r[i] = b[i]
            /\ \A i \in 1..k : r[Len(b) + i] = q[i].entry
        BY <3>5, <2>3 DEF Complete
      <4>2. Len(b) \in Nat /\ Len(s) = Len(b) + (k + 1)
        BY <4>1, <3>1
      <4>3. \A i \in 1..Len(b) : s[i] = b[i]
        BY <4>1, <4>2, <3>1
      <4>4. ASSUME NEW i \in 1..k + 1 PROVE s[Len(b) + i] = q[i].entry
        <5>1. CASE i \in 1..k
          <6>1. Len(b) + i \in 1..Len(r)
            BY <4>1, <4>2, <5>1
          <6> QED BY <4>1, <5>1, <6>1, <3>1
        <5>2. CASE i = k + 1
          <6>1. Len(b) + i = Len(r) + 1
            BY <4>1, <4>2, <5>2
          <6> QED BY <5>2, <6>1, <3>1 DEF line
        <5> QED BY <5>1, <5>2
      <4> QED BY <4>2, <4>3, <4>4 DEF Complete
    <3> QED BY <2>4, <3>2, <3>3, <3>4, <3>5 DEF s, line
  <2>6. CASE ~Good(line)
    <3>1. s = r
      BY <2>2, <2>6, PushFacts
    <3>2. ComesFrom(s, b, q, k + 1)
      <4>1. \A j \in 1..k : j \in 1..k + 1
        OBVIOUS
      <4> QED BY <3>1, <2>3, <4>1 DEF ComesFrom
    <3>3. ~Intactness
      BY <2>6, <2>1 DEF line
    <3>4. Ordered => EntriesInOrder(s)
      BY <3>1, <2>3
    <3> QED BY <2>4, <2>6, <3>2, <3>3, <3>4 DEF s, line
  <2> QED BY <2>5, <2>6
<1>5. 0 \in S
  BY <1>3
<1>6. ASSUME NEW k \in Nat, k \in S PROVE k + 1 \in S
  <2> HIDE DEF Claim
  <2>1. k + 1 <= n => k <= n
    BY <1>0
  <2> QED BY <1>4, <1>6, <2>1
<1> HIDE DEF S, Claim
<1>7. n \in S
  BY <1>0, <1>5, <1>6, InductionOnNat
<1>8. Claim(n)
  BY <1>0, <1>7 DEF S
<1>9. n > 0 <=> q # <<>>
  BY <1>0 DEF n
<1> USE DEF Claim
<1>10. /\ Read(b, q) \in Seq(Entry)
       /\ ComesFrom(Read(b, q), b, q, n)
  BY <1>1, <1>8
<1>11. q # <<>> /\ Good(q[n]) =>
         Read(b, q) # <<>> /\ Read(b, q)[Len(Read(b, q))] = q[n].entry
  BY <1>1, <1>8, <1>9
<1>12. Ordered => EntriesInOrder(Read(b, q))
  BY <1>1, <1>8
<1>13. Intactness => Complete(Read(b, q), n)
  BY <1>1, <1>8
<1> QED BY <1>10, <1>11, <1>12, <1>13 DEF n

LEMMA ReadFacts ==
  ASSUME NEW b \in Seq(Entry), NEW q \in Seq(Line)
  PROVE  /\ Read(b, q) \in Seq(Entry)
         /\ ComesFrom(Read(b, q), b, q, Len(q))
         /\ Readable(q) /\ q # <<>> /\ Good(q[Len(q)]) =>
              Read(b, q) # <<>> /\ Read(b, q)[Len(Read(b, q))] = q[Len(q)].entry
         /\ EntriesInOrder(b) /\ Precede(b, q) /\ InOrder(q) =>
              EntriesInOrder(Read(b, q))
         /\ (\A k \in DOMAIN q : Good(q[k])) =>
              /\ Len(Read(b, q)) = Len(b) + Len(q)
              /\ \A i \in 1..Len(b) : Read(b, q)[i] = b[i]
              /\ \A k \in 1..Len(q) : Read(b, q)[Len(b) + k] = q[k].entry
<1>1. CASE Readable(q)
  BY <1>1, ReadableFacts
<1>2. CASE ~Readable(q)
  <2>1. Read(b, q) = b
    BY <1>2 DEF Read, Readable
  <2>2. ComesFrom(b, b, q, Len(q))
    BY DEF ComesFrom
  <2>3. ~ \A k \in DOMAIN q : Good(q[k])
    BY <1>2, LogAssumption DEF Readable, Good
  <2> QED BY <1>2, <2>1, <2>2, <2>3
<1> QED BY <1>1, <1>2

\* What is trimmed keeps its order and its end.
LEMMA TrimFacts ==
  ASSUME NEW r \in Seq(Entry), NEW limit \in Nat
  PROVE  /\ Trim(r, limit) \in Seq(Entry)
         /\ Len(Trim(r, limit)) <= limit
         /\ \A i \in DOMAIN Trim(r, limit) : \E k \in DOMAIN r : Trim(r, limit)[i] = r[k]
         /\ EntriesInOrder(r) => EntriesInOrder(Trim(r, limit))
         /\ r # <<>> /\ limit > 0 =>
              /\ Trim(r, limit) # <<>>
              /\ Trim(r, limit)[Len(Trim(r, limit))] = r[Len(r)]
<1> DEFINE n == Len(r)
           s == SubSeq(r, n - limit + 1, n)
<1>0. n \in Nat /\ DOMAIN r = 1..n /\ (r # <<>> => n > 0)
  OBVIOUS
<1>1. CASE n > limit
  <2>1. Trim(r, limit) = s
    BY <1>1 DEF Trim
  <2>2. /\ n - limit + 1 \in 1..n + 1 /\ n - (n - limit + 1) + 1 = limit
        /\ \A i \in 1..limit : (n - limit + 1) + i - 1 = (n - limit) + i /\ (n - limit) + i \in 1..n
    BY <1>0, <1>1
  <2>3. /\ s \in Seq(Entry) /\ Len(s) = limit /\ DOMAIN s = 1..limit
        /\ \A i \in 1..limit : s[i] = r[(n - limit) + i]
    BY <1>0, <2>2
  <2> HIDE DEF n, s
  <2>4. EntriesInOrder(r) => EntriesInOrder(s)
    <3> SUFFICES ASSUME EntriesInOrder(r), NEW i \in 1..limit, NEW k \in 1..limit, i < k
                 PROVE  s[i].n < s[k].n
      BY <2>3 DEF EntriesInOrder
    <3>1. (n - limit) + i \in DOMAIN r /\ (n - limit) + k \in DOMAIN r
      BY <1>0, <2>2
    <3>2. (n - limit) + i < (n - limit) + k
      BY <1>0
    <3> QED BY <2>3, <3>1, <3>2 DEF EntriesInOrder
  <2>5. limit > 0 => s # <<>> /\ s[Len(s)] = r[n]
    <3> SUFFICES ASSUME limit > 0 PROVE s # <<>> /\ s[Len(s)] = r[n]
      OBVIOUS
    <3>1. limit \in 1..limit /\ (n - limit) + limit = n
      BY <1>0
    <3> QED BY <2>3, <3>1
  <2>6. \A i \in DOMAIN s : \E k \in DOMAIN r : s[i] = r[k]
    BY <1>0, <2>2, <2>3
  <2> QED BY <2>1, <2>3, <2>4, <2>5, <2>6 DEF n
<1>2. CASE ~(n > limit)
  <2>1. Trim(r, limit) = r
    BY <1>2 DEF Trim
  <2> QED BY <1>0, <1>2, <2>1
<1> QED BY <1>1, <1>2

-----------------------------------------------------------------------------
(* What pair_orphans returns *)

\* A downgrade that none of the first k entries closes or repeats.
Open(entries, k, i) ==
  /\ entries[i].action = "downgrade"
  /\ \A j \in i + 1..k :
       entries[j].pid = entries[i].pid => entries[j].action = "game_mode_boost"

LEMMA PairCases ==
  ASSUME NEW book, NEW e
  PROVE  /\ e.action = "downgrade" => Pair(book, e) = With(book, e)
         /\ Closes(e) => Pair(book, e) = Without(book, e.pid)
         /\ e.action = "game_mode_boost" => Pair(book, e) = book
BY DEF Pair, Closes

LEMMA PairFacts ==
  ASSUME NEW q \in Seq(Entry)
  PROVE  /\ \A id \in DOMAIN PairOrphans(q) : \E i \in 1..Len(q) :
              Open(q, Len(q), i) /\ q[i].pid = id /\ PairOrphans(q)[id] = q[i]
         /\ \A i \in 1..Len(q) : Open(q, Len(q), i) => q[i].pid \in DOMAIN PairOrphans(q)
<1> DEFINE n == Len(q)
<1>0. n \in Nat /\ DOMAIN q = 1..n /\ \A k \in 1..n : q[k] \in Entry
  OBVIOUS
<1>1. PICK g : Rounds("pair", g, <<>>, q, n) /\ PairOrphans(q) = g[n]
  BY <1>0, PairRounds
<1>2. g[0] = <<>> /\ \A k \in 0..n - 1 : g[k + 1] = Pair(g[k], q[k + 1])
  BY <1>1 DEF Rounds, Round
<1> DEFINE Found(k) == \A id \in DOMAIN g[k] : \E i \in 1..k :
                         Open(q, k, i) /\ q[i].pid = id /\ g[k][id] = q[i]
           Kept(k) == \A i \in 1..k : Open(q, k, i) => q[i].pid \in DOMAIN g[k]
           S == {k \in Nat : k <= n => Found(k) /\ Kept(k)}
<1> HIDE DEF n
<1>3. 0 \in S
  <2>1. DOMAIN g[0] = {}
    BY <1>2
  <2> QED BY <2>1
<1>4. ASSUME NEW k \in Nat, k \in S, k + 1 <= n PROVE Found(k + 1) /\ Kept(k + 1)
  <2> DEFINE book == g[k]
             e == q[k + 1]
             next == g[k + 1]
  <2>1. k \in 0..n - 1 /\ k + 1 \in 1..n /\ k <= n
    BY <1>0, <1>4
  <2>2. e \in Entry /\ next = Pair(book, e)
    BY <1>0, <1>2, <2>1
  <2>3. Found(k) /\ Kept(k)
    BY <1>4, <2>1
  <2> HIDE DEF S
  <2>4. ASSUME NEW i \in 1..k, Open(q, k, i), e.pid = q[i].pid => e.action = "game_mode_boost"
        PROVE  Open(q, k + 1, i)
    <3>1. \A j \in i + 1..k + 1 : j \in i + 1..k \/ j = k + 1
      OBVIOUS
    <3> QED BY <2>4, <3>1 DEF Open
  <2>5. ASSUME NEW i \in 1..k, Open(q, k + 1, i)
        PROVE  Open(q, k, i) /\ (e.pid = q[i].pid => e.action = "game_mode_boost")
    <3>1. (\A j \in i + 1..k : j \in i + 1..k + 1) /\ k + 1 \in i + 1..k + 1
      OBVIOUS
    <3> QED BY <2>5, <3>1 DEF Open
  <2>6. \A i \in 1..k + 1 : i \in 1..k \/ i = k + 1
    OBVIOUS
  <2>7. e.action = "downgrade" => Open(q, k + 1, k + 1)
    BY DEF Open
  <2>8. CASE e.action = "downgrade"
    <3>1. next = With(book, e)
      BY <2>2, <2>8, PairCases
    <3>2. DOMAIN next = DOMAIN book \cup {e.pid} /\ next[e.pid] = e
          /\ \A id \in DOMAIN book : id # e.pid => next[id] = book[id]
      BY <3>1 DEF With
    <3> HIDE DEF next, book
    <3>3. ASSUME NEW id \in DOMAIN next
          PROVE  \E i \in 1..k + 1 : Open(q, k + 1, i) /\ q[i].pid = id /\ next[id] = q[i]
      <4>1. CASE id = e.pid
        <5>1. k + 1 \in 1..k + 1
          OBVIOUS
        <5> QED BY <4>1, <5>1, <3>2, <2>7, <2>8
      <4>2. CASE id # e.pid
        <5>1. id \in DOMAIN book /\ next[id] = book[id]
          BY <3>2, <4>2
        <5>2. PICK i \in 1..k : Open(q, k, i) /\ q[i].pid = id /\ book[id] = q[i]
          BY <5>1, <2>3 DEF book
        <5>3. Open(q, k + 1, i) /\ i \in 1..k + 1
          BY <2>4, <4>2, <5>2
        <5> QED BY <5>1, <5>2, <5>3
      <4> QED BY <4>1, <4>2
    <3>4. ASSUME NEW i \in 1..k + 1, Open(q, k + 1, i)
          PROVE  q[i].pid \in DOMAIN next
      <4>1. CASE i = k + 1
        BY <4>1, <3>2
      <4>2. CASE i \in 1..k
        BY <4>2, <3>2, <3>4, <2>5, <2>3 DEF book
      <4> QED BY <4>1, <4>2, <2>6
    <3> QED BY <3>3, <3>4 DEF next
  <2>9. CASE Closes(e)
    <3>1. next = Without(book, e.pid) /\ e.action \notin {"downgrade", "game_mode_boost"}
      BY <2>2, <2>9, PairCases DEF Closes
    <3>2. DOMAIN next = DOMAIN book \ {e.pid} /\ \A id \in DOMAIN next : next[id] = book[id]
      BY <3>1 DEF Without
    <3> HIDE DEF next, book
    <3>3. ASSUME NEW id \in DOMAIN next
          PROVE  \E i \in 1..k + 1 : Open(q, k + 1, i) /\ q[i].pid = id /\ next[id] = q[i]
      <4>1. id \in DOMAIN book /\ next[id] = book[id] /\ id # e.pid
        BY <3>2
      <4>2. PICK i \in 1..k : Open(q, k, i) /\ q[i].pid = id /\ book[id] = q[i]
        BY <4>1, <2>3 DEF book
      <4>3. Open(q, k + 1, i) /\ i \in 1..k + 1
        BY <2>4, <4>1, <4>2
      <4> QED BY <4>1, <4>2, <4>3
    <3>4. ASSUME NEW i \in 1..k + 1, Open(q, k + 1, i)
          PROVE  q[i].pid \in DOMAIN next
      <4>1. i # k + 1
        BY <3>1, <3>4 DEF Open
      <4>2. i \in 1..k
        BY <4>1, <2>6
      <4>3. Open(q, k, i) /\ e.pid # q[i].pid
        BY <4>2, <2>5, <3>1, <3>4
      <4> QED BY <4>2, <4>3, <3>2, <2>3 DEF book
    <3> QED BY <3>3, <3>4 DEF next
  <2>10. CASE e.action = "game_mode_boost"
    <3>1. next = book
      BY <2>2, <2>10, PairCases
    <3> HIDE DEF next, book
    <3>2. ASSUME NEW id \in DOMAIN next
          PROVE  \E i \in 1..k + 1 : Open(q, k + 1, i) /\ q[i].pid = id /\ next[id] = q[i]
      <4>1. PICK i \in 1..k : Open(q, k, i) /\ q[i].pid = id /\ book[id] = q[i]
        BY <3>1, <2>3 DEF book
      <4>2. Open(q, k + 1, i) /\ i \in 1..k + 1
        BY <2>4, <4>1, <2>10
      <4> QED BY <3>1, <4>1, <4>2
    <3>3. ASSUME NEW i \in 1..k + 1, Open(q, k + 1, i)
          PROVE  q[i].pid \in DOMAIN next
      <4>1. i \in 1..k
        BY <3>3, <2>6, <2>10 DEF Open
      <4> QED BY <4>1, <2>5, <3>1, <3>3, <2>3 DEF book
    <3> QED BY <3>2, <3>3 DEF next
  <2>11. e.action = "downgrade" \/ Closes(e) \/ e.action = "game_mode_boost"
    BY <2>2 DEF Entry, Closes
  <2> QED BY <2>8, <2>9, <2>10, <2>11
<1>5. ASSUME NEW k \in Nat, k \in S PROVE k + 1 \in S
  <2>1. k + 1 <= n => Found(k + 1) /\ Kept(k + 1)
    BY <1>4, <1>5
  <2> HIDE DEF Found, Kept
  <2> QED BY <2>1
<1> HIDE DEF S
<1>6. n \in S
  BY <1>0, <1>3, <1>5, InductionOnNat
<1>7. Found(n) /\ Kept(n)
  BY <1>0, <1>6 DEF S
<1> QED BY <1>1, <1>7 DEF n

-----------------------------------------------------------------------------
(* What the files hold *)

\* All lines that are kept, the older generation first.
Lines == old \o current

LogTypes ==
  /\ old \in Seq(Line) /\ current \in Seq(Line)
  /\ written \in 0..MaxEntries
  /\ \A id \in DOMAIN lowered : lowered[id] \in Entry
  /\ reader \in Reader /\ Len(reader.got) <= Limit
  /\ "rename" \notin Faults =>
       Len(old) <= RotateLines + 1 /\ Len(current) <= RotateLines + 1

\* Entries are numbered in the order of the lines, without a gap where no line
\* is garbage, and a last line that parses is the last entry written.
Numbered ==
  /\ \A i \in DOMAIN Lines : Good(Lines[i]) => Lines[i].entry.n <= written
  /\ InOrder(Lines)
  /\ \A i \in 1..(Len(Lines) - 1) :
       Good(Lines[i]) /\ Good(Lines[i + 1]) =>
         Lines[i + 1].entry.n = Lines[i].entry.n + 1
  /\ Lines # <<>> /\ Good(Lines[Len(Lines)]) => Lines[Len(Lines)].entry.n = written

\* Nothing is dropped before the older generation is full.
Generations ==
  /\ current = <<>> /\ old = <<>> => written = 0
  /\ old = <<>> \/ Len(old) > RotateLines
  /\ old = <<>> /\ current # <<>> /\ Good(current[1]) => current[1].entry.n = 1

\* A later line closes the entry of line i, or cannot be read.
Closed(i) ==
  \E k \in DOMAIN Lines :
    /\ k > i
    /\ Good(Lines[k]) => Closes(Lines[k].entry) /\ Lines[k].entry.pid = Lines[i].entry.pid

\* No line later than its downgrade speaks of a lowered process.
LoweredIsLast ==
  \A id \in DOMAIN lowered :
    /\ lowered[id].pid = id /\ lowered[id].action = "downgrade"
    /\ lowered[id].n <= written
    /\ \A i \in DOMAIN Lines : Good(Lines[i]) =>
         /\ Lines[i].entry.n = lowered[id].n => Lines[i].entry = lowered[id]
         /\ Lines[i].entry.pid = id /\ Lines[i].entry.action # "game_mode_boost" =>
              Lines[i].entry.n <= lowered[id].n

\* A line tells of a downgrade that stands, or of one that was closed.
DowngradesTold ==
  \A i \in DOMAIN Lines :
    Good(Lines[i]) /\ Lines[i].entry.action = "downgrade" =>
      \/ /\ Lines[i].entry.pid \in DOMAIN lowered
         /\ lowered[Lines[i].entry.pid] = Lines[i].entry
      \/ Closed(i)

\* Between its two reads the GUI has only entries older than the current file.
Reading ==
  /\ reader.since <= written
  /\ \A i \in DOMAIN reader.got : reader.got[i].n <= written
  /\ EntriesInOrder(reader.got)
  /\ reader.at = "between" => Precede(reader.got, current)

LogInv ==
  /\ LogTypes /\ Numbered /\ Generations
  /\ LoweredIsLast /\ DowngradesTold /\ Reading

\* After an append the lines are what they were, and one more: the appended
\* line, or what it has made of the unfinished one before it.
Extended(line) ==
  /\ Len(Lines') \in Nat \ {0} /\ Len(Lines) \in Nat
  /\ \A i \in 1..Len(Lines') - 1 : i \in 1..Len(Lines) /\ Lines'[i] = Lines[i]
  /\ \/ Lines'[Len(Lines')] = line /\ Len(Lines') = Len(Lines) + 1
     \/ ~Good(Lines'[Len(Lines')]) /\ Len(Lines') = Len(Lines)

LEMMA Joined ==
  ASSUME NEW o \in Seq(Line), NEW c \in Seq(Line)
  PROVE  /\ o \o c \in Seq(Line) /\ Len(o \o c) = Len(o) + Len(c)
         /\ Len(o) \in Nat /\ Len(c) \in Nat
         /\ \A i \in 1..Len(o) : (o \o c)[i] = o[i]
         /\ \A i \in 1..Len(c) : (o \o c)[Len(o) + i] = c[i]
         /\ DOMAIN (o \o c) = 1..(Len(o) + Len(c))
OBVIOUS

\* The file a line is appended to, of the lines kept in it.
Appended(kept, line) ==
  IF kept # <<>> /\ ~Last(kept).ended
  THEN Append(Front(kept), Glued(Last(kept), line))
  ELSE Append(kept, line)

LEMMA AppendedFacts ==
  ASSUME NEW kept \in Seq(Line), NEW line \in Line
  PROVE  /\ Appended(kept, line) \in Seq(Line)
         /\ Len(Appended(kept, line)) \in Nat \ {0}
         /\ \A i \in 1..Len(Appended(kept, line)) - 1 :
              i \in 1..Len(kept) /\ Appended(kept, line)[i] = kept[i]
         /\ \/ /\ Len(Appended(kept, line)) = Len(kept) + 1
               /\ Appended(kept, line)[Len(kept) + 1] = line
            \/ /\ Len(Appended(kept, line)) = Len(kept) /\ kept # <<>>
               /\ ~Good(Appended(kept, line)[Len(kept)])
<1> DEFINE glued == Glued(Last(kept), line)
           a == Appended(kept, line)
<1>1. glued \in Line /\ ~Good(glued)
  BY LineFacts, LogAssumption DEF Line, Good, Glued
<1>2. CASE kept # <<>> /\ ~Last(kept).ended
  <2>1. a = Append(SubSeq(kept, 1, Len(kept) - 1), glued)
    BY <1>2 DEF Appended, Front
  <2> DEFINE f == SubSeq(kept, 1, Len(kept) - 1)
  <2>2. /\ f \in Seq(Line) /\ Len(f) = Len(kept) - 1 /\ Len(kept) \in Nat \ {0}
        /\ \A i \in 1..Len(kept) - 1 : f[i] = kept[i]
    <3>1. Len(kept) \in Nat \ {0} /\ DOMAIN kept = 1..Len(kept)
      BY <1>2
    <3>2. \A i \in 1..Len(kept) - 1 : i \in 1..Len(kept) /\ kept[i] \in Line
      BY <3>1
    <3>3. Len(kept) - 1 \in Nat
      BY <3>1
    <3> QED BY <3>1, <3>2, <3>3
  <2> HIDE DEF f, glued
  <2>3. /\ a \in Seq(Line) /\ Len(a) = Len(kept) /\ a[Len(kept)] = glued
        /\ \A i \in 1..Len(kept) - 1 : a[i] = f[i]
    BY <1>1, <2>1, <2>2 DEF f
  <2> QED BY <1>1, <1>2, <2>2, <2>3
<1>3. CASE ~(kept # <<>> /\ ~Last(kept).ended)
  <2>1. a = Append(kept, line)
    BY <1>3 DEF Appended
  <2> QED BY <2>1
<1> QED BY <1>2, <1>3

LEMMA WriteEffect ==
  ASSUME NEW line \in Line, LogTypes, Write(line)
  PROVE  /\ old' = old /\ current' \in Seq(Line) /\ current' # <<>>
         /\ Extended(line)
         /\ \A k \in DOMAIN current' : Good(current'[k]) =>
              current'[k] = line \/ \E j \in DOMAIN current : current'[k] = current[j]
         /\ Good(current'[1]) /\ current = <<>> => current'[1] = line
         /\ Good(current'[1]) /\ current # <<>> => current'[1] = current[1]
         /\ "rename" \notin Faults => Len(current') <= RotateLines + 1
<1>0. /\ old \in Seq(Line) /\ current \in Seq(Line) /\ RotateLines \in Nat
      /\ "rename" \notin Faults =>
           Len(old) <= RotateLines + 1 /\ Len(current) <= RotateLines + 1
  BY LogAssumption DEF LogTypes
<1>1. /\ Lines = old \o current /\ Lines' = old' \o current'
      /\ Len(Lines) = Len(old) + Len(current)
  BY <1>0, Joined DEF Lines
<1>2. /\ "rename" \notin Faults => Len(current) <= RotateLines
      /\ old' = old /\ current' = Appended(current, line)
  <2>1. Len(current) \in Nat
    BY <1>0
  <2> QED BY <1>0, <2>1 DEF Write, Appended
<1> DEFINE n == Len(current')
           c == current'
           a == Appended(current, line)
<1>3. /\ a \in Seq(Line) /\ Len(a) \in Nat \ {0}
      /\ \A i \in 1..Len(a) - 1 : i \in 1..Len(current) /\ a[i] = current[i]
      /\ \/ Len(a) = Len(current) + 1 /\ a[Len(current) + 1] = line
         \/ Len(a) = Len(current) /\ current # <<>> /\ ~Good(a[Len(current)])
  BY <1>0, AppendedFacts
<1>4. /\ current' \in Seq(Line) /\ n \in Nat \ {0} /\ DOMAIN current' = 1..n
      /\ \A i \in 1..n - 1 : i \in 1..Len(current) /\ current'[i] = current[i]
      /\ \/ n = Len(current) + 1 /\ current'[n] = line
         \/ n = Len(current) /\ current # <<>> /\ ~Good(current'[n])
  <2>1. current' = a
    BY <1>2
  <2> HIDE DEF a
  <2> QED BY <1>3, <2>1
<1>5. /\ Len(Lines') = Len(old) + n /\ Len(old) \in Nat /\ Len(current) \in Nat
      /\ \A i \in 1..Len(old) : Lines'[i] = old[i]
      /\ \A i \in 1..n : Lines'[Len(old) + i] = current'[i]
  <2>1. Lines' = old \o c /\ c \in Seq(Line)
    BY <1>1, <1>2, <1>4
  <2> HIDE DEF c
  <2>2. /\ Len(old \o c) = Len(old) + Len(c) /\ Len(old) \in Nat
        /\ \A i \in 1..Len(old) : (old \o c)[i] = old[i]
        /\ \A i \in 1..Len(c) : (old \o c)[Len(old) + i] = c[i]
    BY <1>0, <2>1, Joined
  <2>3. Len(current) \in Nat
    BY <1>0
  <2> QED BY <2>1, <2>2, <2>3 DEF c
<1>6. /\ \A i \in 1..Len(old) : Lines[i] = old[i]
      /\ \A i \in 1..Len(current) : Lines[Len(old) + i] = current[i]
  BY <1>0, <1>1, Joined
<1> HIDE DEF n, c, a
<1>7. Extended(line)
  <2>1. ASSUME NEW i \in 1..Len(Lines') - 1
        PROVE  i \in 1..Len(Lines) /\ Lines'[i] = Lines[i]
    <3>1. CASE i \in 1..Len(old)
      <4>1. i \in 1..Len(Lines)
        BY <1>1, <1>5, <3>1
      <4> QED BY <3>1, <4>1, <1>5, <1>6
    <3>2. CASE i \notin 1..Len(old)
      <4>1. i - Len(old) \in 1..n - 1 /\ Len(old) + (i - Len(old)) = i
        BY <1>4, <1>5, <3>2
      <4>2. i - Len(old) \in 1..Len(current) /\ i - Len(old) \in 1..n
        BY <1>4, <4>1
      <4>3. Lines'[i] = current'[i - Len(old)] /\ Lines[i] = current[i - Len(old)]
        BY <1>5, <1>6, <4>1, <4>2
      <4>4. i \in 1..Len(Lines)
        BY <1>1, <1>5, <4>1, <4>2
      <4> QED BY <1>4, <4>1, <4>3, <4>4
    <3> QED BY <3>1, <3>2
  <2>2. n \in 1..n /\ Lines'[Len(Lines')] = current'[n]
    BY <1>4, <1>5
  <2>3. \/ Lines'[Len(Lines')] = line /\ Len(Lines') = Len(Lines) + 1
        \/ ~Good(Lines'[Len(Lines')]) /\ Len(Lines') = Len(Lines)
    <3>1. CASE n = Len(current) + 1 /\ current'[n] = line
      BY <1>1, <1>4, <1>5, <2>2, <3>1
    <3>2. CASE n = Len(current) /\ ~Good(current'[n])
      BY <1>1, <1>4, <1>5, <2>2, <3>2
    <3> QED BY <1>4, <3>1, <3>2
  <2>4. Len(Lines') \in Nat \ {0} /\ Len(Lines) \in Nat
    BY <1>1, <1>4, <1>5
  <2> QED BY <2>1, <2>3, <2>4 DEF Extended
<1>8. ASSUME NEW k \in DOMAIN current', Good(current'[k])
      PROVE  current'[k] = line \/ \E j \in DOMAIN current : current'[k] = current[j]
  <2>1. k \in 1..n - 1 \/ k = n
    BY <1>4
  <2>2. DOMAIN current = 1..Len(current)
    BY <1>0
  <2> QED BY <1>4, <1>8, <2>1, <2>2
<1>9. ASSUME Good(current'[1])
      PROVE  IF current = <<>> THEN current'[1] = line ELSE current'[1] = current[1]
  <2>1. n = 1 \/ 1 \in 1..n - 1
    BY <1>4
  <2>2. CASE current = <<>>
    <3>1. Len(current) = 0
      BY <2>2
    <3> QED BY <1>4, <2>2, <3>1
  <2>3. CASE current # <<>>
    <3>1. Len(current) > 0
      BY <1>0, <2>3
    <3> QED BY <1>4, <1>5, <1>9, <2>1, <2>3, <3>1
  <2> QED BY <2>2, <2>3
<1>10. "rename" \notin Faults => n <= RotateLines + 1
  BY <1>0, <1>2, <1>4, <1>5
<1> QED BY <1>0, <1>2, <1>4, <1>7, <1>8, <1>9, <1>10 DEF n

-----------------------------------------------------------------------------
(* A line is appended *)

\* What goes with a line: its entry has happened, or it holds a part of one.
Goes(line) ==
  \/ /\ line.entry \in Entries /\ Happened(line.entry)
     /\ written' = written + 1
  \/ ~Good(line) /\ UNCHANGED <<lowered, written>>

LEMMA GoesFacts ==
  ASSUME NEW line \in Line, LogTypes, Goes(line)
  PROVE  /\ written \in Nat /\ written' \in 0..MaxEntries /\ written' >= written
         /\ Good(line) => /\ line.entry \in Entry /\ line.entry.n = written + 1
                          /\ line.entry \in Entries /\ Happened(line.entry)
                          /\ written' = written + 1
         /\ ~Good(line) => UNCHANGED <<lowered, written>>
<1>1. written \in 0..MaxEntries /\ MaxEntries \in Nat /\ Garbage \notin Entry
  BY LogAssumption DEF LogTypes
<1>2. CASE line.entry \in Entries /\ Happened(line.entry) /\ written' = written + 1
  <2>1. line.entry \in Entry /\ line.entry.n = written + 1 /\ line.entry.n \in 1..MaxEntries
    BY <1>2 DEF Entries, Entry
  <2>2. Good(line)
    BY <1>1, <2>1 DEF Good
  <2> QED BY <1>1, <1>2, <2>1, <2>2
<1>3. CASE ~Good(line) /\ UNCHANGED <<lowered, written>>
  BY <1>1, <1>3
<1> QED BY <1>2, <1>3 DEF Goes

\* The kept lines, and where they were.
LEMMA KeptLine ==
  ASSUME NEW line, Extended(line), NEW i \in 1..Len(Lines') - 1
  PROVE  /\ i \in 1..Len(Lines) /\ Lines'[i] = Lines[i]
         /\ i \in 1..Len(Lines')
BY DEF Extended

LEMMA LinesTypes ==
  ASSUME LogTypes
  PROVE  /\ Lines \in Seq(Line) /\ Len(Lines) \in Nat /\ DOMAIN Lines = 1..Len(Lines)
         /\ \A i \in 1..Len(Lines) : Lines[i] \in Line
<1>1. Lines \in Seq(Line)
  BY Joined DEF LogTypes, Lines
<1> QED BY <1>1

LEMMA LinesTypesNext ==
  ASSUME LogTypes'
  PROVE  Len(Lines') \in Nat /\ DOMAIN Lines' = 1..Len(Lines')
<1> DEFINE o == old'
           c == current'
<1>1. o \in Seq(Line) /\ c \in Seq(Line) /\ Lines' = o \o c
  BY DEF LogTypes, Lines
<1> HIDE DEF o, c
<1>2. o \o c \in Seq(Line)
  BY <1>1, Joined
<1> QED BY <1>1, <1>2

LEMMA NumberedNext ==
  ASSUME LogTypes, LogTypes', Numbered, NEW line \in Line, Goes(line),
         Extended(line)
  PROVE  Numbered'
<1> DEFINE m == Len(Lines')
           n == Len(Lines)
<1>1. /\ m \in Nat \ {0} /\ n \in Nat /\ DOMAIN Lines = 1..n /\ DOMAIN Lines' = 1..m
  BY LinesTypes, LinesTypesNext DEF Extended
<1>2. \/ Lines'[m] = line /\ m = n + 1
      \/ ~Good(Lines'[m]) /\ m = n
  BY DEF Extended
<1>3. \A i \in 1..m - 1 : i \in 1..n /\ Lines'[i] = Lines[i]
  BY KeptLine
<1>4. /\ written \in Nat /\ written' \in Nat /\ written' >= written
      /\ Good(line) => line.entry.n = written + 1 /\ written' = written + 1
  BY GoesFacts, LogAssumption
<1>5. /\ \A i \in 1..n : Good(Lines[i]) => Lines[i].entry.n <= written /\ Lines[i].entry.n \in Nat
      /\ \A i, k \in 1..n :
           i < k /\ Good(Lines[i]) /\ Good(Lines[k]) => Lines[i].entry.n < Lines[k].entry.n
      /\ \A i \in 1..(n - 1) : Good(Lines[i]) /\ Good(Lines[i + 1]) =>
           Lines[i + 1].entry.n = Lines[i].entry.n + 1
      /\ n > 0 /\ Good(Lines[n]) => Lines[n].entry.n = written
  <2>1. \A i \in 1..n : Good(Lines[i]) => Lines[i].entry.n \in Nat
    <3>1. \A i \in 1..n : Good(Lines[i]) => Lines[i].entry.n \in 1..MaxEntries
      BY LinesTypes, LineFacts
    <3> QED BY <3>1
  <2>2. n > 0 => Lines # <<>>
    OBVIOUS
  <2> QED BY <1>1, <2>1, <2>2 DEF Numbered, InOrder
<1>6. Good(Lines'[m]) => Lines'[m] = line /\ m = n + 1 /\ Good(line)
  BY <1>2
<1> HIDE DEF m, n
<1>7. \A i \in 1..m : i \in 1..m - 1 \/ i = m
  BY <1>1
<1>8. ASSUME NEW i \in 1..m, Good(Lines'[i]) PROVE Lines'[i].entry.n <= written'
  BY <1>3, <1>4, <1>5, <1>6, <1>7, <1>8
<1>9. ASSUME NEW i \in 1..m, NEW k \in 1..m, i < k, Good(Lines'[i]), Good(Lines'[k])
      PROVE  Lines'[i].entry.n < Lines'[k].entry.n
  <2>1. i \in 1..m - 1
    BY <1>1, <1>9
  <2>2. CASE k \in 1..m - 1
    <3>1. i < k /\ i \in 1..n /\ k \in 1..n
      BY <1>3, <1>9, <2>1, <2>2
    <3> QED BY <1>3, <1>5, <1>9, <2>1, <2>2, <3>1
  <2>3. CASE k = m
    <3>1. Lines'[i].entry.n <= written /\ Lines'[i].entry.n \in Nat
      BY <1>3, <1>5, <1>9, <2>1
    <3>2. Lines'[k].entry.n = written + 1
      BY <1>4, <1>6, <1>9, <2>3
    <3> QED BY <1>4, <3>1, <3>2
  <2> QED BY <1>7, <2>2, <2>3
<1>10. ASSUME NEW i \in 1..(m - 1), Good(Lines'[i]), Good(Lines'[i + 1])
       PROVE  Lines'[i + 1].entry.n = Lines'[i].entry.n + 1
  <2>1. Lines'[i] = Lines[i] /\ i \in 1..n
    BY <1>3, <1>10
  <2>2. CASE i + 1 \in 1..m - 1
    <3>1. Lines'[i + 1] = Lines[i + 1] /\ i + 1 \in 1..n
      <4>1. (i + 1) = i + 1
        OBVIOUS
      <4> QED BY <1>3, <2>2, <4>1
    <3>2. i \in 1..n - 1
      BY <1>1, <2>1, <3>1
    <3> QED BY <1>5, <1>10, <2>1, <3>1, <3>2
  <2>3. CASE i + 1 = m
    <3>1. Good(Lines'[m])
      BY <1>10, <2>3
    <3>2. Lines'[m].entry.n = written + 1 /\ i = n /\ n > 0
      BY <1>1, <1>4, <1>6, <2>1, <2>3, <3>1
    <3> QED BY <1>5, <1>10, <2>1, <2>3, <3>2
  <2> QED BY <1>1, <2>2, <2>3
<1>11. Good(Lines'[m]) => Lines'[m].entry.n = written'
  BY <1>4, <1>6
<1> QED BY <1>1, <1>8, <1>9, <1>10, <1>11 DEF Numbered, InOrder, m

\* What stands and what was closed after Happened.
LEMMA HappenedFacts ==
  ASSUME NEW e \in Entries, Happened(e)
  PROVE  /\ \A id \in DOMAIN lowered' : id # e.pid =>
              id \in DOMAIN lowered /\ lowered'[id] = lowered[id]
         /\ \A id \in DOMAIN lowered : id # e.pid =>
              id \in DOMAIN lowered' /\ lowered'[id] = lowered[id]
         /\ e.action = "downgrade" =>
              e.pid \notin DOMAIN lowered /\ e.pid \in DOMAIN lowered' /\ lowered'[e.pid] = e
         /\ Closes(e) => e.pid \notin DOMAIN lowered'
         /\ e.action = "game_mode_boost" => lowered' = lowered
         /\ e.action = "downgrade" \/ Closes(e) \/ e.action = "game_mode_boost"
<1>0. e \in Entry /\ (e.action = "downgrade" => e.pid \notin DOMAIN lowered)
  BY DEF Entries
<1>1. e.action = "downgrade" \/ Closes(e) \/ e.action = "game_mode_boost"
  BY <1>0 DEF Entry, Closes
<1>2. CASE e.action = "downgrade"
  <2>1. lowered' = With(lowered, e) /\ ~Closes(e)
    BY <1>2 DEF Happened, Closes
  <2> QED BY <1>0, <1>2, <2>1 DEF With
<1>3. CASE Closes(e)
  <2>1. /\ e.action \notin {"downgrade", "game_mode_boost"}
        /\ lowered' = Without(lowered, e.pid)
    BY <1>3 DEF Happened, Closes
  <2> QED BY <1>3, <2>1 DEF Without
<1>4. CASE e.action = "game_mode_boost"
  <2>1. lowered' = lowered /\ ~Closes(e)
    BY <1>4 DEF Happened, Closes
  <2> QED BY <1>4, <2>1
<1> QED BY <1>1, <1>2, <1>3, <1>4

LEMMA LoweredIsLastNext ==
  ASSUME LogTypes, LogTypes', Numbered, LoweredIsLast, NEW line \in Line,
         Goes(line), Extended(line)
  PROVE  LoweredIsLast'
<1> DEFINE m == Len(Lines')
           n == Len(Lines)
           e == line.entry
<1>1. /\ m \in Nat \ {0} /\ n \in Nat /\ DOMAIN Lines = 1..n /\ DOMAIN Lines' = 1..m
  BY LinesTypes, LinesTypesNext DEF Extended
<1>2. Good(Lines'[m]) => Lines'[m] = line /\ Good(line)
  BY DEF Extended
<1>3. \A i \in 1..m - 1 : i \in 1..n /\ Lines'[i] = Lines[i]
  BY KeptLine
<1>4. /\ written \in Nat /\ written' \in Nat /\ written' >= written
      /\ Good(line) => /\ e.n = written + 1 /\ written' = written + 1
                       /\ e \in Entries /\ Happened(e)
      /\ ~Good(line) => lowered' = lowered
  BY GoesFacts, LogAssumption
<1>5. \A i \in 1..n : Good(Lines[i]) => Lines[i].entry.n <= written /\ Lines[i].entry.n \in Nat
  <2>1. \A i \in 1..n : Good(Lines[i]) => Lines[i].entry.n \in 1..MaxEntries
    BY LinesTypes, LineFacts
  <2> QED BY <1>1, <2>1 DEF Numbered
<1>6. \A id \in DOMAIN lowered :
        /\ lowered[id].pid = id /\ lowered[id].action = "downgrade"
        /\ lowered[id].n <= written /\ lowered[id].n \in Nat
        /\ \A i \in 1..n : Good(Lines[i]) =>
             /\ Lines[i].entry.n = lowered[id].n => Lines[i].entry = lowered[id]
             /\ Lines[i].entry.pid = id /\ Lines[i].entry.action # "game_mode_boost" =>
                  Lines[i].entry.n <= lowered[id].n
  <2>1. \A id \in DOMAIN lowered : lowered[id].n \in 1..MaxEntries
    BY DEF LogTypes, Entry
  <2> QED BY <1>1, <2>1 DEF LoweredIsLast
<1> HIDE DEF m, n, e
<1>7. \A i \in 1..m : i \in 1..m - 1 \/ i = m
  BY <1>1
<1>8. ASSUME NEW id \in DOMAIN lowered', id \in DOMAIN lowered, lowered'[id] = lowered[id],
             Good(line) => e.pid # id \/ e.action = "game_mode_boost"
      PROVE  /\ lowered'[id].pid = id /\ lowered'[id].action = "downgrade"
             /\ lowered'[id].n <= written'
             /\ \A i \in 1..m : Good(Lines'[i]) =>
                  /\ Lines'[i].entry.n = lowered'[id].n => Lines'[i].entry = lowered'[id]
                  /\ Lines'[i].entry.pid = id /\ Lines'[i].entry.action # "game_mode_boost" =>
                       Lines'[i].entry.n <= lowered'[id].n
  <2>1. lowered[id].n <= written'
    BY <1>4, <1>6, <1>8
  <2>2. ASSUME NEW i \in 1..m, Good(Lines'[i])
        PROVE  /\ Lines'[i].entry.n = lowered[id].n => Lines'[i].entry = lowered[id]
               /\ Lines'[i].entry.pid = id /\ Lines'[i].entry.action # "game_mode_boost" =>
                    Lines'[i].entry.n <= lowered[id].n
    <3>1. CASE i \in 1..m - 1
      BY <1>3, <1>6, <1>8, <2>2, <3>1
    <3>2. CASE i = m
      <4>1. Lines'[i].entry = e /\ e.n = written + 1 /\ Good(line)
        BY <1>2, <1>4, <2>2, <3>2 DEF e
      <4>2. e.n # lowered[id].n
        BY <1>4, <1>6, <1>8, <4>1
      <4> QED BY <1>8, <4>1, <4>2
    <3> QED BY <1>7, <3>1, <3>2
  <2> QED BY <1>6, <1>8, <2>1, <2>2
<1>9. ASSUME Good(line), e.action = "downgrade"
      PROVE  /\ lowered'[e.pid].pid = e.pid /\ lowered'[e.pid].action = "downgrade"
             /\ lowered'[e.pid].n <= written'
             /\ \A i \in 1..m : Good(Lines'[i]) =>
                  /\ Lines'[i].entry.n = lowered'[e.pid].n => Lines'[i].entry = lowered'[e.pid]
                  /\ Lines'[i].entry.pid = e.pid /\ Lines'[i].entry.action # "game_mode_boost" =>
                       Lines'[i].entry.n <= lowered'[e.pid].n
  <2>1. lowered'[e.pid] = e /\ e.n = written + 1 /\ written' = written + 1
    BY <1>4, <1>9, HappenedFacts
  <2>2. ASSUME NEW i \in 1..m, Good(Lines'[i])
        PROVE  (Lines'[i].entry.n = e.n => Lines'[i].entry = e) /\ Lines'[i].entry.n <= e.n
    <3>1. CASE i \in 1..m - 1
      <4>1. Lines'[i].entry.n <= written /\ Lines'[i].entry.n \in Nat
        BY <1>3, <1>5, <2>2, <3>1
      <4> QED BY <1>4, <2>1, <4>1
    <3>2. CASE i = m
      <4>1. Lines'[i].entry = e
        BY <1>2, <2>2, <3>2 DEF e
      <4> QED BY <1>4, <2>1, <4>1
    <3> QED BY <1>7, <3>1, <3>2
  <2> QED BY <1>4, <1>9, <2>1, <2>2
<1>10. ASSUME NEW id \in DOMAIN lowered'
       PROVE  \/ /\ id \in DOMAIN lowered /\ lowered'[id] = lowered[id]
                 /\ Good(line) => e.pid # id \/ e.action = "game_mode_boost"
              \/ Good(line) /\ e.action = "downgrade" /\ id = e.pid
  BY <1>4, <1>10, HappenedFacts
<1> QED BY <1>1, <1>8, <1>9, <1>10 DEF LoweredIsLast, m

LEMMA DowngradesToldNext ==
  ASSUME LogTypes, LogTypes', DowngradesTold, NEW line \in Line,
         Goes(line), Extended(line)
  PROVE  DowngradesTold'
<1> DEFINE m == Len(Lines')
           n == Len(Lines)
           e == line.entry
<1>1. /\ m \in Nat \ {0} /\ n \in Nat /\ DOMAIN Lines = 1..n /\ DOMAIN Lines' = 1..m
  BY LinesTypes, LinesTypesNext DEF Extended
<1>2. /\ Good(Lines'[m]) => Lines'[m] = line /\ Good(line)
      /\ \/ Lines'[m] = line /\ m = n + 1
         \/ ~Good(Lines'[m]) /\ m = n
  BY DEF Extended
<1>3. \A i \in 1..m - 1 : i \in 1..n /\ Lines'[i] = Lines[i]
  BY KeptLine
<1>4. /\ Good(line) => e \in Entries /\ Happened(e)
      /\ ~Good(line) => lowered' = lowered
  BY GoesFacts
<1> HIDE DEF m, n, e
<1> SUFFICES ASSUME NEW i \in 1..m, Good(Lines'[i]), Lines'[i].entry.action = "downgrade"
             PROVE  \/ /\ Lines'[i].entry.pid \in DOMAIN lowered'
                       /\ lowered'[Lines'[i].entry.pid] = Lines'[i].entry
                    \/ \E k \in 1..m :
                         /\ k > i
                         /\ Good(Lines'[k]) => /\ Closes(Lines'[k].entry)
                                               /\ Lines'[k].entry.pid = Lines'[i].entry.pid
  BY <1>1 DEF DowngradesTold, Closed
<1>5. CASE i = m
  <2>1. Lines'[i].entry = e /\ Good(line)
    BY <1>2, <1>5 DEF e
  <2> QED BY <1>4, <2>1, HappenedFacts
<1>6. CASE i \in 1..m - 1
  <2> DEFINE a == Lines[i].entry
  <2>1. i \in 1..n /\ Lines'[i] = Lines[i] /\ Lines'[i].entry = a /\ m > i /\ m \in 1..m
    BY <1>1, <1>3, <1>6
  <2> HIDE DEF a
  <2>2. CASE a.pid \in DOMAIN lowered /\ lowered[a.pid] = a
    <3>1. CASE ~Good(line)
      BY <1>4, <2>1, <2>2, <3>1
    <3>2. CASE Good(line) /\ Closes(e) /\ e.pid = a.pid
      <4>1. Good(Lines'[m]) => Closes(Lines'[m].entry) /\ Lines'[m].entry.pid = a.pid
        BY <1>2, <3>2 DEF e
      <4> QED BY <2>1, <4>1
    <3>3. CASE Good(line) /\ ~(Closes(e) /\ e.pid = a.pid)
      <4>1. e.pid = a.pid => e.action = "game_mode_boost"
        BY <1>4, <2>2, <3>3, HappenedFacts
      <4>2. a.pid \in DOMAIN lowered' /\ lowered'[a.pid] = a
        BY <1>4, <2>2, <3>3, <4>1, HappenedFacts
      <4> QED BY <2>1, <4>2
    <3> QED BY <3>1, <3>2, <3>3
  <2>3. CASE Closed(i)
    <3>1. PICK k \in 1..n :
            /\ k > i
            /\ Good(Lines[k]) => Closes(Lines[k].entry) /\ Lines[k].entry.pid = a.pid
      BY <1>1, <2>3 DEF Closed, a
    <3>2. CASE k \in 1..m - 1
      <4>1. k \in 1..m /\ Lines'[k] = Lines[k]
        BY <1>1, <1>3, <3>2
      <4> QED BY <2>1, <3>1, <4>1
    <3>3. CASE k \notin 1..m - 1
      <4>1. m = n
        BY <1>1, <1>2, <1>6, <3>1, <3>3
      <4>2. ~Good(Lines'[m])
        BY <1>1, <1>2, <4>1
      <4> QED BY <2>1, <4>2
    <3> QED BY <3>2, <3>3
  <2> QED BY <1>1, <2>1, <2>2, <2>3 DEF DowngradesTold, a
<1> QED BY <1>1, <1>5, <1>6

LEMMA GenerationsNext ==
  ASSUME LogTypes, Generations, NEW line \in Line, Goes(line), Write(line)
  PROVE  Generations'
<1>1. /\ current' # <<>> /\ old' = old
      /\ Good(current'[1]) /\ current = <<>> => current'[1] = line
      /\ Good(current'[1]) /\ current # <<>> => current'[1] = current[1]
  BY WriteEffect
<1>2. ASSUME old = <<>>, Good(current'[1]) PROVE current'[1].entry.n = 1
  <2>1. CASE current = <<>>
    <3>1. written = 0 /\ current'[1] = line
      BY <1>1, <1>2, <2>1 DEF Generations
    <3> QED BY <1>2, <3>1, GoesFacts
  <2>2. CASE current # <<>>
    <3>1. current'[1] = current[1]
      BY <1>1, <1>2, <2>2
    <3>2. Good(current[1])
      BY <1>2, <3>1
    <3> QED BY <1>2, <2>2, <3>1, <3>2 DEF Generations
  <2> QED BY <2>1, <2>2
<1> QED BY <1>1, <1>2 DEF Generations

LEMMA ReadingNext ==
  ASSUME LogTypes, Reading, NEW line \in Line, Goes(line), Write(line), UNCHANGED reader
  PROVE  Reading'
<1>1. /\ written \in Nat /\ written' \in Nat /\ written' >= written
      /\ Good(line) => line.entry.n = written + 1
  BY GoesFacts, LogAssumption
<1>2. reader.since \in Nat /\ \A i \in DOMAIN reader.got : reader.got[i].n \in Nat
  <2>1. reader.got \in Seq(Entry) /\ reader.since \in Nat
    BY DEF LogTypes, Reader
  <2>2. \A i \in DOMAIN reader.got : reader.got[i].n \in 1..MaxEntries
    <3>1. \A i \in DOMAIN reader.got : reader.got[i] \in Entry
      BY <2>1
    <3> QED BY <3>1 DEF Entry
  <2> QED BY <2>1, <2>2
<1>3. \A k \in DOMAIN current' : Good(current'[k]) =>
        current'[k] = line \/ \E j \in DOMAIN current : current'[k] = current[j]
  BY WriteEffect
<1>4. ASSUME reader.at = "between" PROVE Precede(reader.got, current')
  <2> SUFFICES ASSUME NEW i \in DOMAIN reader.got, NEW k \in DOMAIN current', Good(current'[k])
               PROVE  reader.got[i].n < current'[k].entry.n
    BY DEF Precede
  <2>1. reader.got[i].n <= written /\ reader.got[i].n \in Nat
    BY <1>2 DEF Reading
  <2>2. CASE current'[k] = line
    <3>1. current'[k].entry.n = written + 1
      BY <1>1, <2>2
    <3> QED BY <1>1, <2>1, <3>1
  <2>3. CASE \E j \in DOMAIN current : current'[k] = current[j]
    <3>1. PICK j \in DOMAIN current : current'[k] = current[j]
      BY <2>3
    <3>2. Good(current[j])
      BY <3>1
    <3> QED BY <1>4, <3>1, <3>2 DEF Reading, Precede
  <2> QED BY <1>3, <2>2, <2>3
<1>5. reader.since <= written'
  BY <1>1, <1>2 DEF Reading
<1>6. \A i \in DOMAIN reader.got : reader.got[i].n <= written'
  BY <1>1, <1>2 DEF Reading
<1> QED BY <1>4, <1>5, <1>6 DEF Reading

LEMMA AppendNext ==
  ASSUME LogInv, NEW line \in Line, Goes(line), Write(line), UNCHANGED reader
  PROVE  LogInv'
<1>0. LogTypes /\ Numbered /\ Generations /\ LoweredIsLast /\ DowngradesTold /\ Reading
  BY DEF LogInv
<1>1. /\ old' = old /\ current' \in Seq(Line)
      /\ "rename" \notin Faults => Len(current') <= RotateLines + 1
  BY <1>0, WriteEffect
<1>2. Extended(line)
  BY <1>0, WriteEffect
<1>3. \A id \in DOMAIN lowered' : lowered'[id] \in Entry
  <2>1. CASE ~Good(line)
    <3>1. lowered' = lowered
      BY <1>0, <2>1, GoesFacts
    <3> QED BY <1>0, <3>1 DEF LogTypes
  <2>2. CASE Good(line)
    <3>1. line.entry \in Entry /\ line.entry \in Entries /\ Happened(line.entry)
      BY <1>0, <2>2, GoesFacts
    <3>2. \A id \in DOMAIN lowered : lowered[id] \in Entry
      BY <1>0 DEF LogTypes
    <3>3. ASSUME NEW id \in DOMAIN lowered' PROVE lowered'[id] \in Entry
      <4>1. CASE id # line.entry.pid
        BY <3>1, <3>2, <4>1, HappenedFacts
      <4>2. CASE id = line.entry.pid
        <5>1. ~Closes(line.entry)
          BY <3>1, <4>2, HappenedFacts
        <5>2. lowered'[id] = line.entry \/ lowered' = lowered
          BY <3>1, <4>2, <5>1, HappenedFacts
        <5> QED BY <3>1, <3>2, <5>2
      <4> QED BY <4>1, <4>2
    <3> QED BY <3>3
  <2> QED BY <2>1, <2>2
<1>4. written' \in 0..MaxEntries
  BY <1>0, GoesFacts
<1>5. LogTypes'
  BY <1>0, <1>1, <1>3, <1>4 DEF LogTypes
<1>6. Numbered'
  BY <1>0, <1>2, <1>5, NumberedNext
<1>7. LoweredIsLast'
  BY <1>0, <1>2, <1>5, LoweredIsLastNext
<1>8. DowngradesTold'
  BY <1>0, <1>2, <1>5, DowngradesToldNext
<1>9. Generations' /\ Reading'
  BY <1>0, GenerationsNext, ReadingNext
<1> QED BY <1>5, <1>6, <1>7, <1>8, <1>9 DEF LogInv

\* A rotation: the older generation goes, and the current file is the older one.
LEMMA RotateNext == LogInv /\ Rotate => LogInv'
<1> SUFFICES ASSUME LogInv, Rotate PROVE LogInv'
  OBVIOUS
<1>0. LogTypes /\ Numbered /\ Generations /\ LoweredIsLast /\ DowngradesTold /\ Reading
  BY DEF LogInv
<1>1. /\ Len(current) > RotateLines /\ old' = current /\ current' = <<>>
      /\ written' = written /\ lowered' = lowered /\ reader' = reader
  BY DEF Rotate
<1>2. old \in Seq(Line) /\ current \in Seq(Line) /\ RotateLines \in Nat
  BY <1>0, LogAssumption DEF LogTypes
<1> DEFINE d == Len(old)
           m == Len(current)
           n == Len(Lines)
<1>3. /\ Lines' = current /\ d \in Nat /\ m \in Nat /\ m > 0 /\ n = d + m
      /\ DOMAIN Lines' = 1..m /\ DOMAIN Lines = 1..n /\ Len(Lines') = m
      /\ \A k \in 1..m : d + k \in 1..n /\ Lines'[k] = Lines[d + k]
  <2>1. Lines' = current
    BY <1>1, <1>2 DEF Lines
  <2> QED BY <1>1, <1>2, <2>1, Joined DEF Lines
<1> HIDE DEF d, m, n
<1>4. LogTypes'
  <2>1. Len(current') = 0 /\ current' \in Seq(Line)
    BY <1>1
  <2> QED BY <1>0, <1>1, <1>2, <2>1 DEF LogTypes
<1>5. Numbered'
  <2>1. \A i \in 1..m : Good(Lines'[i]) => Lines'[i].entry.n <= written
    BY <1>0, <1>3 DEF Numbered
  <2>2. InOrder(Lines')
    <3> SUFFICES ASSUME NEW i \in 1..m, NEW k \in 1..m, i < k,
                        Good(Lines'[i]), Good(Lines'[k])
                 PROVE  Lines'[i].entry.n < Lines'[k].entry.n
      BY <1>3 DEF InOrder
    <3>1. d + i < d + k /\ d + i \in DOMAIN Lines /\ d + k \in DOMAIN Lines
      BY <1>3
    <3>2. Lines'[i] = Lines[d + i] /\ Lines'[k] = Lines[d + k]
      BY <1>3
    <3>3. InOrder(Lines)
      BY <1>0 DEF Numbered
    <3>4. Lines[d + i].entry.n < Lines[d + k].entry.n
      BY <3>1, <3>2, <3>3 DEF InOrder
    <3> QED BY <3>2, <3>4
  <2>3. ASSUME NEW i \in 1..(m - 1), Good(Lines'[i]), Good(Lines'[i + 1])
        PROVE  Lines'[i + 1].entry.n = Lines'[i].entry.n + 1
    <3>1. i \in 1..m /\ i + 1 \in 1..m /\ d + (i + 1) = (d + i) + 1 /\ d + i \in 1..(n - 1)
      BY <1>3
    <3>2. Lines'[i] = Lines[d + i] /\ Lines'[i + 1] = Lines[(d + i) + 1]
      BY <1>3, <3>1
    <3> QED BY <1>0, <2>3, <3>1, <3>2 DEF Numbered, n
  <2>4. Good(Lines'[m]) => Lines'[m].entry.n = written
    <3>1. m \in 1..m /\ Lines'[m] = Lines[n] /\ Lines # <<>>
      BY <1>3
    <3> QED BY <1>0, <3>1 DEF Numbered, n
  <2> QED BY <1>1, <1>3, <2>1, <2>2, <2>3, <2>4 DEF Numbered
<1>6. Generations'
  <2>1. old' # <<>>
    BY <1>1, <1>3
  <2> QED BY <1>1, <2>1 DEF Generations
<1>7. LoweredIsLast'
  BY <1>0, <1>1, <1>3 DEF LoweredIsLast
<1>8. DowngradesTold'
  <2> SUFFICES ASSUME NEW i \in 1..m, Good(Lines'[i]),
                      Lines'[i].entry.action = "downgrade"
               PROVE  \/ /\ Lines'[i].entry.pid \in DOMAIN lowered'
                         /\ lowered'[Lines'[i].entry.pid] = Lines'[i].entry
                      \/ \E k \in 1..m :
                           /\ k > i
                           /\ Good(Lines'[k]) => /\ Closes(Lines'[k].entry)
                                                 /\ Lines'[k].entry.pid = Lines'[i].entry.pid
    BY <1>3 DEF DowngradesTold, Closed
  <2> DEFINE a == Lines[d + i].entry
  <2>0. Lines'[i].entry = a /\ d + i \in DOMAIN Lines
        /\ Good(Lines[d + i]) /\ a.action = "downgrade"
    BY <1>3
  <2> HIDE DEF a
  <2> SUFFICES ASSUME ~(a.pid \in DOMAIN lowered /\ lowered[a.pid] = a)
               PROVE  \E k \in 1..m :
                        /\ k > i
                        /\ Good(Lines'[k]) => /\ Closes(Lines'[k].entry)
                                              /\ Lines'[k].entry.pid = a.pid
    BY <1>1, <2>0
  <2>1. Closed(d + i)
    BY <1>0, <2>0 DEF DowngradesTold, a
  <2>2. PICK k \in 1..n :
          /\ k > d + i
          /\ Good(Lines[k]) => /\ Closes(Lines[k].entry)
                               /\ Lines[k].entry.pid = a.pid
    BY <1>3, <2>1 DEF Closed, a
  <2>3. k - d \in 1..m /\ k - d > i /\ d + (k - d) = k
    BY <1>3, <2>2
  <2>4. Lines'[k - d] = Lines[k]
    BY <1>3, <2>3
  <2> QED BY <1>3, <2>2, <2>3, <2>4
<1>9. Reading'
  <2>1. Precede(reader.got, <<>>)
    BY DEF Precede
  <2> QED BY <1>0, <1>1, <2>1 DEF Reading
<1> QED BY <1>4, <1>5, <1>6, <1>7, <1>8, <1>9 DEF LogInv

-----------------------------------------------------------------------------
(* The GUI reads *)

\* The lines of each file are in order, and those of the older one come first.
LEMMA FilesInOrder ==
  ASSUME LogTypes, Numbered
  PROVE  /\ InOrder(old) /\ InOrder(current)
         /\ \A i \in DOMAIN old, k \in DOMAIN current :
              Good(old[i]) /\ Good(current[k]) => old[i].entry.n < current[k].entry.n
         /\ \A i \in DOMAIN old : Good(old[i]) => old[i].entry.n <= written
         /\ \A k \in DOMAIN current : Good(current[k]) => current[k].entry.n <= written
<1>1. old \in Seq(Line) /\ current \in Seq(Line) /\ Lines = old \o current
  BY DEF LogTypes, Lines
<1>2. /\ Len(old) \in Nat /\ Len(current) \in Nat
      /\ DOMAIN old = 1..Len(old) /\ DOMAIN current = 1..Len(current)
      /\ DOMAIN Lines = 1..(Len(old) + Len(current))
      /\ \A i \in DOMAIN old : i \in DOMAIN Lines /\ Lines[i] = old[i]
      /\ \A k \in DOMAIN current :
           Len(old) + k \in DOMAIN Lines /\ Lines[Len(old) + k] = current[k]
  <2>1. /\ Len(old) \in Nat /\ Len(current) \in Nat
        /\ DOMAIN old = 1..Len(old) /\ DOMAIN current = 1..Len(current)
    BY <1>1
  <2> QED BY <1>1, <2>1, Joined
<1>3. /\ \A i \in DOMAIN Lines : Good(Lines[i]) => Lines[i].entry.n <= written
      /\ \A i, k \in DOMAIN Lines :
           i < k /\ Good(Lines[i]) /\ Good(Lines[k]) => Lines[i].entry.n < Lines[k].entry.n
  BY DEF Numbered, InOrder
<1>4. InOrder(old)
  BY <1>2, <1>3 DEF InOrder
<1>5. InOrder(current)
  <2> SUFFICES ASSUME NEW i \in DOMAIN current, NEW k \in DOMAIN current, i < k,
                      Good(current[i]), Good(current[k])
               PROVE  current[i].entry.n < current[k].entry.n
    BY DEF InOrder
  <2>1. Len(old) + i < Len(old) + k
    BY <1>2
  <2> QED BY <1>2, <1>3, <2>1
<1>6. ASSUME NEW i \in DOMAIN old, NEW k \in DOMAIN current, Good(old[i]), Good(current[k])
      PROVE  old[i].entry.n < current[k].entry.n
  <2>1. i < Len(old) + k
    BY <1>2
  <2> QED BY <1>2, <1>3, <1>6, <2>1
<1> QED BY <1>2, <1>3, <1>4, <1>5, <1>6

LEMMA SameFiles ==
  ASSUME Numbered, Generations, LoweredIsLast, DowngradesTold,
         UNCHANGED <<old, current, written, lowered>>
  PROVE  Numbered' /\ Generations' /\ LoweredIsLast' /\ DowngradesTold'
<1>1. /\ old' = old /\ current' = current /\ written' = written /\ lowered' = lowered
      /\ Lines' = Lines
  BY DEF Lines
<1>2. Numbered'
  BY <1>1 DEF Numbered
<1>3. Generations'
  BY <1>1 DEF Generations
<1>4. LoweredIsLast'
  BY <1>1 DEF LoweredIsLast
<1>5. DowngradesTold'
  BY <1>1 DEF DowngradesTold, Closed
<1> QED BY <1>2, <1>3, <1>4, <1>5

LEMMA ReadOldNext == LogInv /\ ReadOld => LogInv'
<1> SUFFICES ASSUME LogInv, ReadOld PROVE LogInv'
  OBVIOUS
<1>0. LogTypes /\ Numbered /\ Generations /\ LoweredIsLast /\ DowngradesTold /\ Reading
  BY DEF LogInv
<1> DEFINE all == Read(<<>>, old)
           got == Trim(all, Limit)
<1>1. /\ reader' = [at |-> "between", got |-> got, since |-> written]
      /\ UNCHANGED <<old, current, written, lowered>>
  BY DEF ReadOld
<1>2. /\ old \in Seq(Line) /\ <<>> \in Seq(Entry) /\ DOMAIN <<>> = {}
      /\ Limit \in Nat /\ written \in Nat /\ written \in 0..MaxEntries
      /\ DOMAIN old = 1..Len(old)
  BY <1>0, LogAssumption DEF LogTypes
<1>3. EntriesInOrder(<<>>) /\ Precede(<<>>, old) /\ InOrder(old)
  BY <1>0, <1>2, FilesInOrder DEF EntriesInOrder, Precede
<1>4. all \in Seq(Entry) /\ ComesFrom(all, <<>>, old, Len(old)) /\ EntriesInOrder(all)
  BY <1>2, <1>3, ReadFacts
<1>5. \A i \in DOMAIN all : \E k \in DOMAIN old : Good(old[k]) /\ all[i] = old[k].entry
  BY <1>2, <1>4 DEF ComesFrom
<1> HIDE DEF all
<1>6. /\ got \in Seq(Entry) /\ Len(got) <= Limit /\ EntriesInOrder(got)
      /\ \A i \in DOMAIN got : \E k \in DOMAIN all : got[i] = all[k]
  BY <1>2, <1>4, TrimFacts
<1> HIDE DEF got
<1>7. \A i \in DOMAIN got : \E k \in DOMAIN old : Good(old[k]) /\ got[i] = old[k].entry
  BY <1>5, <1>6
<1>8. \A i \in DOMAIN got : got[i].n <= written
  BY <1>0, <1>7, FilesInOrder
<1>9. Precede(got, current)
  BY <1>0, <1>7, FilesInOrder DEF Precede
<1>10. reader'.at = "between" /\ reader'.got = got /\ reader'.since = written
  BY <1>1
<1>11. LogTypes'
  <2>1. reader' \in Reader
    BY <1>1, <1>2, <1>6 DEF Reader
  <2> QED BY <1>0, <1>1, <1>6, <1>10, <2>1 DEF LogTypes
<1>12. Reading'
  BY <1>1, <1>2, <1>6, <1>8, <1>9, <1>10 DEF Reading
<1>13. Numbered' /\ Generations' /\ LoweredIsLast' /\ DowngradesTold'
  BY <1>0, <1>1, SameFiles
<1> QED BY <1>11, <1>12, <1>13 DEF LogInv

\* What the second read gives before it is trimmed.
LEMMA SecondRead ==
  ASSUME LogInv, reader.at = "between"
  PROVE  /\ Read(reader.got, current) \in Seq(Entry)
         /\ EntriesInOrder(Read(reader.got, current))
         /\ \A i \in DOMAIN Read(reader.got, current) :
              Read(reader.got, current)[i].n <= written
         /\ Readable(current) /\ current # <<>> /\ Good(current[Len(current)]) =>
              /\ Read(reader.got, current) # <<>>
              /\ Read(reader.got, current)[Len(Read(reader.got, current))]
                   = current[Len(current)].entry
<1> DEFINE all == Read(reader.got, current)
<1>0. LogTypes /\ Numbered /\ Reading
  BY DEF LogInv
<1>1. reader.got \in Seq(Entry) /\ current \in Seq(Line) /\ DOMAIN current = 1..Len(current)
  BY <1>0 DEF LogTypes, Reader
<1>2. EntriesInOrder(reader.got) /\ Precede(reader.got, current) /\ InOrder(current)
  BY <1>0, FilesInOrder DEF Reading
<1>3. /\ all \in Seq(Entry) /\ ComesFrom(all, reader.got, current, Len(current))
      /\ EntriesInOrder(all)
      /\ Readable(current) /\ current # <<>> /\ Good(current[Len(current)]) =>
           all # <<>> /\ all[Len(all)] = current[Len(current)].entry
  BY <1>1, <1>2, ReadFacts
<1> HIDE DEF all
<1>4. \A i \in DOMAIN all : all[i].n <= written
  BY <1>0, <1>1, <1>3, FilesInOrder DEF ComesFrom, Reading
<1> QED BY <1>3, <1>4 DEF all

LEMMA ReadCurrentNext == LogInv /\ ReadCurrent => LogInv'
<1> SUFFICES ASSUME LogInv, ReadCurrent PROVE LogInv'
  OBVIOUS
<1>0. LogTypes /\ Numbered /\ Generations /\ LoweredIsLast /\ DowngradesTold /\ Reading
  BY DEF LogInv
<1> DEFINE all == Read(reader.got, current)
           got == Trim(all, Limit)
<1>1. /\ reader.at = "between"
      /\ reader' = [reader EXCEPT !.at = "done", !.got = got]
      /\ UNCHANGED <<old, current, written, lowered>>
  BY DEF ReadCurrent
<1>2. /\ all \in Seq(Entry) /\ EntriesInOrder(all)
      /\ \A i \in DOMAIN all : all[i].n <= written
  BY <1>1, SecondRead
<1> HIDE DEF all
<1>3. /\ got \in Seq(Entry) /\ Len(got) <= Limit /\ EntriesInOrder(got)
      /\ \A i \in DOMAIN got : \E k \in DOMAIN all : got[i] = all[k]
  BY <1>2, LogAssumption, TrimFacts
<1> HIDE DEF got
<1>4. \A i \in DOMAIN got : got[i].n <= written
  BY <1>2, <1>3
<1>5. reader \in Reader
  BY <1>0 DEF LogTypes
<1>6. /\ reader' \in Reader /\ reader'.at = "done" /\ reader'.got = got
      /\ reader'.since = reader.since
  BY <1>1, <1>3, <1>5 DEF Reader
<1>7. LogTypes'
  BY <1>0, <1>1, <1>3, <1>6 DEF LogTypes
<1>8. Reading'
  BY <1>0, <1>1, <1>3, <1>4, <1>6 DEF Reading
<1>9. Numbered' /\ Generations' /\ LoweredIsLast' /\ DowngradesTold'
  BY <1>0, <1>1, SameFiles
<1> QED BY <1>7, <1>8, <1>9 DEF LogInv

-----------------------------------------------------------------------------
(* Every step *)

LEMMA LogInvInit == Init => LogInv
<1> SUFFICES ASSUME Init PROVE LogInv
  OBVIOUS
<1>1. /\ old = <<>> /\ current = <<>> /\ written = 0 /\ lowered = <<>>
      /\ reader = [at |-> "idle", got |-> <<>>, since |-> 0]
  BY DEF Init
<1>2. /\ <<>> \in Seq(Line) /\ <<>> \in Seq(Entry) /\ Len(<<>>) = 0 /\ DOMAIN <<>> = {}
      /\ <<>> \o <<>> = <<>>
  OBVIOUS
<1>3. /\ reader \in Reader /\ reader.got = <<>> /\ reader.since = 0 /\ reader.at = "idle"
  BY <1>1, <1>2 DEF Reader
<1>4. LogTypes
  BY <1>1, <1>2, <1>3, LogAssumption DEF LogTypes
<1>5. Lines = <<>>
  BY <1>1, <1>2 DEF Lines
<1>6. Numbered
  BY <1>2, <1>5 DEF Numbered, InOrder
<1>7. Generations
  BY <1>1, <1>2 DEF Generations
<1>8. LoweredIsLast /\ DowngradesTold
  BY <1>1, <1>2, <1>5 DEF LoweredIsLast, DowngradesTold
<1>9. Reading
  BY <1>1, <1>2, <1>3 DEF Reading, EntriesInOrder
<1> QED BY <1>4, <1>6, <1>7, <1>8, <1>9 DEF LogInv

\* A line of the steps that append one is a line, and goes with its entry.
LEMMA LogInvNext == LogInv /\ [Next]_logVars => LogInv'
<1> SUFFICES ASSUME LogInv, [Next]_logVars PROVE LogInv'
  OBVIOUS
<1>1. CASE AppendLog
  <2>1. PICK e \in Entries : Write([entry |-> e, ended |-> TRUE]) /\ Happened(e)
    BY <1>1 DEF AppendLog
  <2> DEFINE line == [entry |-> e, ended |-> TRUE]
  <2>2. line \in Line
    BY DEF Line, Entries
  <2>3. Goes(line) /\ UNCHANGED reader
    BY <1>1, <2>1 DEF Goes, AppendLog
  <2> QED BY <2>1, <2>2, <2>3, AppendNext
<1>2. CASE TornAppend
  <2>1. UNCHANGED reader
    BY <1>2 DEF TornAppend
  <2>2. PICK e \in Entries :
          \/ /\ Write([entry |-> e, ended |-> FALSE])
             /\ Happened(e)
             /\ written' = written + 1
          \/ /\ \E part \in {Garbage, Broken} :
                   Write([entry |-> part, ended |-> FALSE])
             /\ UNCHANGED <<lowered, written>>
    BY <1>2 DEF TornAppend
  <2>3. CASE /\ Write([entry |-> e, ended |-> FALSE])
             /\ Happened(e)
             /\ written' = written + 1
    <3> DEFINE line == [entry |-> e, ended |-> FALSE]
    <3>1. line \in Line
      BY DEF Line, Entries
    <3>2. Goes(line)
      BY <2>3 DEF Goes
    <3> QED BY <2>1, <2>3, <3>1, <3>2, AppendNext
  <2>4. CASE /\ \E part \in {Garbage, Broken} :
                   Write([entry |-> part, ended |-> FALSE])
             /\ UNCHANGED <<lowered, written>>
    <3>0. PICK part \in {Garbage, Broken} : Write([entry |-> part, ended |-> FALSE])
      BY <2>4
    <3> DEFINE line == [entry |-> part, ended |-> FALSE]
    <3>1. line \in Line
      BY DEF Line
    <3>2. Goes(line)
      BY <2>4, LogAssumption DEF Goes, Good
    <3> QED BY <2>1, <3>0, <3>1, <3>2, AppendNext
  <2> QED BY <2>2, <2>3, <2>4
<1>3. CASE ReadOld
  BY <1>3, ReadOldNext
<1>4. CASE ReadCurrent
  BY <1>4, ReadCurrentNext
<1>5. CASE Rotate
  BY <1>5, RotateNext
<1>6. CASE UNCHANGED logVars
  <2>1. UNCHANGED <<old, current, written, lowered>> /\ UNCHANGED reader
    BY <1>6 DEF logVars
  <2>2. Numbered' /\ Generations' /\ LoweredIsLast' /\ DowngradesTold'
    BY <2>1, SameFiles DEF LogInv
  <2>3. LogTypes' /\ Reading'
    BY <2>1 DEF LogInv, LogTypes, Reading
  <2> QED BY <2>2, <2>3 DEF LogInv
<1> QED BY <1>1, <1>2, <1>3, <1>4, <1>5, <1>6 DEF Next

\* The inductive invariant holds always.
THEOREM LogInvHolds == Spec => []LogInv
BY LogInvInit, LogInvNext, PTL DEF Spec

-----------------------------------------------------------------------------
(* What a new service and the GUI find *)

LEMMA IntactLines ==
  ASSUME LogTypes, Intact
  PROVE  /\ Retained \in Seq(Entry) /\ Len(Retained) = Len(Lines)
         /\ \A i \in 1..Len(Lines) : Good(Lines[i]) /\ Retained[i] = Lines[i].entry
<1> DEFINE first == Read(<<>>, old)
<1>1. /\ old \in Seq(Line) /\ current \in Seq(Line) /\ Lines = old \o current
      /\ <<>> \in Seq(Entry) /\ Len(<<>>) = 0
  BY DEF LogTypes, Lines
<1>2. /\ Len(old) \in Nat /\ Len(current) \in Nat
      /\ DOMAIN old = 1..Len(old) /\ DOMAIN current = 1..Len(current)
  BY <1>1
<1>3. /\ \A i \in DOMAIN old : Good(old[i])
      /\ \A i \in DOMAIN current : Good(current[i])
  BY DEF Intact, Good
<1>4. /\ first \in Seq(Entry) /\ Len(first) = Len(<<>>) + Len(old)
      /\ \A i \in 1..Len(old) : first[Len(<<>>) + i] = old[i].entry
  BY <1>1, <1>3, ReadFacts
<1>5. /\ Len(first) = Len(old) /\ \A i \in 1..Len(old) : first[i] = old[i].entry
  <2>1. \A i \in 1..Len(old) : 0 + i = i
    OBVIOUS
  <2> QED BY <1>1, <1>2, <1>4, <2>1
<1> HIDE DEF first
<1>6. /\ Retained \in Seq(Entry) /\ Len(Retained) = Len(first) + Len(current)
      /\ \A i \in 1..Len(first) : Retained[i] = first[i]
      /\ \A i \in 1..Len(current) : Retained[Len(first) + i] = current[i].entry
  <2>1. Retained = Read(first, current)
    BY DEF Retained, first
  <2> QED BY <1>1, <1>3, <1>4, <2>1, ReadFacts
<1>7. /\ Len(Lines) = Len(old) + Len(current)
      /\ \A i \in 1..Len(old) : Lines[i] = old[i]
      /\ \A i \in 1..Len(current) : Lines[Len(old) + i] = current[i]
  BY <1>1, Joined
<1>8. ASSUME NEW i \in 1..Len(Lines)
      PROVE  Good(Lines[i]) /\ Retained[i] = Lines[i].entry
  <2>1. CASE i \in 1..Len(old)
    BY <1>2, <1>3, <1>5, <1>6, <1>7, <2>1
  <2>2. CASE i \notin 1..Len(old)
    <3>1. i - Len(old) \in 1..Len(current) /\ Len(old) + (i - Len(old)) = i
      BY <1>2, <1>7, <2>2
    <3>2. Lines[i] = current[i - Len(old)] /\ Retained[i] = current[i - Len(old)].entry
      BY <1>5, <1>6, <1>7, <3>1
    <3> QED BY <1>2, <1>3, <3>1, <3>2
  <2> QED BY <2>1, <2>2
<1> QED BY <1>5, <1>6, <1>7, <1>8

\* Intact files hold the last entries, each once.
LEMMA IntactIsContiguous ==
  ASSUME LogTypes, Numbered, Intact, NEW i \in 1..Len(Lines)
  PROVE  Lines[i].entry.n = written - (Len(Lines) - i)
<1> DEFINE n == Len(Lines)
           S == {j \in Nat : j < n => Lines[n - j].entry.n = written - j}
<1>1. n \in Nat /\ written \in Nat
  BY LinesTypes, LogAssumption DEF LogTypes
<1>2. \A k \in 1..n : Good(Lines[k])
  BY IntactLines
<1>3. 0 \in S
  <2>1. n > 0 => Lines # <<>> /\ n \in 1..n
    BY <1>1
  <2> QED BY <1>1, <1>2, <2>1 DEF Numbered
<1>4. ASSUME NEW j \in Nat, j \in S PROVE j + 1 \in S
  <2> SUFFICES ASSUME j + 1 < n PROVE Lines[n - (j + 1)].entry.n = written - (j + 1)
    OBVIOUS
  <2> DEFINE k == n - (j + 1)
  <2>1. k \in 1..n - 1 /\ k \in 1..n /\ k + 1 \in 1..n /\ k + 1 = n - j /\ j < n
    BY <1>1
  <2>2. Lines[k + 1].entry.n = written - j
    BY <1>4, <2>1
  <2>3. Good(Lines[k]) /\ Good(Lines[k + 1])
    BY <1>2, <2>1
  <2>4. Lines[k + 1].entry.n = Lines[k].entry.n + 1
    BY <2>1, <2>3 DEF Numbered
  <2>5. Lines[k].entry.n \in 1..MaxEntries
    BY <2>1, <2>3, LinesTypes, LineFacts
  <2>6. Lines[k].entry.n \in Nat
    BY <2>5
  <2> HIDE DEF k
  <2>7. Lines[k].entry.n = written - (j + 1)
    BY <1>1, <2>2, <2>4, <2>6
  <2> QED BY <2>7 DEF k
<1> HIDE DEF S
<1>5. Nat \subseteq S
  BY <1>3, <1>4, InductionOnNat
<1>6. n - i \in Nat /\ n - i < n /\ n - (n - i) = i
  BY <1>1
<1>7. n - i \in S
  BY <1>5, <1>6
<1> HIDE DEF n
<1>8. Lines[n - (n - i)].entry.n = written - (n - i)
  BY <1>6, <1>7 DEF S
<1> QED BY <1>6, <1>8 DEF n

LEMMA RetainedFromInv == LogInv => RecentRetained
<1> SUFFICES ASSUME LogInv, Intact, NEW e \in 1..written, e > written - (RotateLines + 1)
             PROVE  \E i \in DOMAIN Retained : Retained[i].n = e
  BY DEF RecentRetained
<1>0. LogTypes /\ Numbered /\ Generations
  BY DEF LogInv
<1> DEFINE n == Len(Lines)
           i == n - (written - e)
<1>1. /\ written \in Nat /\ RotateLines \in Nat /\ n \in Nat
      /\ n = Len(old) + Len(current) /\ Len(old) \in Nat /\ Len(current) \in Nat
      /\ old \in Seq(Line) /\ current \in Seq(Line)
  <2>1. old \in Seq(Line) /\ current \in Seq(Line) /\ written \in Nat
    BY <1>0, LogAssumption DEF LogTypes
  <2> QED BY <1>0, <2>1, LogAssumption, LinesTypes, Joined DEF Lines
<1>2. written > 0
  BY <1>1
<1>3. n >= RotateLines + 1 \/ n = written
  <2>1. CASE old = <<>>
    <3>1. current # <<>>
      BY <1>0, <1>2, <2>1 DEF Generations
    <3>2. Len(old) = 0 /\ n > 0 /\ 1 \in 1..n /\ 1 \in 1..Len(current)
      BY <1>1, <2>1, <3>1
    <3>3. Lines[1] = current[1]
      <4>1. \A k \in 1..Len(current) : Lines[Len(old) + k] = current[k]
        BY <1>1, Joined DEF Lines
      <4>2. 0 + 1 = 1
        OBVIOUS
      <4> QED BY <3>2, <4>1, <4>2
    <3>4. Good(current[1]) /\ current[1].entry.n = written - (n - 1)
      BY <1>0, <3>2, <3>3, IntactLines, IntactIsContiguous
    <3>5. current[1].entry.n = 1
      BY <1>0, <2>1, <3>1, <3>4 DEF Generations
    <3> HIDE DEF n
    <3> QED BY <1>1, <3>4, <3>5
  <2>2. CASE Len(old) > RotateLines
    <3> HIDE DEF n
    <3> QED BY <1>1, <2>2
  <2> QED BY <1>0, <2>1, <2>2 DEF Generations
<1>4. i \in 1..n /\ written - (n - i) = e
  BY <1>1, <1>3
<1> HIDE DEF n, i
<1>5. Lines[i].entry.n = e
  BY <1>0, <1>4, IntactIsContiguous DEF n
<1>6. i \in DOMAIN Retained /\ Retained[i] = Lines[i].entry
  BY <1>0, <1>4, IntactLines DEF n
<1> QED BY <1>5, <1>6

LEMMA OrphansFromInv == LogInv => OrphansExact
<1> SUFFICES ASSUME LogInv, Intact PROVE OrphansExact
  BY DEF OrphansExact
<1>0. LogTypes /\ Numbered /\ LoweredIsLast /\ DowngradesTold
  BY DEF LogInv
<1> DEFINE n == Len(Lines)
           r == Retained
           orphans == PairOrphans(r)
           first == IF r = <<>> THEN written + 1 ELSE r[1].n
<1>1. /\ n \in Nat /\ written \in Nat /\ DOMAIN Lines = 1..n
      /\ r \in Seq(Entry) /\ Len(r) = n /\ (n > 0 <=> r # <<>>)
      /\ \A i \in 1..n : Good(Lines[i]) /\ r[i] = Lines[i].entry
  <2>1. r \in Seq(Entry) /\ Len(r) = n
    BY <1>0, IntactLines
  <2>2. n \in Nat /\ written \in Nat /\ DOMAIN Lines = 1..n
    BY <1>0, LinesTypes, LogAssumption DEF LogTypes
  <2> QED BY <1>0, <2>1, <2>2, IntactLines
<1>2. \A i \in 1..n : r[i].n = written - (n - i)
  BY <1>0, <1>1, IntactIsContiguous
<1>3. /\ \A id \in DOMAIN orphans : \E i \in 1..n :
           Open(r, n, i) /\ r[i].pid = id /\ orphans[id] = r[i]
      /\ \A i \in 1..n : Open(r, n, i) => r[i].pid \in DOMAIN orphans
  BY <1>1, PairFacts
<1>4. first = written - n + 1
  BY <1>1, <1>2
<1> HIDE DEF n, r, orphans, first
<1>5. ASSUME NEW id \in DOMAIN orphans
      PROVE  id \in DOMAIN lowered /\ lowered[id].n >= first /\ orphans[id] = lowered[id]
  <2>1. PICK i \in 1..n : Open(r, n, i) /\ r[i].pid = id /\ orphans[id] = r[i]
    BY <1>3
  <2>2. ~Closed(i)
    <3> SUFFICES ASSUME NEW k \in 1..n, k > i, Closes(r[k]), r[k].pid = r[i].pid PROVE FALSE
      BY <1>1 DEF Closed
    <3>1. k \in i + 1..n
      BY <1>1
    <3>2. r[k].action = "game_mode_boost"
      BY <2>1, <3>1 DEF Open
    <3> QED BY <3>2 DEF Closes
  <2>3. id \in DOMAIN lowered /\ lowered[id] = r[i]
    BY <1>0, <1>1, <2>1, <2>2 DEF DowngradesTold, Open
  <2>4. r[i].n >= first
    BY <1>1, <1>2, <1>4
  <2> QED BY <2>1, <2>3, <2>4
<1>6. ASSUME NEW id \in DOMAIN lowered, lowered[id].n >= first
      PROVE  id \in DOMAIN orphans
  <2>1. /\ lowered[id].n <= written /\ lowered[id].n \in Nat
        /\ lowered[id].pid = id /\ lowered[id].action = "downgrade"
    <3>1. lowered[id].n \in 1..MaxEntries
      BY <1>0 DEF LogTypes, Entry
    <3> QED BY <1>0, <3>1 DEF LoweredIsLast
  <2> DEFINE i == n - (written - lowered[id].n)
  <2>2. i \in 1..n /\ written - (n - i) = lowered[id].n
    BY <1>1, <1>4, <1>6, <2>1
  <2> HIDE DEF i
  <2>3. r[i] = lowered[id]
    <3>1. Lines[i].entry.n = lowered[id].n /\ Good(Lines[i])
      BY <1>1, <1>2, <2>2
    <3> QED BY <1>0, <1>1, <2>2, <3>1 DEF LoweredIsLast
  <2>4. Open(r, n, i)
    <3> SUFFICES ASSUME NEW k \in i + 1..n, r[k].pid = r[i].pid,
                        r[k].action # "game_mode_boost"
                 PROVE  FALSE
      BY <2>1, <2>3 DEF Open
    <3>1. k \in 1..n /\ k > i
      BY <1>1, <2>2
    <3>2. r[k].n <= lowered[id].n
      BY <1>0, <1>1, <2>1, <2>3, <3>1 DEF LoweredIsLast
    <3>3. r[k].n = written - (n - k) /\ r[i].n = written - (n - i)
      BY <1>2, <2>2, <3>1
    <3> QED BY <1>1, <2>2, <2>3, <3>1, <3>2, <3>3
  <2> QED BY <1>3, <2>1, <2>2, <2>3, <2>4
<1>7. DOMAIN orphans = {id \in DOMAIN lowered : lowered[id].n >= first}
  BY <1>5, <1>6
<1> QED BY <1>5, <1>7 DEF OrphansExact, orphans, first, r

\* Only entries and garbage in the files, one older generation within one line
\* of the limit when renames succeed, no more to the GUI than it asked for.
THEOREM LogTypesHold == Spec => []TypeOK
<1>1. LogInv => TypeOK
  <2> SUFFICES ASSUME LogTypes PROVE TypeOK
    BY DEF LogInv
  <2>1. /\ \A i \in DOMAIN old : old[i] \in Line
        /\ \A i \in DOMAIN current : current[i] \in Line
    BY DEF LogTypes
  <2>2. reader.at \in {"idle", "between", "done"} /\ reader.got \in Seq(Entry)
    BY DEF LogTypes, Reader
  <2>3. \A i \in DOMAIN reader.got : reader.got[i] \in Entry
    BY <2>2
  <2> QED BY <2>1, <2>2, <2>3 DEF TypeOK, LogTypes
<1> QED BY <1>1, LogInvHolds, PTL

\* A new service finds in intact files exactly the lowered processes whose
\* downgrade is still there, with the priorities they had, and no other.
THEOREM OrphansAreExact == Spec => []OrphansExact
BY OrphansFromInv, LogInvHolds, PTL

\* No process has been lowered for a full generation of entries.
Young == \A id \in DOMAIN lowered : lowered[id].n > written - (RotateLines + 1)

\* What a new service finds is what is lowered, no more and no less, while the
\* files are intact and no downgrade is a generation old: ProBalanceRuntime may
\* then leave out the files and keep what pair_orphans makes of them.
THEOREM YoungLogIsExact ==
  Spec => [](Intact /\ Young =>
               /\ DOMAIN PairOrphans(Retained) = DOMAIN lowered
               /\ \A id \in DOMAIN lowered : PairOrphans(Retained)[id] = lowered[id])
<1>1. ASSUME LogInv, Intact, Young
      PROVE  /\ DOMAIN PairOrphans(Retained) = DOMAIN lowered
             /\ \A id \in DOMAIN lowered : PairOrphans(Retained)[id] = lowered[id]
  <2> DEFINE first == IF Retained = <<>> THEN written + 1 ELSE Retained[1].n
             orphans == PairOrphans(Retained)
  <2>1. /\ DOMAIN orphans = {id \in DOMAIN lowered : lowered[id].n >= first}
        /\ \A id \in DOMAIN orphans : orphans[id] = lowered[id]
    BY <1>1, OrphansFromInv DEF OrphansExact
  <2> HIDE DEF orphans
  <2>2. ASSUME NEW id \in DOMAIN lowered PROVE lowered[id].n >= first
    <3>1. lowered[id].n \in 1..written
      <4>1. lowered[id].n \in 1..MaxEntries /\ lowered[id].n <= written
        BY <1>1 DEF LogInv, LogTypes, LoweredIsLast, Entry
      <4> QED BY <1>1, <4>1, LogAssumption DEF LogInv, LogTypes
    <3>2. PICK i \in DOMAIN Retained : Retained[i].n = lowered[id].n
      BY <1>1, <3>1, RetainedFromInv DEF Young, RecentRetained
    <3>3. Retained \in Seq(Entry) /\ Len(Retained) = Len(Lines)
          /\ \A k \in 1..Len(Lines) : Retained[k] = Lines[k].entry
      BY <1>1, IntactLines DEF LogInv
    <3>4. i \in 1..Len(Lines) /\ 1 \in 1..Len(Lines) /\ Retained # <<>>
      BY <3>2, <3>3
    <3>5. \A k \in 1..Len(Lines) : Retained[k].n = written - (Len(Lines) - k)
      BY <1>1, <3>3, IntactIsContiguous DEF LogInv
    <3>6. written \in Nat
      BY <1>1, LogAssumption DEF LogInv, LogTypes
    <3> QED BY <3>2, <3>4, <3>5, <3>6
  <2>3. DOMAIN orphans = DOMAIN lowered
    BY <2>1, <2>2
  <2> QED BY <2>1, <2>3 DEF orphans
<1> QED BY <1>1, LogInvHolds, PTL

\* While the files are intact, rotation loses nothing that is not older than a
\* full generation.
THEOREM RecentIsRetained == Spec => []RecentRetained
BY RetainedFromInv, LogInvHolds, PTL

\* A rotation between the two reads of the GUI neither doubles nor swaps
\* entries.
THEOREM GuiReadsInOrder == Spec => []ReaderInOrder
<1>1. LogInv => ReaderInOrder
  BY DEF LogInv, Reading, EntriesInOrder, ReaderInOrder
<1> QED BY <1>1, LogInvHolds, PTL

\* A read that has ended holds an entry at least as new as the newest at its
\* begin, if every line parses and it has not come into the gap of a rotation.
THEOREM GuiReadsNewest == Spec => ReaderNewest
<1> DEFINE Newest ==
             (/\ reader.at = "between" /\ reader'.at = "done"
              /\ Intact /\ ~Gap /\ reader.since > 0 /\ Limit > 0)
             => GotNewest'
<1>1. LogInv /\ [Next]_logVars => [Newest]_logVars
  <2> SUFFICES ASSUME LogInv, Next, reader.at = "between", reader'.at = "done",
                      Intact, ~Gap, reader.since > 0, Limit > 0
               PROVE  GotNewest'
    OBVIOUS
  <2>0. LogTypes /\ Numbered /\ Generations /\ Reading
    BY DEF LogInv
  <2>1. ReadCurrent
    <3>1. ASSUME UNCHANGED reader PROVE FALSE
      BY <3>1
    <3> QED BY <3>1 DEF Next, Rotate, AppendLog, TornAppend, ReadOld
  <2> DEFINE all == Read(reader.got, current)
             got == Trim(all, Limit)
             early == Read(<<>>, old)
  <2>2. reader'.got = got /\ reader'.since = reader.since
    BY <2>0, <2>1 DEF ReadCurrent, LogTypes, Reader
  <2>3. /\ old \in Seq(Line) /\ current \in Seq(Line) /\ <<>> \in Seq(Entry)
        /\ reader.since \in Nat /\ written \in Nat /\ Limit \in Nat
        /\ reader.since <= written /\ written > 0 /\ reader.got \in Seq(Entry)
    BY <2>0, LogAssumption DEF LogTypes, Reader, Reading
  <2>4. \A f \in {old, current} : Readable(f) /\ \A i \in DOMAIN f : Good(f[i])
    BY LogAssumption DEF Intact, Readable, Good
  <2> SUFFICES all \in Seq(Entry) /\ all # <<>> /\ all[Len(all)].n = written
    <3> HIDE DEF all
    <3>1. got # <<>> /\ got[Len(got)] = all[Len(all)]
      BY <2>3, TrimFacts
    <3> HIDE DEF got
    <3>2. Last(reader'.got).n = written
      BY <2>2, <3>1 DEF Last
    <3> QED BY <2>2, <2>3, <3>1, <3>2 DEF GotNewest
  <2>5. CASE current # <<>>
    <3>1. /\ Len(current) \in Nat /\ Len(current) > 0 /\ Len(old) \in Nat
          /\ Len(current) \in 1..Len(current) /\ Len(current) \in DOMAIN current
      BY <2>3, <2>5
    <3>2. /\ Len(Lines) = Len(old) + Len(current) /\ Lines # <<>>
          /\ Lines[Len(Lines)] = current[Len(current)]
      <4>1. /\ Len(Lines) = Len(old) + Len(current)
            /\ Lines[Len(old) + Len(current)] = current[Len(current)]
        BY <2>3, <3>1, Joined DEF Lines
      <4> QED BY <3>1, <4>1
    <3>3. Good(current[Len(current)]) /\ current[Len(current)].entry.n = written
      BY <2>0, <2>4, <3>1, <3>2 DEF Numbered
    <3> QED BY <2>4, <2>5, <3>3, SecondRead
  <2>6. CASE current = <<>>
    <3>1. reader.got = Trim(early, Limit) /\ old # <<>>
      BY <2>0, <2>3, <2>6 DEF Gap, Generations
    <3>2. /\ Len(old) \in DOMAIN old /\ Lines = old /\ Lines # <<>>
      BY <2>3, <2>6, <3>1 DEF Lines
    <3>3. Good(old[Len(old)]) /\ old[Len(old)].entry.n = written
      BY <2>0, <2>4, <3>2 DEF Numbered
    <3>4. early \in Seq(Entry) /\ early # <<>> /\ early[Len(early)].n = written
      BY <2>3, <2>4, <3>1, <3>3, ReadFacts
    <3> HIDE DEF early
    <3>5. reader.got # <<>> /\ reader.got[Len(reader.got)].n = written
      BY <2>3, <3>1, <3>4, TrimFacts
    <3>6. all = reader.got
      <4>1. /\ DOMAIN current = 1..0 /\ \A k \in DOMAIN current : Good(current[k])
            /\ Len(current) = 0
        BY <2>6
      <4> DEFINE r == Read(reader.got, current)
      <4>2. /\ r \in Seq(Entry) /\ Len(r) = Len(reader.got) + Len(current)
            /\ \A i \in 1..Len(reader.got) : r[i] = reader.got[i]
        BY <2>3, <4>1, ReadFacts
      <4> HIDE DEF r
      <4>3. r = reader.got
        BY <2>3, <4>1, <4>2
      <4> QED BY <4>3 DEF r
    <3> QED BY <2>3, <3>5, <3>6
  <2> QED BY <2>5, <2>6
<1> HIDE DEF Newest
<1>2. Spec => [][Newest]_logVars
  BY <1>1, LogInvHolds, PTL DEF Spec
<1> QED BY <1>2 DEF Newest, ReaderNewest

=============================================================================
