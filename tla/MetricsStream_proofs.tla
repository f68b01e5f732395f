------------------------- MODULE MetricsStream_proofs -------------------------
(***************************************************************************)
(* Proofs about MetricsStream: that no change of the process list is lost  *)
(* between the sampler's baseline and the rows of the table, for every set *)
(* of processes and threads and every bound on the queue, as long as full  *)
(* refreshes, stops and starts keep clear of the rounds of the stream.     *)
(*                                                                         *)
(* The first part says what FoldLeft does with Apply when a result is      *)
(* appended to the queue and when its first one is delivered.              *)
(***************************************************************************)
EXTENDS MetricsStream, TLAPS, WellFoundedInduction

Before == {ss \in Nat \X Nat : ss[1] < ss[2]}

LEMMA BeforeIsWellFounded == IsWellFoundedOn(Before, Nat)
<1>1. OpToRel(<, Nat) = Before
  BY DEF OpToRel, Before
<1> QED BY <1>1, NatLessThanWellFounded

\* Induction over the naturals, for a set.
LEMMA InductionOnNat ==
  ASSUME NEW S, 0 \in S, \A n \in Nat : n \in S => n + 1 \in S
  PROVE  Nat \subseteq S
<1> SUFFICES ASSUME ~(Nat \subseteq S) PROVE FALSE
  OBVIOUS
<1>1. PICK n \in Nat \ S : \A m \in Nat \ S : ~(<<m, n>> \in Before)
  <2>1. Nat \ S \subseteq Nat /\ Nat \ S # {}
    OBVIOUS
  <2> QED BY <2>1, BeforeIsWellFounded, WFMin
<1>2. n # 0 /\ n - 1 \in Nat /\ n - 1 < n /\ (n - 1) + 1 = n
  BY <1>1
<1>3. <<n - 1, n>> \in Before
  BY <1>2 DEF Before
<1>4. n - 1 \in S
  BY <1>1, <1>2, <1>3
<1> QED BY <1>1, <1>2, <1>4

-----------------------------------------------------------------------------
(* The queue, applied from its front to its end *)

\* The recursive function that FoldLeft(Apply, b, q) chooses.
Folds(f, b, q, n) ==
  f = [s \in SUBSET (1..n) |->
         IF s = {} THEN b ELSE Apply(f[s \ {Max(s)}], q[Max(s)])]

LEMMA MaxIsLast ==
  ASSUME NEW n \in Nat, NEW s \in SUBSET (1..n), n \in s
  PROVE  Max(s) = n
<1>1. \A y \in s : n >= y
  OBVIOUS
<1>2. ASSUME NEW x \in s, \A y \in s : x >= y PROVE x = n
  BY <1>2
<1> QED BY <1>1, <1>2 DEF Max

LEMMA FoldsExist ==
  ASSUME NEW b, NEW q, NEW n \in Nat
  PROVE  \E f : Folds(f, b, q, n)
<1> DEFINE S == {m \in Nat : \E f : Folds(f, b, q, m)}
<1>1. 0 \in S
  <2> DEFINE f == [s \in SUBSET (1..0) |-> b]
  <2>1. \A s \in SUBSET (1..0) : s = {}
    OBVIOUS
  <2>2. Folds(f, b, q, 0)
    BY <2>1 DEF Folds
  <2> QED BY <2>2
<1>2. ASSUME NEW m \in Nat, m \in S PROVE m + 1 \in S
  <2>1. PICK f : Folds(f, b, q, m)
    BY <1>2
  <2> DEFINE g == [s \in SUBSET (1..m+1) |->
                     IF m + 1 \in s THEN Apply(f[s \ {m + 1}], q[m + 1]) ELSE f[s]]
  <2>2. ASSUME NEW s \in SUBSET (1..m+1)
        PROVE  g[s] = IF s = {} THEN b ELSE Apply(g[s \ {Max(s)}], q[Max(s)])
    <3>1. CASE m + 1 \in s
      <4>1. Max(s) = m + 1 /\ s # {}
        BY <3>1, MaxIsLast
      <4>2. g[s \ {m + 1}] = f[s \ {m + 1}]
        OBVIOUS
      <4> QED BY <3>1, <4>1, <4>2
    <3>2. CASE m + 1 \notin s
      <4>1. s \in SUBSET (1..m) /\ g[s] = f[s]
        BY <3>2
      <4>2. f[s] = IF s = {} THEN b ELSE Apply(f[s \ {Max(s)}], q[Max(s)])
        BY <2>1, <4>1 DEF Folds
      <4>3. g[s \ {Max(s)}] = f[s \ {Max(s)}]
        BY <3>2
      <4> QED BY <4>1, <4>2, <4>3
    <3> QED BY <3>1, <3>2
  <2>3. Folds(g, b, q, m + 1)
    BY <2>2 DEF Folds
  <2> QED BY <2>3
<1> HIDE DEF S
<1>3. Nat \subseteq S
  BY <1>1, <1>2, InductionOnNat
<1>4. n \in S
  BY <1>3
<1> QED BY <1>4 DEF S

\* No result leaves the base, and one more is applied to what the others give.
LEMMA FoldsStart ==
  ASSUME NEW b, NEW q, NEW n \in Nat, NEW f, Folds(f, b, q, n)
  PROVE  f[1..0] = b
<1>1. 1..0 = {} /\ {} \in SUBSET (1..n)
  OBVIOUS
<1> QED BY <1>1 DEF Folds

LEMMA FoldsStep ==
  ASSUME NEW b, NEW q, NEW n \in Nat, NEW f, Folds(f, b, q, n), NEW k \in 0..n - 1
  PROVE  f[1..k + 1] = Apply(f[1..k], q[k + 1])
<1>1. /\ k \in Nat /\ k + 1 \in Nat /\ 1..k + 1 \in SUBSET (1..n) /\ k + 1 \in 1..k + 1
      /\ (1..k + 1) \ {k + 1} = 1..k
  OBVIOUS
<1>2. Max(1..k + 1) = k + 1
  BY <1>1, MaxIsLast
<1>3. 1..k + 1 # {}
  BY <1>1
<1>4. f[1..k + 1] = Apply(f[(1..k + 1) \ {Max(1..k + 1)}], q[Max(1..k + 1)])
  BY <1>1, <1>3 DEF Folds
<1> QED BY <1>1, <1>2, <1>4

\* FoldLeft is the value of such a function.
LEMMA FoldLeftFolds ==
  ASSUME NEW b, NEW q, NEW n \in Nat, DOMAIN q = 1..n
  PROVE  \E f : Folds(f, b, q, n) /\ FoldLeft(Apply, b, q) = f[1..n]
<1> DEFINE h == CHOOSE f : f = [s \in SUBSET (DOMAIN q) |->
                  IF s = {} THEN b ELSE Apply(f[s \ {Max(s)}], q[Max(s)])]
<1>1. FoldLeft(Apply, b, q) = h[DOMAIN q]
  BY DEF FoldLeft, MapThenFoldSet
<1>2. PICK f : Folds(f, b, q, n)
  BY FoldsExist
<1>3. Folds(h, b, q, n)
  BY <1>2 DEF Folds
<1> HIDE DEF h
<1> QED BY <1>1, <1>3


-----------------------------------------------------------------------------
(* What a result does to the fold *)

Messages == [kind : {"list"}, pids : SUBSET Pids] \cup [kind : {"diff"}, diff : Diffs]

Rows(b, q) == FoldLeft(Apply, b, q)

LEMMA RowsOfNone ==
  ASSUME NEW b
  PROVE  Rows(b, <<>>) = b
<1>1. DOMAIN <<>> = 1..0
  OBVIOUS
<1>2. PICK f : Folds(f, b, <<>>, 0) /\ Rows(b, <<>>) = f[1..0]
  BY <1>1, FoldLeftFolds DEF Rows
<1> QED BY <1>2, FoldsStart

\* A result that is appended is applied last.
LEMMA RowsOfAppend ==
  ASSUME NEW b, NEW q \in Seq(Messages), NEW m \in Messages
  PROVE  Rows(b, Append(q, m)) = Apply(Rows(b, q), m)
<1> DEFINE n == Len(q)
           r == Append(q, m)
<1>1. n \in Nat /\ DOMAIN q = 1..n
  OBVIOUS
<1>2. Len(r) = n + 1 /\ DOMAIN r = 1..n + 1 /\ r[n + 1] = m
  OBVIOUS
<1>3. \A k \in 1..n : r[k] = q[k]
  OBVIOUS
<1> HIDE DEF n, r
<1>0. n + 1 \in Nat /\ (n + 1) - 1 = n
  BY <1>1
<1>4. PICK f : Folds(f, b, q, n) /\ Rows(b, q) = f[1..n]
  BY <1>1, FoldLeftFolds DEF Rows
<1>5. PICK g : Folds(g, b, r, n + 1) /\ Rows(b, r) = g[1..n + 1]
  BY <1>0, <1>2, FoldLeftFolds DEF Rows
<1>6. f[1..0] = b /\ \A k \in 0..n - 1 : f[1..k + 1] = Apply(f[1..k], q[k + 1])
  <2>1. f[1..0] = b
    BY <1>1, <1>4, FoldsStart
  <2> QED BY <2>1, <1>1, <1>4, FoldsStep
<1>7. g[1..0] = b /\ \A k \in 0..n : g[1..k + 1] = Apply(g[1..k], r[k + 1])
  <2>1. \A k \in 0..(n + 1) - 1 : g[1..k + 1] = Apply(g[1..k], r[k + 1])
    BY <1>0, <1>5, FoldsStep
  <2>2. g[1..0] = b
    BY <1>0, <1>5, FoldsStart
  <2> QED BY <1>0, <2>1, <2>2
<1> DEFINE S == {k \in Nat : k <= n => f[1..k] = g[1..k]}
<1>8. 0 \in S
  BY <1>6, <1>7
<1>9. ASSUME NEW k \in Nat, k \in S PROVE k + 1 \in S
  <2> SUFFICES ASSUME k + 1 <= n PROVE f[1..k + 1] = g[1..k + 1]
    OBVIOUS
  <2>1. k \in 0..n - 1 /\ k \in 0..n /\ k <= n /\ k + 1 \in 1..n
    BY <1>1
  <2>2. f[1..k] = g[1..k]
    BY <1>9, <2>1
  <2> QED BY <1>3, <1>6, <1>7, <2>1, <2>2
<1> HIDE DEF S
<1>10. n \in S
  BY <1>1, <1>8, <1>9, InductionOnNat
<1>11. f[1..n] = g[1..n] /\ n \in 0..n
  BY <1>1, <1>10 DEF S
<1>12. g[1..n + 1] = Apply(g[1..n], m)
  BY <1>2, <1>7, <1>11
<1> QED BY <1>4, <1>5, <1>11, <1>12 DEF r

\* A result that is delivered was applied first.
LEMMA RowsOfTail ==
  ASSUME NEW b, NEW q \in Seq(Messages), q # <<>>
  PROVE  Rows(Apply(b, Head(q)), Tail(q)) = Rows(b, q)
<1> DEFINE n == Len(q) - 1
           r == Tail(q)
           c == Apply(b, Head(q))
<1>1. n \in Nat /\ DOMAIN q = 1..n + 1 /\ Len(q) = n + 1 /\ Head(q) = q[1]
  OBVIOUS
<1>2. Len(r) = n /\ DOMAIN r = 1..n
  OBVIOUS
<1>3. \A k \in 1..n : r[k] = q[k + 1]
  OBVIOUS
<1>8. c = Apply(b, q[1])
  BY <1>1
<1> HIDE DEF n, r, c
<1>0. n + 1 \in Nat /\ (n + 1) - 1 = n
  BY <1>1
<1>4. PICK f : Folds(f, b, q, n + 1) /\ Rows(b, q) = f[1..n + 1]
  BY <1>0, <1>1, FoldLeftFolds DEF Rows
<1>5. PICK g : Folds(g, c, r, n) /\ Rows(c, r) = g[1..n]
  BY <1>1, <1>2, FoldLeftFolds DEF Rows
<1>6. f[1..0] = b /\ \A k \in 0..n : f[1..k + 1] = Apply(f[1..k], q[k + 1])
  <2>1. \A k \in 0..(n + 1) - 1 : f[1..k + 1] = Apply(f[1..k], q[k + 1])
    BY <1>0, <1>4, FoldsStep
  <2>2. f[1..0] = b
    BY <1>0, <1>4, FoldsStart
  <2> QED BY <1>0, <2>1, <2>2
<1>7. g[1..0] = c /\ \A k \in 0..n - 1 : g[1..k + 1] = Apply(g[1..k], r[k + 1])
  <2>1. g[1..0] = c
    BY <1>1, <1>5, FoldsStart
  <2> QED BY <2>1, <1>1, <1>5, FoldsStep
<1> DEFINE S == {k \in Nat : k <= n => f[1..k + 1] = g[1..k]}
<1>9. 0 \in S
  <2>1. 0 \in 0..n /\ 0 + 1 = 1
    BY <1>1
  <2>2. f[1..0 + 1] = Apply(f[1..0], q[0 + 1])
    BY <1>6, <2>1
  <2> QED BY <1>6, <1>7, <1>8, <2>1, <2>2
<1>10. ASSUME NEW k \in Nat, k \in S PROVE k + 1 \in S
  <2> SUFFICES ASSUME k + 1 <= n PROVE f[1..(k + 1) + 1] = g[1..k + 1]
    OBVIOUS
  <2>1. k \in 0..n - 1 /\ k + 1 \in 0..n /\ k <= n /\ k + 1 \in 1..n
    BY <1>1
  <2>2. f[1..k + 1] = g[1..k]
    BY <1>10, <2>1
  <2>3. f[1..(k + 1) + 1] = Apply(f[1..k + 1], q[(k + 1) + 1])
    BY <1>6, <2>1
  <2>4. g[1..k + 1] = Apply(g[1..k], r[k + 1])
    BY <1>7, <2>1
  <2> QED BY <1>3, <2>1, <2>2, <2>3, <2>4
<1> HIDE DEF S
<1>11. n \in S
  BY <1>1, <1>9, <1>10, InductionOnNat
<1>12. f[1..n + 1] = g[1..n]
  BY <1>1, <1>11 DEF S
<1> QED BY <1>4, <1>5, <1>12 DEF c, r


-----------------------------------------------------------------------------
(* The table that is on its way *)

\* Expected, of any table, queue and threads.
Emitting(ths) == {t \in Threads : ths[t].at = "emitting"}

View(rows, q, ths) ==
  (Rows(rows, q) \ UNION {ths[t].diff.removed : t \in Emitting(ths)})
    \cup UNION {ths[t].diff.upserts : t \in Emitting(ths)}

\* applyProcessDiff
Patched(rows, diff) == (rows \ diff.removed) \cup diff.upserts

LEMMA ExpectedIsView ==
  /\ Expected = View(table, queue, threads)
  /\ Expected' = View(table', queue', threads')
BY DEF Expected, View, Emitting, Rows

LEMMA ViewQuiet ==
  ASSUME NEW rows, NEW q, NEW ths, \A t \in Threads : ths[t].at # "emitting"
  PROVE  View(rows, q, ths) = Rows(rows, q)
<1>1. Emitting(ths) = {}
  BY DEF Emitting
<1>2. UNION {ths[t].diff.removed : t \in {}} = {}
  OBVIOUS
<1>3. UNION {ths[t].diff.upserts : t \in {}} = {}
  OBVIOUS
<1> QED BY <1>1, <1>2, <1>3 DEF View

LEMMA ViewOne ==
  ASSUME NEW rows, NEW q, NEW ths, NEW u \in Threads,
         Emitting(ths) = {u}
  PROVE  View(rows, q, ths) = Patched(Rows(rows, q), ths[u].diff)
<1>2. UNION {ths[t].diff.removed : t \in {u}} = ths[u].diff.removed
  OBVIOUS
<1>3. UNION {ths[t].diff.upserts : t \in {u}} = ths[u].diff.upserts
  OBVIOUS
<1> QED BY <1>2, <1>3 DEF View, Patched

\* Only the diffs that are being sent count.
LEMMA ViewSame ==
  ASSUME NEW rows, NEW q, NEW rows2, NEW q2, Rows(rows, q) = Rows(rows2, q2),
         NEW ths, NEW ths2,
         \A t \in Threads : ths[t].at = "emitting" <=> ths2[t].at = "emitting",
         \A t \in Threads : ths[t].at = "emitting" => ths[t].diff = ths2[t].diff
  PROVE  View(rows, q, ths) = View(rows2, q2, ths2)
<1>1. Emitting(ths) = Emitting(ths2)
  BY DEF Emitting
<1>2. /\ {ths[t].diff.removed : t \in Emitting(ths)} = {ths2[t].diff.removed : t \in Emitting(ths)}
      /\ {ths[t].diff.upserts : t \in Emitting(ths)} = {ths2[t].diff.upserts : t \in Emitting(ths)}
  BY DEF Emitting
<1> QED BY <1>1, <1>2 DEF View

LEMMA ApplyType ==
  ASSUME NEW rows \in SUBSET Pids, NEW m \in Messages
  PROVE  Apply(rows, m) \in SUBSET Pids
BY DEF Apply, Messages, Diffs

-----------------------------------------------------------------------------
(* The invariant *)

\* Refreshes, stops and starts keep clear of the rounds, and the table shows
\* nothing before the first full list.
Apart == Faults \cap {"overlap", "pause", "restart", "bootstrap"} = {}

\* One thread lives; it samples while the stream runs and nobody refreshes,
\* from the baseline as it is.
Rounds ==
  /\ \A t, u \in Threads : Live(t) /\ Live(u) => t = u
  /\ \A t \in Threads : InRound(t) => running /\ MainFree
  /\ \A t \in Threads :
       threads[t].at \in {"scanning", "scanned"} => threads[t].prev = baseline

\* A row is in the baseline, and what is in the baseline and was sent is a row.
\* DiffsKeepSync says this of the processes that matter now; any may start or
\* end next, so that it has to hold of all.
InSync ==
  /\ Expected \subseteq baseline
  /\ baseline \cap pushed \subseteq Expected

StreamInv == TypeOK /\ queue \in Seq(Messages) /\ Rounds /\ InSync

\* Only thread t changes, to c.
Becomes(t, c) ==
  /\ threads' \in [Threads -> Thread] /\ threads'[t] = c
  /\ \A u \in Threads : u # t => threads'[u] = threads[u]

LEMMA BecomesEffect ==
  ASSUME TypeOK, NEW t \in Threads, NEW c \in Thread, threads' = [threads EXCEPT ![t] = c]
  PROVE  Becomes(t, c)
BY DEF TypeOK, Becomes

LEMMA ResetIsThread ==
  ASSUME NEW at \in {"ended", "resting", "scanning", "scanned", "emitting"}
  PROVE  /\ ResetThread(at) \in Thread /\ ResetThread(at).at = at
         /\ NoDiff \in Diffs
BY DEF ResetThread, Thread, NoDiff, Diffs

\* A step that sends nothing, and changes the threads outside of their rounds
\* at most, keeps the tables in step.
LEMMA QuietStep ==
  ASSUME StreamInv, UNCHANGED <<baseline, pushed, queue, table>>,
         \A t \in Threads :
           threads[t].at = "emitting" <=> threads'[t].at = "emitting",
         \A t \in Threads :
           threads[t].at = "emitting" => threads[t].diff = threads'[t].diff
  PROVE  InSync' /\ (queue \in Seq(Messages))'
<1>1. View(table, queue, threads) = View(table', queue', threads')
  BY ViewSame
<1>2. Expected' = Expected
  BY <1>1, ExpectedIsView
<1> QED BY <1>2 DEF StreamInv, InSync

LEMMA MessagesOfQueue ==
  ASSUME NEW q \in Seq(Messages), NEW i \in DOMAIN q, q[i].kind = "diff"
  PROVE  q[i].diff \in Diffs
<1>1. q[i] \in Messages
  OBVIOUS
<1> QED BY <1>1 DEF Messages


\* What is left to show of a step, once it is known what it did.
LEMMA TypesNext ==
  ASSUME alive' \subseteq Pids, baseline' \subseteq Pids, pushed' \subseteq Pids,
         table' \subseteq Pids, running' \in BOOLEAN, threads' \in [Threads -> Thread],
         listing' \in [busy : BOOLEAN, got : SUBSET Pids], queue' \in Seq(Messages)
  PROVE  TypeOK'
<1>1. \A i \in DOMAIN queue' : queue'[i].kind = "diff" => queue'[i].diff \in Diffs
  BY MessagesOfQueue
<1> QED BY <1>1 DEF TypeOK

-----------------------------------------------------------------------------
(* Steps that send nothing *)

LEMMA StartKeeps ==
  ASSUME StreamInv, Apart, Start
  PROVE  StreamInv'
<1>1. /\ UNCHANGED <<alive, baseline, pushed, listing, queue, table>>
      /\ running' = TRUE /\ MainFree
      /\ \A t \in Threads : ~Live(t)
  BY DEF Start, Apart
<1>2. CASE UNCHANGED threads
  <2>1. InSync' /\ (queue \in Seq(Messages))'
    BY <1>1, <1>2, QuietStep
  <2>2. TypeOK'
    BY <1>1, <1>2, <2>1, TypesNext DEF StreamInv, TypeOK
  <2>3. Rounds'
    BY <1>1, <1>2 DEF StreamInv, Rounds, Live, InRound, MainFree
  <2> QED BY <2>1, <2>2, <2>3 DEF StreamInv
<1>3. ASSUME NEW t \in Threads, threads' = [threads EXCEPT ![t] = ResetThread("resting")]
      PROVE  StreamInv'
  <2>1. Becomes(t, ResetThread("resting")) /\ ResetThread("resting").at = "resting"
    BY <1>3, BecomesEffect, ResetIsThread DEF StreamInv
  <2>2. \A u \in Threads : threads[u].at = "ended"
    BY <1>1 DEF Live
  <2>3. InSync' /\ (queue \in Seq(Messages))'
    BY <1>1, <2>1, <2>2, QuietStep DEF Becomes
  <2>4. TypeOK'
    BY <1>1, <2>1, <2>3, TypesNext DEF StreamInv, TypeOK, Becomes
  <2>5. Rounds'
    BY <2>1, <2>2 DEF Becomes, Rounds, Live, InRound
  <2> QED BY <2>3, <2>4, <2>5 DEF StreamInv
<1> QED BY <1>2, <1>3 DEF Start

\* The steps that leave the threads alone.
LEMMA CommandsKeep ==
  ASSUME StreamInv, Apart, Stop \/ ListScan \/ Processes \/ UNCHANGED streamVars
  PROVE  StreamInv'
<1>1. UNCHANGED <<baseline, pushed, queue, table, threads>>
  BY DEF Stop, ListScan, Processes, streamVars
<1>2. InSync' /\ (queue \in Seq(Messages))'
  BY <1>1, QuietStep
<1>3. CASE Stop \/ ListScan
  <2>1. \A t \in Threads : ~InRound(t)
    BY <1>3 DEF Stop, ListScan, Calm, Apart
  <2>2. Rounds'
    BY <1>1, <2>1 DEF StreamInv, Rounds, Live, InRound
  <2>3. /\ alive' \subseteq Pids /\ running' \in BOOLEAN
        /\ listing' \in [busy : BOOLEAN, got : SUBSET Pids]
    <3>1. CASE Stop
      BY <3>1 DEF Stop, StreamInv, TypeOK
    <3>2. CASE ListScan
      <4>1. listing' = [busy |-> TRUE, got |-> alive] /\ alive \in SUBSET Pids
        BY <3>2 DEF ListScan, StreamInv, TypeOK
      <4> QED BY <3>2, <4>1 DEF ListScan, StreamInv, TypeOK
    <3> QED BY <1>3, <3>1, <3>2
  <2>4. TypeOK'
    BY <1>1, <1>2, <2>3, TypesNext DEF StreamInv, TypeOK
  <2> QED BY <1>2, <2>2, <2>4 DEF StreamInv
<1>4. CASE Processes \/ UNCHANGED streamVars
  <2>1. alive' \subseteq Pids /\ UNCHANGED <<running, listing>>
    BY <1>4 DEF Processes, streamVars, StreamInv, TypeOK
  <2>2. TypeOK'
    BY <1>1, <1>2, <2>1, TypesNext DEF StreamInv, TypeOK
  <2>3. Rounds'
    BY <1>1, <2>1 DEF StreamInv, Rounds, Live, InRound, MainFree
  <2> QED BY <1>2, <2>2, <2>3 DEF StreamInv
<1> QED BY <1>3, <1>4

\* A thread goes on to c without sending or publishing.
LEMMA ThreadGoesOn ==
  ASSUME StreamInv, NEW t \in Threads, Live(t), threads[t].at # "emitting",
         NEW c \in Thread, threads' = [threads EXCEPT ![t] = c],
         c.at \in {"ended", "resting", "scanning", "scanned"},
         c.at \in {"scanning", "scanned"} => running /\ MainFree /\ c.prev = baseline,
         UNCHANGED <<alive, running, baseline, pushed, listing, queue, table>>
  PROVE  StreamInv'
<1>1. Becomes(t, c)
  BY BecomesEffect DEF StreamInv
<1>2. InSync' /\ (queue \in Seq(Messages))'
  BY <1>1, QuietStep DEF Becomes
<1>3. TypeOK'
  BY <1>1, <1>2, TypesNext DEF StreamInv, TypeOK, Becomes
<1>4. Rounds'
  BY <1>1 DEF StreamInv, Rounds, Becomes, Live, InRound, MainFree
<1> QED BY <1>2, <1>3, <1>4 DEF StreamInv

LEMMA QuietRoundKeeps ==
  ASSUME StreamInv, Apart, NEW t \in Threads, Rest(t) \/ Scan(t) \/ SkipRound(t)
  PROVE  StreamInv'
<1>0. threads[t] \in Thread /\ threads \in [Threads -> Thread]
  BY DEF StreamInv, TypeOK
<1>1. CASE SkipRound(t) \/ (Rest(t) /\ ~running)
  <2>1. PICK at \in {"ended", "resting"} :
          threads' = [threads EXCEPT ![t] = ResetThread(at)]
    BY <1>1 DEF SkipRound, Rest
  <2>2. Live(t) /\ threads[t].at # "emitting"
    BY <1>1 DEF SkipRound, Rest, Live
  <2>3. UNCHANGED <<alive, running, baseline, pushed, listing, queue, table>>
    BY <1>1 DEF SkipRound, Rest
  <2> QED BY <2>1, <2>2, <2>3, ResetIsThread, ThreadGoesOn
<1>2. CASE Rest(t) /\ running
  <2> DEFINE c == [ResetThread("scanning") EXCEPT !.prev = baseline]
  <2>1. /\ threads' = [threads EXCEPT ![t] = c] /\ MainFree
        /\ Live(t) /\ threads[t].at # "emitting"
        /\ UNCHANGED <<alive, running, baseline, pushed, listing, queue, table>>
    BY <1>2 DEF Rest, Apart, Live
  <2>2. c \in Thread /\ c.at = "scanning" /\ c.prev = baseline
    BY ResetIsThread DEF ResetThread, Thread, StreamInv, TypeOK
  <2> HIDE DEF c
  <2> QED BY <1>2, <2>1, <2>2, ThreadGoesOn
<1>3. CASE Scan(t)
  <2> DEFINE c == [threads[t] EXCEPT !.at = "scanned", !.snap = alive]
  <2>1. /\ threads' = [threads EXCEPT ![t] = c]
        /\ Live(t) /\ threads[t].at = "scanning"
        /\ UNCHANGED <<alive, running, baseline, pushed, listing, queue, table>>
    BY <1>0, <1>3 DEF Scan, Live
  <2>2. c \in Thread /\ c.at = "scanned" /\ c.prev = threads[t].prev
    BY <1>0 DEF Thread, StreamInv, TypeOK
  <2>3. running /\ MainFree /\ c.prev = baseline
    BY <2>1, <2>2 DEF StreamInv, Rounds, InRound
  <2> HIDE DEF c
  <2> QED BY <2>1, <2>2, <2>3, ThreadGoesOn
<1> QED BY <1>1, <1>2, <1>3


-----------------------------------------------------------------------------
(* Steps that send *)

LEMMA ListReplyKeeps ==
  ASSUME StreamInv, ListReply
  PROVE  StreamInv'
<1> DEFINE m == [kind |-> "list", pids |-> listing.got]
<1>1. listing.busy /\ listing.got \in SUBSET Pids
  BY DEF ListReply, StreamInv, TypeOK
<1>2. m \in Messages /\ Apply(Rows(table, queue), m) = listing.got
  BY <1>1 DEF Messages, Apply
<1>3. \A t \in Threads : ~InRound(t)
  BY <1>1 DEF StreamInv, Rounds, MainFree
<1>4. /\ queue' = Append(queue, m) /\ baseline' = listing.got
      /\ listing' = [busy |-> FALSE, got |-> {}]
      /\ UNCHANGED <<alive, running, threads, pushed, table>>
  BY DEF ListReply
<1> HIDE DEF m
<1>5. Rows(table', queue') = listing.got
  BY <1>2, <1>4, RowsOfAppend DEF StreamInv
<1>6. \A t \in Threads : threads'[t].at # "emitting"
  BY <1>3, <1>4 DEF InRound
<1>7. Expected' = listing.got
  BY <1>5, <1>6, ViewQuiet, ExpectedIsView
<1>8. queue' \in Seq(Messages)
  BY <1>2, <1>4 DEF StreamInv
<1>9. InSync'
  BY <1>4, <1>7 DEF InSync
<1>10. TypeOK'
  BY <1>1, <1>4, <1>8, TypesNext DEF StreamInv, TypeOK
<1>11. Rounds'
  BY <1>3, <1>4 DEF StreamInv, Rounds, Live, InRound
<1> QED BY <1>8, <1>9, <1>10, <1>11 DEF StreamInv

LEMMA DeliverKeeps ==
  ASSUME StreamInv, Deliver
  PROVE  StreamInv'
<1>1. /\ queue # <<>> /\ queue \in Seq(Messages)
      /\ table' = Apply(table, Head(queue)) /\ queue' = Tail(queue)
      /\ UNCHANGED <<alive, running, threads, baseline, pushed, listing>>
  BY DEF Deliver, StreamInv
<1>2. Rows(table', queue') = Rows(table, queue)
  BY <1>1, RowsOfTail
<1>3. View(table', queue', threads') = View(table, queue, threads)
  <2>1. threads' = threads
    BY <1>1
  <2>2. View(table', queue', threads) = View(table, queue, threads)
    BY <1>2, ViewSame
  <2> QED BY <2>1, <2>2
<1>4. InSync'
  BY <1>1, <1>3, ExpectedIsView DEF StreamInv, InSync
<1>5. queue' \in Seq(Messages) /\ Head(queue) \in Messages
  BY <1>1
<1>6. table' \in SUBSET Pids
  BY <1>1, <1>5, ApplyType DEF StreamInv, TypeOK
<1>7. TypeOK'
  BY <1>1, <1>5, <1>6, TypesNext DEF StreamInv, TypeOK
<1>8. Rounds'
  BY <1>1 DEF StreamInv, Rounds, Live, InRound, MainFree
<1> QED BY <1>4, <1>5, <1>7, <1>8 DEF StreamInv

\* While a thread is in a round no other sends.
LEMMA AloneInRound ==
  ASSUME Rounds, NEW t \in Threads, InRound(t), NEW u \in Threads,
         threads[u].at = "emitting"
  PROVE  t = u
BY DEF Rounds, Live, InRound

\* What is published is sent: what has ended is removed, and what is new, or
\* was never sent, is updated.
LEMMA PublishKeeps ==
  ASSUME StreamInv, NEW t \in Threads, Publish(t)
  PROVE  StreamInv'
<1> DEFINE prev == threads[t].prev
           snap == threads[t].snap
<1>0. threads[t] \in Thread /\ threads \in [Threads -> Thread]
  BY DEF StreamInv, TypeOK
<1>1. /\ threads[t].at = "scanned" /\ InRound(t) /\ prev = baseline
      /\ running /\ MainFree
  BY DEF Publish, StreamInv, Rounds, InRound
<1>2. prev \in SUBSET Pids /\ snap \in SUBSET Pids
  BY <1>0 DEF Thread
<1> HIDE DEF prev, snap
<1>3. PICK changed \in SUBSET snap :
        LET diff == [removed |-> prev \ snap, upserts |-> Upserts(prev, snap, changed)]
        IN  /\ threads' = [threads EXCEPT ![t].at = "emitting", ![t].diff = diff]
            /\ pushed' = (pushed \cup diff.upserts) \ diff.removed
  BY DEF Publish, prev, snap
<1> DEFINE ups == Upserts(prev, snap, changed)
           diff == [removed |-> prev \ snap, upserts |-> ups]
           c == [threads[t] EXCEPT !.at = "emitting", !.diff = diff]
<1>4. ups \in SUBSET snap /\ snap \ prev \subseteq ups /\ snap \ pushed \subseteq ups
  BY DEF Upserts
<1> HIDE DEF ups
<1>5. diff \in Diffs /\ diff.removed = prev \ snap /\ diff.upserts = ups
  BY <1>2, <1>4 DEF Diffs
<1>6. /\ threads' = [threads EXCEPT ![t] = c] /\ pushed' = (pushed \cup ups) \ (prev \ snap)
      /\ baseline' = snap
      /\ UNCHANGED <<alive, running, listing, queue, table>>
  BY <1>0, <1>3, <1>5 DEF Publish, prev, snap, ups
<1> HIDE DEF diff
<1>7. c \in Thread /\ c.at = "emitting" /\ c.diff = diff
  BY <1>0, <1>5 DEF Thread
<1> HIDE DEF c
<1>8. Becomes(t, c)
  BY <1>6, <1>7, BecomesEffect DEF StreamInv
<1>9. /\ \A u \in Threads : threads[u].at # "emitting"
      /\ \A u \in Threads : threads'[u].at = "emitting" => u = t
      /\ \A u \in Threads : Live(u) => u = t
  <2>1. \A u \in Threads : Live(u) => u = t
    BY <1>1 DEF StreamInv, Rounds, Live
  <2> QED BY <1>1, <1>8, <2>1 DEF Becomes, Live
<1>10. Expected = Rows(table, queue)
  BY <1>9, ViewQuiet, ExpectedIsView
<1>11. Expected' = (Expected \ (prev \ snap)) \cup ups
  <2>1. threads'[t].at = "emitting" /\ threads'[t].diff = diff
    BY <1>7, <1>8 DEF Becomes
  <2>2. Expected' = (Rows(table', queue') \ diff.removed) \cup diff.upserts
    <3>1. Emitting(threads') = {t}
      BY <1>9, <2>1 DEF Emitting
    <3>2. View(table', queue', threads') =
            Patched(Rows(table', queue'), threads'[t].diff)
      BY <3>1, ViewOne
    <3> QED BY <2>1, <3>2, ExpectedIsView DEF Patched
  <2> QED BY <1>5, <1>6, <1>10, <2>2
<1>12. Expected \subseteq prev /\ prev \cap pushed \subseteq Expected
  BY <1>1 DEF StreamInv, InSync
<1>13. Expected' \subseteq snap
  BY <1>4, <1>11, <1>12
<1>14. snap \cap pushed' \subseteq Expected'
  BY <1>4, <1>6, <1>11, <1>12
<1>15. InSync'
  BY <1>6, <1>13, <1>14 DEF InSync
<1>16. pushed' \subseteq Pids
  BY <1>2, <1>4, <1>6 DEF StreamInv, TypeOK
<1>17. TypeOK' /\ queue' \in Seq(Messages)
  BY <1>2, <1>6, <1>8, <1>16, TypesNext DEF StreamInv, TypeOK, Becomes
<1>18. Rounds'
  <2>1. \A u \in Threads : u # t => threads'[u].at = "ended"
    BY <1>8, <1>9 DEF Becomes, Live
  <2>2. threads'[t].at = "emitting"
    BY <1>7, <1>8 DEF Becomes
  <2>3. running' /\ MainFree'
    BY <1>1, <1>6 DEF MainFree
  <2> QED BY <2>1, <2>2, <2>3 DEF Rounds, Live, InRound
<1> QED BY <1>15, <1>17, <1>18 DEF StreamInv

LEMMA EmitKeeps ==
  ASSUME StreamInv, NEW t \in Threads, Emit(t)
  PROVE  StreamInv'
<1> DEFINE m == [kind |-> "diff", diff |-> threads[t].diff]
           c == ResetThread("resting")
<1>1. threads[t].at = "emitting" /\ InRound(t) /\ running
  BY DEF Emit, StreamInv, Rounds, InRound
<1>2. threads[t].diff \in Diffs
  BY DEF StreamInv, TypeOK, Thread
<1>3. /\ queue' = Append(queue, m) /\ threads' = [threads EXCEPT ![t] = c]
      /\ UNCHANGED <<alive, running, baseline, pushed, listing, table>>
  BY <1>1 DEF Emit
<1>4. /\ m \in Messages
      /\ Apply(Rows(table, queue), m) = Patched(Rows(table, queue), threads[t].diff)
  BY <1>2 DEF Messages, Apply, Patched
<1> HIDE DEF m
<1>5. c \in Thread /\ c.at = "resting"
  BY ResetIsThread
<1> HIDE DEF c
<1>6. Becomes(t, c)
  BY <1>3, <1>5, BecomesEffect DEF StreamInv
<1>7. \A u \in Threads : threads[u].at = "emitting" => u = t
  BY <1>1, AloneInRound DEF StreamInv
<1>8. Expected = Apply(Rows(table, queue), m)
  <2>1. View(table, queue, threads) = Patched(Rows(table, queue), threads[t].diff)
    <3>1. Emitting(threads) = {t}
      BY <1>1, <1>7 DEF Emitting
    <3> QED BY <3>1, ViewOne
  <2> QED BY <1>4, <2>1, ExpectedIsView
<1>9. Rows(table', queue') = Expected
  BY <1>3, <1>4, <1>8, RowsOfAppend DEF StreamInv
<1>10. \A u \in Threads : threads'[u].at # "emitting"
  BY <1>5, <1>6, <1>7 DEF Becomes
<1>11. Expected' = Expected
  BY <1>9, <1>10, ViewQuiet, ExpectedIsView
<1>12. InSync'
  BY <1>3, <1>11 DEF StreamInv, InSync
<1>13. queue' \in Seq(Messages)
  BY <1>3, <1>4 DEF StreamInv
<1>14. TypeOK'
  BY <1>3, <1>6, <1>13, TypesNext DEF StreamInv, TypeOK, Becomes
<1>15. Rounds'
  BY <1>1, <1>3, <1>5, <1>6 DEF StreamInv, Rounds, Becomes, Live, InRound, MainFree
<1> QED BY <1>12, <1>13, <1>14, <1>15 DEF StreamInv

-----------------------------------------------------------------------------
(* The theorems *)

\* The stream invariant is inductive, as long as commands keep clear of rounds.
THEOREM StreamInvHolds ==
  ASSUME Apart
  PROVE  Spec => []StreamInv
<1>1. Init => StreamInv
  <2> SUFFICES ASSUME Init PROVE StreamInv
    OBVIOUS
  <2>1. threads \in [Threads -> Thread] /\ \A t \in Threads : threads[t].at = "ended"
    BY ResetIsThread DEF Init
  <2>2. queue = <<>> /\ queue \in Seq(Messages) /\ table = {} /\ baseline = {}
    BY DEF Init, Apart, FirstRows
  <2>3. Expected = {}
    BY <2>1, <2>2, ViewQuiet, RowsOfNone, ExpectedIsView
  <2>4. TypeOK
    <3>1. \A i \in DOMAIN queue : queue[i].kind = "diff" => queue[i].diff \in Diffs
      BY <2>2, MessagesOfQueue
    <3> QED BY <2>1, <2>2, <3>1 DEF Init, TypeOK
  <2>5. Rounds
    BY <2>1 DEF Rounds, Live, InRound
  <2> QED BY <2>2, <2>3, <2>4, <2>5 DEF StreamInv, InSync
<1>2. StreamInv /\ [Next]_streamVars => StreamInv'
  BY StartKeeps, CommandsKeep, ListReplyKeeps, DeliverKeeps, QuietRoundKeeps,
     PublishKeeps, EmitKeeps DEF Next, Round
<1> QED BY <1>1, <1>2, PTL DEF Spec

\* TypeOK: in particular no diff removes and updates the same process
\* (collect_metrics_tick), so that applyProcessDiff may do either first.
THEOREM StreamTypes ==
  ASSUME Apart
  PROVE  Spec => []TypeOK
<1>1. StreamInv => TypeOK
  BY DEF StreamInv
<1> QED BY <1>1, StreamInvHolds, PTL

\* DiffsKeepSync: whatever rounds are skipped and whatever starts and ends in
\* between, the row of a process that has ended is still in the sampler's
\* baseline, so that the next diff removes it, and a running process without a
\* row is one that the next diff sends.
THEOREM NoChangeIsLost ==
  ASSUME Apart
  PROVE  Spec => []DiffsKeepSync
<1>1. StreamInv => DiffsKeepSync
  BY DEF StreamInv, InSync, DiffsKeepSync
<1> QED BY <1>1, StreamInvHolds, PTL

\* OneSampler: two rounds never overlap, as long as the stream is not started
\* again before its last thread has noticed that it was stopped.
THEOREM OneRoundAtATime ==
  ASSUME Apart
  PROVE  Spec => []OneSampler
<1>1. StreamInv => OneSampler
  BY DEF StreamInv, Rounds, OneSampler, InRound, Live
<1> QED BY <1>1, StreamInvHolds, PTL

=============================================================================
