----------------------- MODULE ProBalanceEngine_proofs -----------------------
(***************************************************************************)
(* Proofs about ProBalanceEngine, for every set of processes, images,      *)
(* configurations, clock readings and CPU readings.                        *)
(***************************************************************************)
EXTENDS ProBalanceEngine, TLAPS

(***************************************************************************)
(* TrackedOnlyWhileEngaged is not inductive alone: mark_downgraded records *)
(* a process after the tick, so it needs to know that a downgrade waiting  *)
(* to be executed means an engaged engine (DecisionsConsistent), and that  *)
(* an engaged engine is an enabled one (HysteresisExact).                  *)
(***************************************************************************)
IInv ==
  /\ TypeOK
  /\ TrackedOnlyWhileEngaged
  /\ HysteresisExact
  /\ NoOverdue
  /\ DecisionsConsistent

\* What the sampler hands over, process by process.
LEMMA SampleFacts ==
  ASSUME NEW samples \in Samples, NEW p \in DOMAIN samples
  PROVE  p \in Pids /\ samples[p].name \in Images
BY DEF Samples

\* The counters stay between zero and their saturation point.
LEMMA SaturateFacts ==
  ASSUME NEW n \in 0..MaxCount
  PROVE  Saturate(n) \in 0..MaxCount /\ (MaxCount >= 1 => Saturate(n) > 0)
BY EngineAssumption DEF Saturate

\* What loading any configuration guarantees.
LEMMA ConfigFacts ==
  ASSUME NEW c \in Configs
  PROVE  /\ c.enabled \in BOOLEAN
         /\ c.sustain_secs \in 1..MaxCount
         /\ c.restore_after_secs \in 1..MaxCount
         /\ c.max_downgrade_secs \in Nat
         /\ c.max_downgrade_secs >= 1
         /\ MaxCount \in Nat /\ MaxCount >= 1
BY EngineAssumption DEF ConfigType

\* Zero is a counter value.
LEMMA ZeroCount == 0 \in 0..MaxCount
BY EngineAssumption

\* The restore decisions for tracked processes are well formed.
LEMMA RestoresType ==
  ASSUME TypeOK, NEW P \in SUBSET DOMAIN tracked, NEW reason \in Reasons
  PROVE  Restores(P, reason) \subseteq Decision
BY DEF TypeOK, Tracked, Restores, Decision

\* New: nothing is tracked, nothing is counted.
LEMMA InitIInv == Init => IInv
<1> SUFFICES ASSUME Init PROVE IInv
  OBVIOUS
<1>1. TypeOK
  <2>1. DOMAIN tracked = {} /\ 0 \in 0..MaxCount
    BY EngineAssumption DEF Init
  <2> QED BY <2>1 DEF Init, TypeOK
<1>2. TrackedOnlyWhileEngaged /\ HysteresisExact /\ NoOverdue
  BY DEF Init, TrackedOnlyWhileEngaged, HysteresisExact, NoOverdue
<1>3. DecisionsConsistent
  BY DEF Init, DecisionsConsistent
<1> QED BY <1>1, <1>2, <1>3 DEF IInv

\* update_config with any configuration.
LEMMA ReloadStep == IInv /\ Reload => IInv'
<1> SUFFICES ASSUME IInv, Reload PROVE IInv'
  OBVIOUS
<1> USE DEF IInv
<1>1. PICK c \in Configs : UpdateConfig(c)
  BY DEF Reload
<1>2. config' = c /\ c.enabled \in BOOLEAN /\ config.enabled \in BOOLEAN
  BY <1>1, ConfigFacts DEF UpdateConfig, TypeOK
<1>3. Restores(DOMAIN tracked, "disabled") \subseteq Decision
  BY RestoresType DEF Reasons
<1>4. /\ DOMAIN tracked' \subseteq DOMAIN tracked
      /\ \A p \in DOMAIN tracked' : tracked'[p] = tracked[p]
      /\ decisions' # {} => DOMAIN tracked' = {}
      /\ decisions' \subseteq Restores(DOMAIN tracked, "disabled")
  BY <1>1 DEF UpdateConfig, TakeAll, Untrack
<1>5. TypeOK'
  <2>1. engaged' \in BOOLEAN /\ contention_ticks' \in 0..MaxCount
        /\ clear_ticks' \in 0..MaxCount
    BY <1>1, ZeroCount DEF UpdateConfig, ResetCounters, TypeOK
  <2> QED BY <1>2, <1>3, <1>4, <2>1 DEF TypeOK, Reload
<1>6. TrackedOnlyWhileEngaged'
  <2>1. CASE config.enabled /\ ~c.enabled
    BY <1>1, <2>1 DEF UpdateConfig, TakeAll, Untrack, TrackedOnlyWhileEngaged
  <2>2. CASE ~(config.enabled /\ ~c.enabled)
    BY <1>1, <1>2, <2>2 DEF UpdateConfig, TrackedOnlyWhileEngaged
  <2> QED BY <2>1, <2>2
<1>7. HysteresisExact' /\ NoOverdue'
  BY <1>1, <1>2 DEF UpdateConfig, ResetCounters, HysteresisExact, NoOverdue, Reload, TypeOK
<1>8. DecisionsConsistent'
  BY <1>4 DEF DecisionsConsistent, Restores
<1> QED BY <1>5, <1>6, <1>7, <1>8

\* shutdown.
LEMMA StopStep == IInv /\ Stop => IInv'
<1> SUFFICES ASSUME IInv, Stop PROVE IInv'
  OBVIOUS
<1> USE DEF IInv
<1>1. /\ engaged' = FALSE /\ contention_ticks' = 0 /\ clear_ticks' = 0
      /\ config' = config /\ call' = "shutdown" /\ now' = now
      /\ DOMAIN tracked' = {}
      /\ decisions' = Restores(DOMAIN tracked, "shutdown")
  BY DEF Stop, Shutdown, ResetCounters, TakeAll, Untrack
<1>2. decisions' \subseteq Decision
  BY <1>1, RestoresType DEF Reasons
<1>3. TypeOK'
  BY <1>1, <1>2, ZeroCount DEF TypeOK
<1>4. TrackedOnlyWhileEngaged' /\ HysteresisExact' /\ NoOverdue'
  BY <1>1 DEF TrackedOnlyWhileEngaged, HysteresisExact, NoOverdue
<1>5. DecisionsConsistent'
  BY <1>1 DEF DecisionsConsistent, Restores
<1> QED BY <1>3, <1>4, <1>5

\* tick_with_game_mode of an enabled engine.  The expired processes, those
\* gone from the samples and the new candidates are three disjoint groups;
\* everything not handed back stays tracked unchanged.
LEMMA DecideStep ==
  ASSUME IInv, config.enabled, UNCHANGED config, call' = "tick",
         NEW contends \in BOOLEAN, NEW t \in Times, now' = t,
         NEW fg_pid, NEW samples \in Samples, NEW ruled,
         NEW ct, ct = (IF contends THEN Saturate(contention_ticks) ELSE 0),
         NEW cl, cl = (IF contends THEN 0 ELSE Saturate(clear_ticks)),
         Decide(contends, ct, cl, t, fg_pid, samples, ruled)
  PROVE  IInv'
<1> USE DEF IInv
<1>1. config \in Configs /\ config' = config /\ config.enabled' = config.enabled
  BY DEF TypeOK
<1>2. /\ ct \in 0..MaxCount /\ cl \in 0..MaxCount
      /\ contends => ct > 0 /\ cl = 0
      /\ ~contends => ct = 0
  BY <1>1, SaturateFacts, ConfigFacts DEF TypeOK
<1> DEFINE on      == engaged \/ ct >= config.sustain_secs
           cleared == on /\ cl >= config.restore_after_secs
           expired == IF on THEN Expired(t) ELSE {}
           gone    == (DOMAIN tracked \ expired) \ DOMAIN samples
           lowered == IF on /\ contends
                      THEN Candidates(fg_pid, samples, ruled) ELSE {}
<1>3. engaged \in BOOLEAN /\ on \in BOOLEAN
  BY DEF TypeOK
<1>4. CASE cleared
  <2>1. /\ engaged' = FALSE /\ contention_ticks' = 0 /\ clear_ticks' = 0
        /\ decisions' = Restores(DOMAIN tracked, "contention_cleared")
        /\ DOMAIN tracked' = {}
    BY <1>4 DEF Decide, ResetCounters, TakeAll, Untrack
  <2>2. decisions' \subseteq Decision
    BY <2>1, RestoresType DEF Reasons
  <2>3. TypeOK'
    BY <1>1, <2>1, <2>2, ZeroCount DEF TypeOK
  <2>4. TrackedOnlyWhileEngaged' /\ NoOverdue'
    BY <2>1 DEF TrackedOnlyWhileEngaged, NoOverdue
  <2>5. HysteresisExact'
    BY <1>1, <2>1, ConfigFacts DEF HysteresisExact
  <2>6. DecisionsConsistent'
    BY <2>1 DEF DecisionsConsistent, Restores
  <2> QED BY <2>3, <2>4, <2>5, <2>6
<1>5. CASE ~cleared
  <2>1. /\ engaged' = on /\ contention_ticks' = ct /\ clear_ticks' = cl
        /\ decisions' = Downgrades(lowered, samples)
                          \cup Restores(expired, "timeout")
                          \cup Restores(gone, "process_exited")
        /\ tracked' = [p \in DOMAIN tracked \ (expired \cup gone) |-> tracked[p]]
    <3>1. CASE on /\ contends
      BY <1>5, <3>1 DEF Decide, Untrack
    <3>2. CASE ~(on /\ contends)
      <4>1. Downgrades(lowered, samples) = {}
        BY <3>2 DEF Downgrades
      <4> QED BY <1>5, <3>2, <4>1 DEF Decide, Untrack
    <3> QED BY <3>1, <3>2
  <2>2. /\ expired \subseteq DOMAIN tracked
        /\ gone \subseteq DOMAIN tracked
        /\ expired \cap gone = {}
        /\ lowered \cap DOMAIN tracked = {}
        /\ lowered \subseteq DOMAIN samples
    BY DEF Expired, Candidates
  <2>3. /\ DOMAIN tracked' = DOMAIN tracked \ (expired \cup gone)
        /\ \A p \in DOMAIN tracked' : tracked'[p] = tracked[p]
    BY <2>1
  <2> HIDE DEF on, cleared, expired, gone, lowered
  <2>4. TypeOK'
    <3>1. Downgrades(lowered, samples) \subseteq Decision
      BY <2>2, SampleFacts DEF Downgrades, Decision
    <3>2. Restores(expired, "timeout") \subseteq Decision
          /\ Restores(gone, "process_exited") \subseteq Decision
      BY <2>2, RestoresType DEF Reasons
    <3> QED BY <1>1, <1>2, <1>3, <2>1, <2>3, <3>1, <3>2 DEF TypeOK
  <2>5. TrackedOnlyWhileEngaged'
    BY <1>1, <2>1, <2>3 DEF TrackedOnlyWhileEngaged, on
  <2>6. HysteresisExact'
    BY <1>1, <1>2, <1>5, <2>1, ConfigFacts DEF HysteresisExact, on, cleared, TypeOK
  <2>7. NoOverdue'
    <3>1. SUFFICES ASSUME NEW p \in DOMAIN tracked'
                   PROVE  Elapsed(now', tracked'[p].since_secs) < config'.max_downgrade_secs
      BY DEF NoOverdue, Elapsed
    <3>2. p \in DOMAIN tracked /\ p \notin expired /\ tracked'[p] = tracked[p]
      BY <2>3
    <3>3. p \notin Expired(t)
      BY <3>2 DEF expired, on, TrackedOnlyWhileEngaged
    <3>4. tracked[p].since_secs \in Nat /\ t \in Nat
      BY <3>2, EngineAssumption DEF TypeOK, Tracked
    <3>5. ~(Elapsed(t, tracked[p].since_secs) >= config.max_downgrade_secs)
      BY <3>2, <3>3 DEF Expired
    <3>6. config.max_downgrade_secs \in Nat
      BY <1>1, ConfigFacts
    <3> QED BY <1>1, <3>2, <3>4, <3>5, <3>6 DEF Elapsed
  <2>8. DecisionsConsistent'
    <3>1. ASSUME NEW d \in decisions'
          PROVE  \/ /\ d \in Downgrades(lowered, samples)
                    /\ d.kind = "downgrade"
                    /\ d.pid \in lowered
                    /\ d.name = samples[d.pid].name
                 \/ /\ d \in Restores(expired, "timeout")
                    /\ d.kind = "restore"
                    /\ d.pid \in expired
                 \/ /\ d \in Restores(gone, "process_exited")
                    /\ d.kind = "restore"
                    /\ d.pid \in gone
      BY <2>1, <3>1 DEF Downgrades, Restores
    <3>2. ASSUME NEW d \in decisions', NEW e \in decisions', d.pid = e.pid
          PROVE  d = e
      BY <2>2, <3>1, <3>2 DEF Downgrades, Restores
    <3>3. ASSUME NEW d \in decisions'
          PROVE  /\ d.pid \notin DOMAIN tracked'
                 /\ d.kind = "downgrade" =>
                      engaged' /\ contention_ticks' > 0 /\ ~IsProtected(d.name, {})'
      <4>1. d.pid \notin DOMAIN tracked'
        BY <2>2, <2>3, <3>1
      <4>2. ASSUME d.kind = "downgrade"
            PROVE  engaged' /\ contention_ticks' > 0 /\ ~IsProtected(d.name, {})'
        <5>1. d.pid \in lowered /\ d.name = samples[d.pid].name
          BY <3>1, <4>2
        <5>2. on /\ contends /\ ~IsProtected(samples[d.pid].name, ruled)
          BY <5>1 DEF lowered, Candidates
        <5> QED BY <1>1, <1>2, <2>1, <5>1, <5>2 DEF IsProtected
      <4> QED BY <4>1, <4>2
    <3> QED BY <3>2, <3>3 DEF DecisionsConsistent
  <2> QED BY <2>4, <2>5, <2>6, <2>7, <2>8
<1> QED BY <1>4, <1>5

\* A tick, disabled or not.
LEMMA TickStep == IInv /\ Tick => IInv'
<1> SUFFICES ASSUME IInv, Tick PROVE IInv'
  OBVIOUS
<1>1. PICK t \in Times, fg_pid \in Pids \cup {NoPid}, samples \in Samples,
           ruled \in SUBSET Images, game_mode_active \in BOOLEAN :
        /\ TickWithGameMode(t, fg_pid, samples, ruled, game_mode_active)
        /\ now' = t
  BY DEF Tick
<1>2. call' = "tick" /\ UNCHANGED config
  BY <1>1 DEF Tick, TickWithGameMode
<1>3. CASE ~config.enabled
  <2>1. decisions' = {} /\ UNCHANGED <<config, engaged, contention_ticks, clear_ticks, tracked>>
    BY <1>1, <1>3 DEF TickWithGameMode
  <2> QED
    BY <1>1, <1>2, <1>3, <2>1
    DEF IInv, TypeOK, TrackedOnlyWhileEngaged, HysteresisExact, NoOverdue, DecisionsConsistent
<1>4. CASE config.enabled
  <2> DEFINE contends == Contention(fg_pid, samples, game_mode_active)
             ct == IF contends THEN Saturate(contention_ticks) ELSE 0
             cl == IF contends THEN 0 ELSE Saturate(clear_ticks)
  <2>1. contends \in BOOLEAN
    BY DEF Contention
  <2>2. Decide(contends, ct, cl, t, fg_pid, samples, ruled)
    BY <1>1, <1>4 DEF TickWithGameMode
  <2> HIDE DEF contends
  <2> QED BY <1>1, <1>2, <1>4, <2>1, <2>2, DecideStep
<1> QED BY <1>3, <1>4

\* mark_downgraded of one decision, or a decision that leaves no record.
LEMMA ExecuteStep == IInv /\ Execute => IInv'
<1> SUFFICES ASSUME IInv, Execute PROVE IInv'
  OBVIOUS
<1> USE DEF IInv
<1>1. PICK d \in decisions : Applied(d) \/ Dropped(d)
  BY DEF Execute
<1>2. decisions' = decisions \ {d} /\ now' = now /\ config' = config
      /\ UNCHANGED <<engaged, contention_ticks, clear_ticks>>
  BY <1>1 DEF Applied, Dropped, MarkDowngraded, engineVars
<1>3. CASE Dropped(d)
  BY <1>2, <1>3
  DEF Dropped, engineVars, TypeOK, TrackedOnlyWhileEngaged, HysteresisExact,
      NoOverdue, DecisionsConsistent, IsProtected
<1>4. CASE Applied(d)
  <2>1. PICK o \in Originals, t \in Times : MarkDowngraded(d, o, t)
    BY <1>4 DEF Applied
  <2>2. /\ d.kind = "downgrade" /\ call' = "mark_downgraded"
        /\ DOMAIN tracked' = DOMAIN tracked \cup {d.pid}
        /\ \A p \in DOMAIN tracked' :
             tracked'[p] = IF p = d.pid
                           THEN [name |-> d.name, originals |-> o, since_secs |-> t]
                           ELSE tracked[p]
    BY <1>4, <2>1 DEF Applied, MarkDowngraded
  <2>3. d.pid \in Pids /\ d.name \in Images /\ engaged
    BY <2>2 DEF TypeOK, Decision, DecisionsConsistent
  <2>4. TypeOK'
    BY <1>2, <2>2, <2>3 DEF TypeOK, Tracked
  <2>5. TrackedOnlyWhileEngaged' /\ HysteresisExact' /\ NoOverdue'
    BY <1>2, <2>2, <2>3
    DEF TrackedOnlyWhileEngaged, HysteresisExact, NoOverdue, TypeOK
  <2>6. DecisionsConsistent'
    BY <1>2, <2>2 DEF DecisionsConsistent, IsProtected
  <2> QED BY <2>4, <2>5, <2>6
<1> QED BY <1>1, <1>3, <1>4

\* Every method preserves the invariant.
LEMMA NextStep == IInv /\ [Next]_vars => IInv'
<1>1. IInv /\ UNCHANGED vars => IInv'
  BY DEF vars, engineVars, IInv, TypeOK, TrackedOnlyWhileEngaged,
         HysteresisExact, NoOverdue, DecisionsConsistent, IsProtected
<1> QED
  BY <1>1, ReloadStep, StopStep, TickStep, ExecuteStep DEF Next

\* The inductive invariant holds, however the methods are called.
THEOREM Invariance == Spec => []IInv
BY InitIInv, NextStep, PTL DEF Spec

-----------------------------------------------------------------------------
(***************************************************************************)
(* The properties the runs check, each a part of the inductive invariant.  *)
(***************************************************************************)

\* Every variable keeps its type, the tick counters saturate (engine.rs,
\* saturating_add) and nothing is recorded without originals to restore.
THEOREM TypeCorrect == Spec => []TypeOK
BY Invariance, PTL DEF IInv

\* Whatever sequence of ticks, edits and failed downgrades came before, an
\* engine that is disabled or idle holds no process.
THEOREM NothingHeldWhenIdle == Spec => []TrackedOnlyWhileEngaged
BY Invariance, PTL DEF IInv

\* The engine engages and lets go exactly at sustain_secs and
\* restore_after_secs, for every pair of thresholds and edits of them.
THEOREM HysteresisIsExact == Spec => []HysteresisExact
BY Invariance, PTL DEF IInv

\* No tick leaves an overdue downgrade behind, whatever the clock does.
THEOREM NothingForgotten == Spec => []NoOverdue
BY Invariance, PTL DEF IInv

\* One decision per process and call, and no downgrade of a process whose
\* originals are already recorded.
THEOREM DecisionsAreConsistent == Spec => []DecisionsConsistent
BY Invariance, PTL DEF IInv

-----------------------------------------------------------------------------
(***************************************************************************)
(* The engine implements PriorityLeases.  Only MarkDowngraded grants; a    *)
(* call returns the leases of the processes it gives up, and an executed   *)
(* restore settles one of them.                                            *)
(***************************************************************************)
HeldBy(trk) == [p \in DOMAIN trk |-> trk[p].originals]
OwedBy(dec) == {<<d.pid, d.originals>> : d \in {e \in dec : e.kind = "restore"}}

\* A call that drops the processes P from the tracking table and emits their
\* restore decisions, the last call's being executed, returns their leases.
LEMMA CallReturns ==
  ASSUME TypeOK, decisions = {}, NEW P \in SUBSET DOMAIN tracked,
         tracked' = [p \in DOMAIN tracked \ P |-> tracked[p]],
         OwedBy(decisions') = {<<p, tracked[p].originals>> : p \in P}
  PROVE  [Leases!Next]_(Leases!vars)
<1>1. OwedBy(decisions) = {}
  BY DEF OwedBy
<1>2. CASE P = {}
  <2>1. HeldBy(tracked') = HeldBy(tracked) /\ OwedBy(decisions') = OwedBy(decisions)
    BY <1>1, <1>2 DEF HeldBy
  <2> QED BY <2>1 DEF Leases!vars, HeldBy, OwedBy
<1>3. CASE P # {}
  <2>1. DOMAIN HeldBy(tracked) = DOMAIN tracked
    BY DEF HeldBy
  <2>2. HeldBy(tracked') = [q \in DOMAIN HeldBy(tracked) \ P |-> HeldBy(tracked)[q]]
    BY DEF HeldBy
  <2>3. OwedBy(decisions') = {<<p, HeldBy(tracked)[p]>> : p \in P}
    BY DEF HeldBy
  <2>4. Leases!Return(P)
    BY <1>1, <1>3, <2>2, <2>3 DEF Leases!Return, HeldBy, OwedBy
  <2> QED BY <2>1, <2>4 DEF Leases!Next, HeldBy
<1> QED BY <1>2, <1>3

\* What a batch of restore decisions owes.
LEMMA OwedByRestores ==
  ASSUME NEW P \in SUBSET DOMAIN tracked, NEW reason
  PROVE  OwedBy(Restores(P, reason)) = {<<p, tracked[p].originals>> : p \in P}
<1> DEFINE R(p) == [kind |-> "restore", pid |-> p, name |-> tracked[p].name,
                    originals |-> tracked[p].originals, reason |-> reason]
<1>1. Restores(P, reason) = {R(p) : p \in P}
  BY DEF Restores
<1>2. \A p \in P : /\ R(p).kind = "restore" /\ R(p).pid = p
                   /\ R(p).originals = tracked[p].originals
  OBVIOUS
<1> HIDE DEF R
<1>3. {e \in Restores(P, reason) : e.kind = "restore"} = {R(p) : p \in P}
  BY <1>1, <1>2
<1> QED BY <1>2, <1>3 DEF OwedBy

\* update_config returns every lease or none.
LEMMA ReloadReturns == IInv /\ Reload => [Leases!Next]_(Leases!vars)
<1> SUFFICES ASSUME IInv, Reload PROVE [Leases!Next]_(Leases!vars)
  OBVIOUS
<1>1. TypeOK /\ decisions = {}
  BY DEF IInv, Reload, Idle
<1>2. PICK c \in Configs : UpdateConfig(c)
  BY DEF Reload
<1>3. CASE config.enabled /\ ~c.enabled
  <2>1. /\ tracked' = [p \in DOMAIN tracked \ DOMAIN tracked |-> tracked[p]]
        /\ decisions' = Restores(DOMAIN tracked, "disabled")
    BY <1>2, <1>3 DEF UpdateConfig, TakeAll, Untrack
  <2> QED BY <1>1, <2>1, OwedByRestores, CallReturns
<1>4. CASE ~(config.enabled /\ ~c.enabled)
  <2>1. tracked' = tracked /\ decisions' = decisions
    BY <1>1, <1>2, <1>4 DEF UpdateConfig
  <2> QED BY <2>1 DEF Leases!vars
<1> QED BY <1>3, <1>4

\* shutdown returns every lease.
LEMMA StopReturns == IInv /\ Stop => [Leases!Next]_(Leases!vars)
<1> SUFFICES ASSUME IInv, Stop PROVE [Leases!Next]_(Leases!vars)
  OBVIOUS
<1>1. TypeOK /\ decisions = {}
  BY DEF IInv, Stop, Idle
<1>2. /\ tracked' = [p \in DOMAIN tracked \ DOMAIN tracked |-> tracked[p]]
      /\ decisions' = Restores(DOMAIN tracked, "shutdown")
  BY DEF Stop, Shutdown, TakeAll, Untrack
<1> QED BY <1>1, <1>2, OwedByRestores, CallReturns

\* A tick returns the leases of the expired and the departed processes.
LEMMA DecideReturns ==
  ASSUME IInv, decisions = {}, NEW contends, NEW ct, NEW cl, NEW t,
         NEW fg_pid, NEW samples, NEW ruled,
         Decide(contends, ct, cl, t, fg_pid, samples, ruled)
  PROVE  [Leases!Next]_(Leases!vars)
<1> DEFINE on      == engaged \/ ct >= config.sustain_secs
           cleared == on /\ cl >= config.restore_after_secs
           expired == IF on THEN Expired(t) ELSE {}
           gone    == (DOMAIN tracked \ expired) \ DOMAIN samples
           lowered == IF on /\ contends
                      THEN Downgrades(Candidates(fg_pid, samples, ruled), samples)
                      ELSE {}
<1>1. TypeOK
  BY DEF IInv
<1>2. CASE cleared
  <2>1. /\ tracked' = [p \in DOMAIN tracked \ DOMAIN tracked |-> tracked[p]]
        /\ decisions' = Restores(DOMAIN tracked, "contention_cleared")
    BY <1>2 DEF Decide, TakeAll, Untrack
  <2> QED BY <1>1, <2>1, OwedByRestores, CallReturns
<1>3. CASE ~cleared
  <2>1. /\ decisions' = lowered \cup Restores(expired, "timeout")
                                \cup Restores(gone, "process_exited")
        /\ tracked' = [p \in DOMAIN tracked \ (expired \cup gone) |-> tracked[p]]
    BY <1>3 DEF Decide, Untrack
  <2>2. expired \subseteq DOMAIN tracked /\ gone \subseteq DOMAIN tracked
    BY DEF Expired
  <2>3. \A d \in lowered : d.kind = "downgrade"
    BY DEF Downgrades
  <2> HIDE DEF expired, gone, lowered
  <2>4. OwedBy(decisions') =
          OwedBy(Restores(expired, "timeout"))
            \cup OwedBy(Restores(gone, "process_exited"))
    BY <2>1, <2>3 DEF OwedBy
  <2>5. OwedBy(decisions') = {<<p, tracked[p].originals>> : p \in expired \cup gone}
    BY <2>2, <2>4, OwedByRestores
  <2> QED BY <1>1, <2>1, <2>2, <2>5, CallReturns
<1> QED BY <1>2, <1>3

\* A tick, disabled or not, returns or keeps every lease.
LEMMA TickReturns == IInv /\ Tick => [Leases!Next]_(Leases!vars)
<1> SUFFICES ASSUME IInv, Tick PROVE [Leases!Next]_(Leases!vars)
  OBVIOUS
<1>1. decisions = {}
  BY DEF Tick, Idle
<1>2. PICK t \in Times, fg_pid \in Pids \cup {NoPid}, samples \in Samples,
           ruled \in SUBSET Images, game_mode_active \in BOOLEAN :
        TickWithGameMode(t, fg_pid, samples, ruled, game_mode_active)
  BY DEF Tick
<1>3. CASE ~config.enabled
  <2>1. tracked' = tracked /\ decisions' = decisions
    BY <1>1, <1>2, <1>3 DEF TickWithGameMode
  <2> QED BY <2>1 DEF Leases!vars
<1>4. CASE config.enabled
  BY <1>1, <1>2, <1>4, DecideReturns DEF TickWithGameMode
<1> QED BY <1>3, <1>4

\* An applied downgrade grants a lease on the originals the caller read; an
\* executed restore settles one; a downgrade given up changes nothing.
LEMMA ExecuteSettles == IInv /\ Execute => [Leases!Next]_(Leases!vars)
<1> SUFFICES ASSUME IInv, Execute PROVE [Leases!Next]_(Leases!vars)
  OBVIOUS
<1>1. PICK d \in decisions : Applied(d) \/ Dropped(d)
  BY DEF Execute
<1>2. /\ d \in Decision /\ decisions' = decisions \ {d}
      /\ \A e \in decisions : e.pid = d.pid => e = d
      /\ d.pid \notin DOMAIN tracked
  BY <1>1 DEF IInv, TypeOK, DecisionsConsistent, Applied, Dropped
<1>3. CASE d.kind = "restore"
  <2>1. d.pid \in Pids /\ d.originals \in Originals
    BY <1>2, <1>3 DEF Decision
  <2>2. tracked' = tracked
    BY <1>1, <1>3 DEF Applied, Dropped, engineVars
  <2>3. OwedBy(decisions') = OwedBy(decisions) \ {<<d.pid, d.originals>>}
    BY <1>2, <1>3 DEF OwedBy
  <2>4. <<d.pid, d.originals>> \in OwedBy(decisions)
    BY <1>3 DEF OwedBy
  <2>5. Leases!Settle(d.pid, d.originals)
    BY <2>2, <2>3, <2>4 DEF Leases!Settle, OwedBy
  <2> QED BY <2>1, <2>5 DEF Leases!Next
<1>4. CASE d.kind # "restore"
  <2>1. OwedBy(decisions') = OwedBy(decisions)
    BY <1>2, <1>4 DEF OwedBy
  <2>2. CASE Dropped(d)
    BY <2>1, <2>2 DEF Dropped, engineVars, Leases!vars, OwedBy
  <2>3. CASE Applied(d)
    <3>1. PICK o \in Originals, t \in Times : MarkDowngraded(d, o, t)
      BY <2>3 DEF Applied
    <3>2. HeldBy(tracked') =
            [q \in DOMAIN HeldBy(tracked) \cup {d.pid} |->
               IF q = d.pid THEN o ELSE HeldBy(tracked)[q]]
      BY <3>1 DEF MarkDowngraded, HeldBy
    <3>3. \A x \in Originals : <<d.pid, x>> \notin OwedBy(decisions)
      BY <1>2, <1>4 DEF OwedBy
    <3>4. Leases!Grant(d.pid, o)
      BY <1>2, <2>1, <3>2, <3>3 DEF Leases!Grant, Leases!Owing, HeldBy, OwedBy
    <3>5. d.pid \in Pids
      BY <1>2 DEF Decision
    <3> QED BY <3>4, <3>5 DEF Leases!Next
  <2> QED BY <1>1, <2>2, <2>3
<1> QED BY <1>3, <1>4

\* Every downgrade the engine records is a lease it keeps: the originals
\* read before the downgrade are the ones a later restore writes back.
THEOREM ImplementsLeases == Spec => LeasesKept
<1>1. Init => Leases!Init
  BY DEF Init, Leases!Init
<1>2. IInv /\ [Next]_vars => [Leases!Next]_(Leases!vars)
  <2>1. UNCHANGED vars => UNCHANGED Leases!vars
    BY DEF vars, engineVars, Leases!vars
  <2> QED BY <2>1, ReloadReturns, StopReturns, TickReturns, ExecuteSettles DEF Next
<1> QED BY <1>1, <1>2, Invariance, PTL DEF Spec, LeasesKept, Leases!Spec

\* What any implementation of PriorityLeases promises.
LEMMA PromiseOfLeases == Leases!Spec => [](Leases!TypeOK /\ Leases!OneLease)
<1> DEFINE H == [p \in DOMAIN tracked |-> tracked[p].originals]
           O == {<<d.pid, d.originals>> : d \in {e \in decisions : e.kind = "restore"}}
           LInv == Leases!TypeOK /\ Leases!OneLease
<1>1. Leases!Init => LInv
  BY DEF Leases!Init, Leases!TypeOK, Leases!OneLease, Leases!Owing
<1>2. LInv /\ [Leases!Next]_(Leases!vars) => LInv'
  <2> HIDE DEF H, O
  <2> SUFFICES ASSUME LInv, [Leases!Next]_(Leases!vars) PROVE LInv'
    OBVIOUS
  <2>0. /\ DOMAIN H \subseteq Pids /\ \A p \in DOMAIN H : H[p] \in Originals
        /\ O \subseteq Pids \X Originals
        /\ \A p \in DOMAIN H : \A o \in Originals : <<p, o>> \notin O
    BY DEF Leases!TypeOK, Leases!OneLease, Leases!Owing, H, O
  <2> SUFFICES /\ DOMAIN H' \subseteq Pids /\ \A p \in DOMAIN H' : H'[p] \in Originals
               /\ O' \subseteq Pids \X Originals
               /\ \A p \in DOMAIN H' : \A o \in Originals : <<p, o>> \notin O'
    BY DEF Leases!TypeOK, Leases!OneLease, Leases!Owing, H, O
  <2>1. ASSUME NEW p \in Pids, NEW o \in Originals, Leases!Grant(p, o)
        PROVE  /\ O' = O /\ H' = [q \in DOMAIN H \cup {p} |-> IF q = p THEN o ELSE H[q]]
               /\ \A x \in Originals : <<p, x>> \notin O
    BY <2>1 DEF Leases!Grant, Leases!Owing, H, O
  <2>2. ASSUME NEW p \in Pids, NEW o \in Originals, Leases!Settle(p, o)
        PROVE  H' = H /\ O' = O \ {<<p, o>>}
    BY <2>2 DEF Leases!Settle, H, O
  <2>3. ASSUME NEW S \in SUBSET DOMAIN H, Leases!Return(S)
        PROVE  H' = [q \in DOMAIN H \ S |-> H[q]] /\ O' = {<<p, H[p]>> : p \in S}
    BY <2>3 DEF Leases!Return, H, O
  <2>4. CASE \E p \in Pids, o \in Originals : Leases!Grant(p, o)
    <3>1. PICK p \in Pids, o \in Originals : Leases!Grant(p, o)
      BY <2>4
    <3>2. /\ O' = O /\ H' = [q \in DOMAIN H \cup {p} |-> IF q = p THEN o ELSE H[q]]
          /\ \A x \in Originals : <<p, x>> \notin O
      BY <2>1, <3>1
    <3>3. DOMAIN H' = DOMAIN H \cup {p}
      BY <3>2
    <3>4. \A q \in DOMAIN H' : H'[q] = IF q = p THEN o ELSE H[q]
      BY <3>2
    <3> QED BY <2>0, <3>2, <3>3, <3>4
  <2>5. CASE \E p \in Pids, o \in Originals : Leases!Settle(p, o)
    BY <2>0, <2>2, <2>5
  <2>6. CASE \E S \in SUBSET DOMAIN H : Leases!Return(S)
    <3>1. PICK S \in SUBSET DOMAIN H : Leases!Return(S)
      BY <2>6
    <3>2. H' = [q \in DOMAIN H \ S |-> H[q]] /\ O' = {<<p, H[p]>> : p \in S}
      BY <2>3, <3>1
    <3>3. DOMAIN H' = DOMAIN H \ S /\ \A q \in DOMAIN H' : H'[q] = H[q]
      BY <3>2
    <3>4. O' \subseteq Pids \X Originals
      BY <2>0, <3>2
    <3>5. ASSUME NEW p \in DOMAIN H', NEW o \in Originals PROVE <<p, o>> \notin O'
      BY <3>2, <3>3
    <3> QED BY <2>0, <3>3, <3>4, <3>5
  <2>7. CASE UNCHANGED Leases!vars
    <3>1. H' = H /\ O' = O
      BY <2>7 DEF Leases!vars, H, O
    <3> QED BY <2>0, <3>1
  <2> QED BY <2>4, <2>5, <2>6, <2>7 DEF Leases!Next, H
<1> QED BY <1>1, <1>2, PTL DEF Leases!Spec

\* A process the engine tracks is never one it has just asked to restore: the
\* two writes would race, and the lowered value could be the last.
THEOREM LeasesAreUnique == Spec => []Leases!OneLease
BY ImplementsLeases, PromiseOfLeases, PTL DEF LeasesKept

=============================================================================
