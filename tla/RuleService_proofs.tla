-------------------------- MODULE RuleService_proofs --------------------------
(***************************************************************************)
(* Proofs about the service: about its ProBalance half, for every set of   *)
(* processes, images, configurations and readings, and about what its two  *)
(* writers keep together, for every rule file and every period; always for *)
(* every set of faults a theorem does not exclude by name.                 *)
(***************************************************************************)
EXTENDS RuleService, TLAPS, WellFoundedInduction

\* The engine's own theorems, about the engine this service runs.
Core == INSTANCE ProBalanceEngine_proofs WITH Originals <- Priorities

LEMMA CoreAssumption == Core!EngineAssumption
BY ServiceAssumption
DEF Engine!EngineAssumption, Core!EngineAssumption, Engine!ConfigType, Core!ConfigType

LEMMA SameTick == Core!Tick <=> Engine!Tick
BY DEF Engine!Tick, Core!Tick, Engine!Idle, Core!Idle, Engine!Samples,
  Core!Samples, Engine!TickWithGameMode, Core!TickWithGameMode, Engine!Decide,
  Core!Decide, Engine!Contention, Core!Contention, Engine!ResetCounters,
  Core!ResetCounters, Engine!TakeAll, Core!TakeAll, Engine!Restores,
  Core!Restores, Engine!Untrack, Core!Untrack, Engine!Downgrades,
  Core!Downgrades, Engine!Candidates, Core!Candidates, Engine!IsProtected,
  Core!IsProtected, Engine!Expired, Core!Expired, Engine!Elapsed, Core!Elapsed,
  Engine!Saturate, Core!Saturate

LEMMA SameCalls ==
  /\ Core!Reload <=> Engine!Reload
  /\ Core!Stop <=> Engine!Stop
BY DEF Engine!Reload, Core!Reload, Engine!Stop, Core!Stop, Engine!Idle,
  Core!Idle, Engine!UpdateConfig, Core!UpdateConfig, Engine!Shutdown,
  Core!Shutdown, Engine!ResetCounters, Core!ResetCounters, Engine!TakeAll,
  Core!TakeAll, Engine!Restores, Core!Restores, Engine!Untrack, Core!Untrack

LEMMA SameExecute == Core!Execute <=> Engine!Execute
BY DEF Engine!Execute, Core!Execute, Engine!Applied, Core!Applied,
  Engine!Dropped, Core!Dropped, Engine!MarkDowngraded, Core!MarkDowngraded,
  Engine!engineVars, Core!engineVars

LEMMA SameType == Core!TypeOK <=> Engine!TypeOK
BY DEF Engine!TypeOK, Core!TypeOK, Engine!Decision, Core!Decision,
  Engine!Tracked, Core!Tracked, Engine!Reasons, Core!Reasons

LEMMA SameSafety ==
  Core!IInv => /\ Engine!TypeOK
               /\ Engine!TrackedOnlyWhileEngaged
               /\ Engine!HysteresisExact
               /\ Engine!NoOverdue
               /\ Engine!DecisionsConsistent
BY SameType
DEF Core!IInv, Engine!TrackedOnlyWhileEngaged, Core!TrackedOnlyWhileEngaged,
  Engine!HysteresisExact, Core!HysteresisExact, Engine!NoOverdue,
  Core!NoOverdue, Engine!Elapsed, Core!Elapsed, Engine!DecisionsConsistent,
  Core!DecisionsConsistent, Engine!IsProtected, Core!IsProtected

-----------------------------------------------------------------------------
(* The runtime calls the engine as the engine expects *)

LEMMA ReloadCalls ==
  ASSUME RuntimeTypeOK, Reload PROVE [Core!Next]_(Core!vars)
<1>1. CASE Engine!UpdateConfig(file) /\ call' = "update_config"
  <2>1. file \in Configs
    BY DEF RuntimeTypeOK
  <2>2. Engine!Reload
    BY <1>1, <2>1 DEF Reload, ReloadDue, Idle, Engine!Reload, Engine!Idle
  <2> QED BY <2>2, SameCalls DEF Core!Next
<1>2. CASE UNCHANGED <<engineState, decisions, call>>
  BY <1>2 DEF Reload, Core!vars, Core!engineVars, engineState
<1> QED BY <1>1, <1>2 DEF Reload

LEMMA DisabledTickCalls ==
  ASSUME RuntimeTypeOK, DisabledTick PROVE Core!Tick
<1>1. now \in Times
  BY DEF RuntimeTypeOK, Engine!TypeOK
<1>2. [p \in {} |-> 0] \in Engine!Samples
  <2>1. [p \in {} |-> 0] \in [{} -> [name : Images, cpu_percent : CpuLevels]]
    OBVIOUS
  <2> QED BY <2>1 DEF Engine!Samples
<1>3. Engine!TickWithGameMode(now, NoPid, [p \in {} |-> 0], {}, FALSE)
  BY DEF DisabledTick, Idle, Engine!TickWithGameMode, engineState
<1>4. now' = now /\ Engine!Idle /\ call' = "tick"
  BY DEF DisabledTick, Idle, Engine!Idle
<1>5. Engine!Tick
  BY <1>1, <1>2, <1>3, <1>4 DEF Engine!Tick
<1> QED BY <1>5, SameTick

\* What one round saw: live processes under their names, all of them unless
\* the sampler fails; and what the tick made of it.
LEMMA TickRound ==
  ASSUME RuntimeTypeOK, NEW ruled, TickWith(ruled)
  PROVE  \E t \in Times, fg_pid \in Pids \cup {NoPid},
            samples \in Engine!Samples, active \in BOOLEAN :
           /\ \A p \in DOMAIN samples :
                Live(p) /\ samples[p].name = procs[p].name
           /\ "sampler" \notin Faults =>
                \A p \in Pids : Live(p) => p \in DOMAIN samples
           /\ active => config.game_mode_enabled /\ Live(fg_pid)
           /\ TickOn(ruled, t, fg_pid, samples, active)
<1>1. PICK P \in Seen, t \in Times, fullscreen \in BOOLEAN,
           fg_pid \in {p \in Pids : Live(p)} \cup {NoPid} :
        \E cpu \in [P -> CpuLevels] :
          TickOn(ruled, t, fg_pid, Sampled(P, cpu),
                 config.game_mode_enabled /\ fullscreen /\ fg_pid # NoPid)
  BY DEF TickWith
<1>2. PICK cpu \in [P -> CpuLevels] :
          TickOn(ruled, t, fg_pid, Sampled(P, cpu),
                 config.game_mode_enabled /\ fullscreen /\ fg_pid # NoPid)
  BY <1>1
<1> DEFINE active  == config.game_mode_enabled /\ fullscreen /\ fg_pid # NoPid
           samples == Sampled(P, cpu)
<1>3. /\ P \subseteq {p \in Pids : Live(p)}
      /\ "sampler" \notin Faults => P = {p \in Pids : Live(p)}
  BY DEF Seen
<1>4. \A p \in P : procs[p].name \in Images
  BY <1>3 DEF Live, RuntimeTypeOK, Process
<1>5. samples \in Engine!Samples
  <2>1. samples \in [P -> [name : Images, cpu_percent : CpuLevels]]
    BY <1>4 DEF Sampled
  <2> QED BY <1>3, <2>1 DEF Engine!Samples
<1>6. /\ DOMAIN samples = P
      /\ \A p \in P : samples[p].name = procs[p].name
  BY DEF Sampled
<1>7. /\ active \in BOOLEAN
      /\ active => config.game_mode_enabled /\ Live(fg_pid)
  BY DEF RuntimeTypeOK, Engine!TypeOK
<1> HIDE DEF samples, active
<1>8. TickOn(ruled, t, fg_pid, samples, active)
  BY <1>2 DEF samples, active
<1> QED BY <1>3, <1>5, <1>6, <1>7, <1>8

LEMMA TickCalls ==
  ASSUME RuntimeTypeOK, NEW ruled \in SUBSET Images, TickWith(ruled)
  PROVE  Core!Tick
<1>1. PICK t \in Times, fg_pid \in Pids \cup {NoPid},
           samples \in Engine!Samples, active \in BOOLEAN :
        /\ active => config.game_mode_enabled
        /\ TickOn(ruled, t, fg_pid, samples, active)
  BY TickRound
<1>2. Engine!Idle /\ call' = "tick"
  BY DEF TickWith, Idle, Engine!Idle
<1>3. Engine!Tick
  BY <1>1, <1>2 DEF TickOn, Engine!Tick
<1> QED BY <1>3, SameTick

LEMMA StopCalls == Stop => Core!Stop
BY SameCalls DEF Stop, Idle, Engine!Stop, Engine!Idle

LEMMA ExecuteCalls ==
  ASSUME RuntimeTypeOK, Execute PROVE [Core!Next]_(Core!vars)
<1>1. PICK d \in decisions :
        /\ decisions' = decisions \ {d}
        /\ \/ d.kind = "downgrade" /\ Downgrade(d)
           \/ d.kind = "restore" /\ Restore(d)
  BY DEF Execute
<1>2. now' = now
  BY DEF Execute
<1>3. CASE UNCHANGED <<engineState, call>>
  <2>1. Engine!Dropped(d)
    BY <1>1, <1>2, <1>3
    DEF Engine!Dropped, Engine!engineVars, engineState
  <2> QED BY <2>1, SameExecute DEF Engine!Execute, Core!Next
<1>4. CASE d.kind = "downgrade" /\ ~UNCHANGED <<engineState, call>>
  <2>1. /\ \E t \in Times : Engine!MarkDowngraded(d, Read(d.pid), t)
        /\ call' = "mark_downgraded"
        /\ Live(d.pid)
    BY <1>1, <1>4 DEF Downgrade
  <2>2. Read(d.pid) \in Priorities
    BY <2>1 DEF Read, Live, RuntimeTypeOK, Process, Priorities
  <2>3. Engine!Applied(d)
    BY <1>1, <1>2, <1>4, <2>1, <2>2 DEF Engine!Applied
  <2> QED BY <2>3, SameExecute DEF Engine!Execute, Core!Next
<1> QED BY <1>1, <1>3, <1>4 DEF Restore

-----------------------------------------------------------------------------
(* What one step does to the records *)

ProcessTable == [Pids -> Process \cup {Absent}]

\* What a call leaves in the tracking table is untouched; what it takes out
\* comes back as a restore decision with the same name and originals, for a
\* process that has ended only when a sample has missed it; and what it asks
\* to be lowered runs and is not tracked.
HandsOver ==
  /\ decisions = {}
  /\ DOMAIN tracked' \subseteq DOMAIN tracked
  /\ \A p \in DOMAIN tracked' : tracked'[p] = tracked[p]
  /\ \A p \in DOMAIN tracked \ DOMAIN tracked' :
       \E d \in decisions' :
         /\ d.kind = "restore" /\ d.pid = p
         /\ d.reason = "process_exited" => ~Live(p) \/ "sampler" \in Faults
  /\ \A d \in decisions' :
       \/ /\ d.kind = "restore"
          /\ d.pid \in DOMAIN tracked \ DOMAIN tracked'
          /\ d.name = tracked[d.pid].name
          /\ d.originals = tracked[d.pid].originals
       \/ /\ d.kind = "downgrade"
          /\ d.pid \notin DOMAIN tracked
          /\ Live(d.pid) /\ d.name = procs[d.pid].name

\* Handing back everything.
LEMMA TakeAllHandsOver ==
  ASSUME decisions = {}, NEW reason, reason # "process_exited",
         Engine!TakeAll(reason)
  PROVE  HandsOver
<1>1. DOMAIN tracked' = {} /\ decisions' = Engine!Restores(DOMAIN tracked, reason)
  BY DEF Engine!TakeAll, Engine!Untrack
<1>2. ASSUME NEW p \in DOMAIN tracked
      PROVE  \E d \in decisions' : d.kind = "restore" /\ d.pid = p /\ d.reason = reason
  <2>1. [kind |-> "restore", pid |-> p, name |-> tracked[p].name,
         originals |-> tracked[p].originals, reason |-> reason] \in decisions'
    BY <1>1 DEF Engine!Restores
  <2> QED BY <2>1
<1>3. ASSUME NEW d \in decisions'
      PROVE  /\ d.kind = "restore" /\ d.pid \in DOMAIN tracked
             /\ d.name = tracked[d.pid].name
             /\ d.originals = tracked[d.pid].originals
  BY <1>1, <1>3 DEF Engine!Restores
<1> QED BY <1>1, <1>2, <1>3 DEF HandsOver

LEMMA NothingHandedOver ==
  ASSUME decisions = {}, decisions' = {}, UNCHANGED tracked PROVE HandsOver
BY DEF HandsOver

LEMMA ReloadHandsOver == Reload => HandsOver
<1> SUFFICES ASSUME Reload PROVE HandsOver
  OBVIOUS
<1>1. decisions = {}
  BY DEF Reload, Idle
<1>2. CASE UNCHANGED <<engineState, decisions, call>>
  BY <1>1, <1>2, NothingHandedOver DEF engineState
<1>3. CASE Engine!UpdateConfig(file)
  BY <1>1, <1>3, NothingHandedOver, TakeAllHandsOver DEF Engine!UpdateConfig
<1> QED BY <1>2, <1>3 DEF Reload

LEMMA StopHandsOver == Stop => HandsOver
BY TakeAllHandsOver DEF Stop, Idle, Engine!Shutdown

LEMMA DisabledTickHandsOver == DisabledTick => HandsOver
BY NothingHandedOver DEF DisabledTick, Idle, engineState

\* A decision tick: what it takes out is overdue, or no sample shows it.
LEMMA DecideHandsOver ==
  ASSUME decisions = {}, NEW contends, NEW ct, NEW cl, NEW t, NEW fg_pid,
         NEW samples, NEW ruled,
         \A p \in DOMAIN samples : Live(p) /\ samples[p].name = procs[p].name,
         "sampler" \notin Faults =>
           \A p \in Pids : Live(p) => p \in DOMAIN samples,
         Engine!Decide(contends, ct, cl, t, fg_pid, samples, ruled)
  PROVE  /\ HandsOver
         /\ \A d \in decisions' : d.kind = "downgrade" => d.pid # fg_pid
<1> DEFINE on      == engaged \/ ct >= config.sustain_secs
           cleared == on /\ cl >= config.restore_after_secs
           expired == IF on THEN Engine!Expired(t) ELSE {}
           gone    == (DOMAIN tracked \ expired) \ DOMAIN samples
           lowered == IF on /\ contends
                      THEN Engine!Candidates(fg_pid, samples, ruled) ELSE {}
<1>1. CASE cleared
  <2>1. Engine!TakeAll("contention_cleared")
    BY <1>1 DEF Engine!Decide
  <2>2. \A d \in decisions' : d.kind = "restore"
    BY <2>1 DEF Engine!TakeAll, Engine!Restores
  <2> QED BY <2>1, <2>2, TakeAllHandsOver
<1>2. CASE ~cleared
  <2>1. /\ decisions' = Engine!Downgrades(lowered, samples)
                          \cup Engine!Restores(expired, "timeout")
                          \cup Engine!Restores(gone, "process_exited")
        /\ tracked' = [p \in DOMAIN tracked \ (expired \cup gone) |-> tracked[p]]
    <3>1. CASE on /\ contends
      BY <1>2, <3>1 DEF Engine!Decide, Engine!Untrack
    <3>2. CASE ~(on /\ contends)
      <4>1. Engine!Downgrades(lowered, samples) = {}
        BY <3>2 DEF Engine!Downgrades
      <4> QED BY <1>2, <3>2, <4>1 DEF Engine!Decide, Engine!Untrack
    <3> QED BY <3>1, <3>2
  <2>2. /\ expired \subseteq DOMAIN tracked
        /\ gone \subseteq DOMAIN tracked
        /\ gone \cap DOMAIN samples = {}
        /\ \A p \in lowered : p \in DOMAIN samples /\ p \notin DOMAIN tracked
                              /\ p # fg_pid
    BY DEF Engine!Expired, Engine!Candidates
  <2> HIDE DEF on, cleared, expired, gone, lowered
  <2>3. /\ DOMAIN tracked' = DOMAIN tracked \ (expired \cup gone)
        /\ \A p \in DOMAIN tracked' : tracked'[p] = tracked[p]
    BY <2>1
  <2>4. ASSUME NEW d \in decisions'
        PROVE  \/ /\ d.kind = "restore"
                  /\ d.pid \in expired \cup gone
                  /\ d.name = tracked[d.pid].name
                  /\ d.originals = tracked[d.pid].originals
               \/ /\ d.kind = "downgrade"
                  /\ d.pid \in lowered /\ d.name = samples[d.pid].name
    BY <2>1, <2>4 DEF Engine!Downgrades, Engine!Restores
  <2>5. ASSUME NEW p \in DOMAIN tracked \ DOMAIN tracked'
        PROVE  \E d \in decisions' :
                 /\ d.kind = "restore" /\ d.pid = p
                 /\ d.reason = "process_exited" =>
                      ~Live(p) \/ "sampler" \in Faults
    <3>1. CASE p \in expired
      <4>1. [kind |-> "restore", pid |-> p, name |-> tracked[p].name,
             originals |-> tracked[p].originals, reason |-> "timeout"]
              \in decisions'
        BY <2>1, <3>1 DEF Engine!Restores
      <4> QED BY <4>1
    <3>2. CASE p \in gone
      <4>1. [kind |-> "restore", pid |-> p, name |-> tracked[p].name,
             originals |-> tracked[p].originals, reason |-> "process_exited"]
              \in decisions'
        BY <2>1, <3>2 DEF Engine!Restores
      <4>2. ~Live(p) \/ "sampler" \in Faults
        BY <2>2, <3>2 DEF Live
      <4> QED BY <4>1, <4>2
    <3> QED BY <2>3, <3>1, <3>2
  <2>6. HandsOver
    BY <2>2, <2>3, <2>4, <2>5 DEF HandsOver
  <2> QED BY <2>2, <2>4, <2>6
<1> QED BY <1>1, <1>2

\* A tick also settles the boost: it is on the foreground process, which is
\* not asked to be lowered and, unless the two overlap, not tracked.
LEMMA TickHandsOver ==
  ASSUME RuntimeTypeOK, NEW ruled, TickWith(ruled)
  PROVE  /\ HandsOver
         /\ \E active \in BOOLEAN, fg_pid \in Pids \cup {NoPid} :
              /\ active => Live(fg_pid)
              /\ active /\ fg_pid \in DOMAIN tracked => "overlap" \in Faults
              /\ ReconcileGameBoost(active, fg_pid)
              /\ \A d \in decisions' : d.kind = "downgrade" => d.pid # fg_pid
<1>1. PICK t \in Times, fg_pid \in Pids \cup {NoPid},
           samples \in Engine!Samples, active \in BOOLEAN :
           /\ \A p \in DOMAIN samples :
                Live(p) /\ samples[p].name = procs[p].name
           /\ "sampler" \notin Faults =>
                \A p \in Pids : Live(p) => p \in DOMAIN samples
           /\ active => config.game_mode_enabled /\ Live(fg_pid)
           /\ TickOn(ruled, t, fg_pid, samples, active)
  BY TickRound
<1>2. decisions = {} /\ config.enabled
  BY DEF TickWith, Idle
<1>3. PICK contends, ct, cl :
        Engine!Decide(contends, ct, cl, t, fg_pid, samples, ruled)
  BY <1>1, <1>2 DEF TickOn, Engine!TickWithGameMode
<1>4. /\ HandsOver
      /\ \A d \in decisions' : d.kind = "downgrade" => d.pid # fg_pid
  BY <1>1, <1>2, <1>3, DecideHandsOver
<1> QED BY <1>1, <1>4 DEF TickOn

-----------------------------------------------------------------------------
(* What one step does to the processes *)

\* The process under p before the step is the one under it afterwards.
SameLife(p) ==
  /\ procs'[p] = Absent <=> procs[p] = Absent
  /\ procs[p] # Absent => /\ procs'[p].name = procs[p].name
                          /\ procs'[p].home = procs[p].home

LEMMA ProcessFacts ==
  ASSUME RuntimeTypeOK, NEW p, Live(p)
  PROVE  /\ p \in Pids /\ procs[p] \in Process /\ procs[p] # Absent
         /\ procs[p].name \in Images
         /\ procs[p].home \in Priorities /\ Read(p) \in Priorities
BY DEF Live, RuntimeTypeOK, Process, Priorities, Read

LEMMA BoostFacts ==
  ASSUME RuntimeTypeOK, game_boost # None
  PROVE  /\ game_boost \in Boost /\ game_boost.pid \in Pids
         /\ game_boost.original_priority \in 0..5
BY DEF RuntimeTypeOK, Boost

\* The process table after a boost has been taken back.
LEMMA BoostRestoredFacts ==
  ASSUME RuntimeTypeOK, NEW ok \in BOOLEAN
  PROVE  /\ BoostRestored(ok) \in ProcessTable
         /\ \A p \in Pids :
              BoostRestored(ok)[p] =
                IF ok /\ game_boost # None /\ p = game_boost.pid
                     /\ SameProcess(p, game_boost.name)
                THEN [procs[p] EXCEPT !.class = game_boost.original_priority]
                ELSE procs[p]
<1>1. procs \in ProcessTable
  BY DEF RuntimeTypeOK, ProcessTable
<1>2. CASE ok /\ game_boost # None /\ SameProcess(game_boost.pid, game_boost.name)
  <2> DEFINE b == game_boost.pid
             r == [procs[b] EXCEPT !.class = game_boost.original_priority]
  <2>1. b \in Pids /\ game_boost.original_priority \in 0..5
    BY <1>2, BoostFacts
  <2>2. procs[b] \in Process
    BY <1>2, ProcessFacts DEF SameProcess
  <2>3. r \in Process
    BY <2>1, <2>2 DEF Process
  <2>4. BoostRestored(ok) = [procs EXCEPT ![b] = r]
    BY <1>2 DEF BoostRestored
  <2> HIDE DEF r
  <2>5. /\ BoostRestored(ok) \in ProcessTable
        /\ \A p \in Pids : BoostRestored(ok)[p] = IF p = b THEN r ELSE procs[p]
    BY <1>1, <2>1, <2>3, <2>4 DEF ProcessTable
  <2> QED BY <1>2, <2>5 DEF r
<1>3. CASE ~(ok /\ game_boost # None /\ SameProcess(game_boost.pid, game_boost.name))
  BY <1>1, <1>3 DEF BoostRestored
<1> QED BY <1>2, <1>3

\* Taking a boost back touches the class of the boosted process only.
LEMMA BoostRestoredLife ==
  ASSUME RuntimeTypeOK, NEW ok \in BOOLEAN, NEW p \in Pids
  PROVE  /\ BoostRestored(ok)[p] = Absent <=> procs[p] = Absent
         /\ procs[p] # Absent =>
              /\ BoostRestored(ok)[p] \in Process
              /\ BoostRestored(ok)[p].name = procs[p].name
              /\ BoostRestored(ok)[p].home = procs[p].home
              /\ BoostRestored(ok)[p].io = procs[p].io
              /\ BoostRestored(ok)[p].class =
                   IF ok /\ game_boost # None /\ p = game_boost.pid
                        /\ game_boost.name = procs[p].name
                   THEN game_boost.original_priority ELSE procs[p].class
<1>1. CASE procs[p] = Absent
  BY <1>1, BoostRestoredFacts DEF SameProcess, Live
<1>2. CASE procs[p] # Absent
  <2>1. procs[p] \in Process
    BY <1>2 DEF RuntimeTypeOK
  <2>2. BoostRestored(ok)[p] =
          IF ok /\ game_boost # None /\ p = game_boost.pid /\ game_boost.name = procs[p].name
          THEN [procs[p] EXCEPT !.class = game_boost.original_priority]
          ELSE procs[p]
    BY <1>2, BoostRestoredFacts DEF SameProcess, Live
  <2>3. game_boost # None => game_boost.original_priority \in 0..5
    BY BoostFacts
  <2>4. BoostRestored(ok)[p] \in Process
    BY <2>1, <2>2, <2>3 DEF Process
  <2> QED BY <1>2, <2>1, <2>2, <2>4, ServiceAssumption DEF Process
<1> QED BY <1>1, <1>2

\* A boost is kept or taken back, or given to the foreground process after
\* the last one has been taken back.
LEMMA ReconcileEffect ==
  ASSUME RuntimeTypeOK, NEW active \in BOOLEAN, NEW fg_pid,
         active => Live(fg_pid), ReconcileGameBoost(active, fg_pid)
  PROVE  /\ procs' \in ProcessTable
         /\ game_boost' \in Boost \cup {None}
         /\ game_boost' # None => active /\ game_boost'.pid = fg_pid
         /\ \E ok \in Outcomes :
              \/ UNCHANGED <<procs, game_boost>>
              \/ procs' = BoostRestored(ok) /\ game_boost' = None
              \/ /\ fg_pid \in Pids /\ procs[fg_pid] # Absent
                 /\ BoostRestored(ok)[fg_pid].class < ABOVE_NORMAL
                 /\ procs' = [BoostRestored(ok) EXCEPT ![fg_pid].class = ABOVE_NORMAL]
                 /\ game_boost' # None
                 /\ game_boost'.name = procs[fg_pid].name
                 /\ game_boost'.original_priority = BoostRestored(ok)[fg_pid].class
<1> DEFINE over == game_boost # None /\ (~active \/ game_boost.pid # fg_pid)
           after(ok) == IF over THEN BoostRestored(ok) ELSE procs
           raises(ok) == /\ active
                         /\ over \/ game_boost = None
                         /\ Live(fg_pid)
                         /\ after(ok)[fg_pid].class < ABOVE_NORMAL
<1>4. PICK ok \in Outcomes :
        \/ /\ raises(ok)
           /\ procs' = [after(ok) EXCEPT ![fg_pid].class = ABOVE_NORMAL]
           /\ game_boost' = [pid |-> fg_pid, name |-> after(ok)[fg_pid].name,
                             original_priority |-> after(ok)[fg_pid].class]
        \/ /\ procs' = after(ok)
           /\ game_boost' = IF over THEN None ELSE game_boost
  BY DEF ReconcileGameBoost
<1>5. ok \in BOOLEAN
  BY DEF Outcomes
<1>1. procs \in ProcessTable /\ BoostRestored(ok) \in ProcessTable
      /\ game_boost \in Boost \cup {None}
  BY <1>5, BoostRestoredFacts DEF RuntimeTypeOK, ProcessTable
<1>2. CASE /\ raises(ok)
           /\ procs' = [after(ok) EXCEPT ![fg_pid].class = ABOVE_NORMAL]
           /\ game_boost' = [pid |-> fg_pid, name |-> after(ok)[fg_pid].name,
                             original_priority |-> after(ok)[fg_pid].class]
  <2>1. after(ok) = BoostRestored(ok)
    BY <1>2 DEF BoostRestored
  <2>2. fg_pid \in Pids /\ procs[fg_pid] # Absent
    BY <1>2 DEF Live
  <2>3. BoostRestored(ok)[fg_pid] \in Process
        /\ BoostRestored(ok)[fg_pid].name = procs[fg_pid].name
    BY <1>5, <2>2, BoostRestoredLife
  <2>4. /\ BoostRestored(ok)[fg_pid].class < ABOVE_NORMAL
        /\ procs' = [BoostRestored(ok) EXCEPT ![fg_pid].class = ABOVE_NORMAL]
        /\ game_boost' = [pid |-> fg_pid, name |-> BoostRestored(ok)[fg_pid].name,
                          original_priority |-> BoostRestored(ok)[fg_pid].class]
    BY <1>2, <2>1
  <2>5. [BoostRestored(ok)[fg_pid] EXCEPT !.class = ABOVE_NORMAL] \in Process
    BY <2>3 DEF Process, ABOVE_NORMAL
  <2>6. procs' \in ProcessTable
    BY <1>1, <2>2, <2>4, <2>5 DEF ProcessTable
  <2>7. game_boost' \in Boost
    BY <2>2, <2>3, <2>4 DEF Process, Boost
  <2>8. game_boost' # None
    BY <2>7, ServiceAssumption
  <2>9. /\ active /\ game_boost'.pid = fg_pid
        /\ game_boost'.name = procs[fg_pid].name
        /\ game_boost'.original_priority = BoostRestored(ok)[fg_pid].class
    BY <1>2, <2>3, <2>4
  <2> QED BY <2>2, <2>4, <2>6, <2>7, <2>8, <2>9
<1>3. CASE /\ procs' = after(ok)
           /\ game_boost' = IF over THEN None ELSE game_boost
  BY <1>1, <1>3
<1> QED BY <1>2, <1>3, <1>4

\* The same for one process: it keeps what it is and its io priority, and
\* unless it is the one that is boosted it keeps its class or has it back.
LEMMA ReconcileLife ==
  ASSUME RuntimeTypeOK, NEW active \in BOOLEAN, NEW fg_pid,
         active => Live(fg_pid), ReconcileGameBoost(active, fg_pid),
         NEW p \in Pids
  PROVE  /\ SameLife(p)
         /\ procs[p] # Absent => procs'[p].io = procs[p].io
         /\ \E ok \in Outcomes :
              \/ UNCHANGED <<procs, game_boost>>
              \/ /\ procs'[p] = BoostRestored(ok)[p]
                 /\ game_boost' = None \/ game_boost'.pid # p
              \/ /\ active /\ p = fg_pid /\ procs[p] # Absent
                 /\ procs'[p].class = ABOVE_NORMAL
                 /\ BoostRestored(ok)[p].class < ABOVE_NORMAL
                 /\ game_boost' # None /\ game_boost'.pid = p
                 /\ game_boost'.name = procs[p].name
                 /\ game_boost'.original_priority = BoostRestored(ok)[p].class
<1>4. PICK ok \in Outcomes :
        /\ game_boost' # None => active /\ game_boost'.pid = fg_pid
        /\ \/ UNCHANGED <<procs, game_boost>>
           \/ procs' = BoostRestored(ok) /\ game_boost' = None
           \/ /\ fg_pid \in Pids /\ procs[fg_pid] # Absent
              /\ BoostRestored(ok)[fg_pid].class < ABOVE_NORMAL
              /\ procs' = [BoostRestored(ok) EXCEPT ![fg_pid].class = ABOVE_NORMAL]
              /\ game_boost' # None
              /\ game_boost'.name = procs[fg_pid].name
              /\ game_boost'.original_priority = BoostRestored(ok)[fg_pid].class
  BY ReconcileEffect
<1>5. ok \in BOOLEAN
  BY DEF Outcomes
<1>1. CASE UNCHANGED <<procs, game_boost>>
  BY <1>1 DEF SameLife
<1>2. CASE procs' = BoostRestored(ok) /\ game_boost' = None
  BY <1>2, <1>5, BoostRestoredLife DEF SameLife
<1>3. CASE /\ fg_pid \in Pids /\ procs[fg_pid] # Absent
           /\ BoostRestored(ok)[fg_pid].class < ABOVE_NORMAL
           /\ procs' = [BoostRestored(ok) EXCEPT ![fg_pid].class = ABOVE_NORMAL]
           /\ game_boost' # None
           /\ game_boost'.name = procs[fg_pid].name
           /\ game_boost'.original_priority = BoostRestored(ok)[fg_pid].class
  <2>1. game_boost'.pid = fg_pid /\ active
    BY <1>3, <1>4
  <2>2. BoostRestored(ok) \in ProcessTable
    BY <1>5, BoostRestoredFacts
  <2>3. CASE p # fg_pid
    <3>1. procs'[p] = BoostRestored(ok)[p]
      BY <1>3, <2>2, <2>3 DEF ProcessTable
    <3> QED BY <1>5, <2>1, <2>3, <3>1, BoostRestoredLife DEF SameLife
  <2>4. CASE p = fg_pid
    <3>1. BoostRestored(ok)[p] \in Process
      BY <1>3, <1>5, <2>4, BoostRestoredLife
    <3>2. procs'[p] = [BoostRestored(ok)[p] EXCEPT !.class = ABOVE_NORMAL]
      BY <1>3, <2>2, <2>4 DEF ProcessTable
    <3>3. /\ procs'[p] \in Process
          /\ procs'[p].name = BoostRestored(ok)[p].name
          /\ procs'[p].home = BoostRestored(ok)[p].home
          /\ procs'[p].io = BoostRestored(ok)[p].io
          /\ procs'[p].class = ABOVE_NORMAL
      BY <3>1, <3>2 DEF Process, ABOVE_NORMAL
    <3> QED
      BY <1>3, <1>5, <2>1, <2>4, <3>3, BoostRestoredLife, ServiceAssumption DEF SameLife
  <2> QED BY <2>3, <2>4
<1> QED BY <1>1, <1>2, <1>3, <1>4

\* The process table after priorities have been written to one process.
Written(p, c, i) == [procs EXCEPT ![p].class = c, ![p].io = i]

LEMMA WriteEffect ==
  ASSUME RuntimeTypeOK, NEW p, Live(p), NEW c \in 0..5, NEW i \in 0..3,
         procs' = Written(p, c, i)
  PROVE  /\ procs' \in ProcessTable
         /\ \A q \in Pids : SameLife(q)
         /\ \A q \in Pids : q # p => procs'[q] = procs[q]
         /\ procs'[p].class = c /\ procs'[p].io = i
<1>1. p \in Pids /\ procs[p] \in Process
  BY ProcessFacts
<1> DEFINE r == [procs[p] EXCEPT !.class = c, !.io = i]
<1>2. /\ r \in Process
      /\ r.name = procs[p].name /\ r.home = procs[p].home
      /\ r.class = c /\ r.io = i
  BY <1>1 DEF Process
<1>3. procs' = [procs EXCEPT ![p] = r] /\ procs \in ProcessTable
  BY <1>1 DEF RuntimeTypeOK, ProcessTable, Process, Written
<1> HIDE DEF r
<1>4. /\ procs' \in ProcessTable
      /\ procs'[p] = r
      /\ \A q \in Pids : q # p => procs'[q] = procs[q]
  BY <1>1, <1>2, <1>3 DEF ProcessTable
<1> QED BY <1>1, <1>2, <1>4, ServiceAssumption DEF SameLife

\* execute_downgrade: given up, or some of the two writes succeed and what
\* was read before them is recorded.
LEMMA DowngradeEffect ==
  ASSUME RuntimeTypeOK, NEW d \in decisions, d.kind = "downgrade", Downgrade(d)
  PROVE  \/ UNCHANGED <<engineState, call, procs, unlogged>>
         \/ /\ Live(d.pid) /\ d.pid \in Pids /\ d.name \in Images
            /\ procs' \in ProcessTable
            /\ \A q \in Pids : SameLife(q)
            /\ \A q \in Pids : q # d.pid => procs'[q] = procs[q]
            /\ Read(d.pid) \in Priorities
            /\ \E t \in Times : Engine!MarkDowngraded(d, Read(d.pid), t)
            /\ call' = "mark_downgraded"
            /\ unlogged' = [action |-> "downgrade", pid |-> d.pid,
                            name |-> d.name, priorities |-> Read(d.pid),
                            written |-> TRUE]
<1> DEFINE cpu_high == Live(d.pid) /\ Read(d.pid).class > BELOW_NORMAL
           io_high  == Live(d.pid) /\ Read(d.pid).io > VERY_LOW
<1>1. CASE UNCHANGED <<engineState, call, procs, unlogged>>
  BY <1>1
<1>2. CASE ~UNCHANGED <<engineState, call, procs, unlogged>>
  <2>1. PICK class_ok \in Outcomes, io_ok \in Outcomes :
          /\ (cpu_high /\ class_ok) \/ (io_high /\ io_ok)
          /\ procs' = [procs EXCEPT
               ![d.pid].class = IF cpu_high /\ class_ok THEN BELOW_NORMAL
                                                        ELSE @,
               ![d.pid].io = IF io_high /\ io_ok THEN VERY_LOW ELSE @]
    BY <1>2 DEF Downgrade
  <2>2. /\ \E t \in Times : Engine!MarkDowngraded(d, Read(d.pid), t)
        /\ call' = "mark_downgraded"
        /\ unlogged' = [action |-> "downgrade", pid |-> d.pid,
                        name |-> d.name, priorities |-> Read(d.pid),
                        written |-> TRUE]
    BY <1>2 DEF Downgrade
  <2>3. Live(d.pid) /\ d.pid \in Pids /\ procs[d.pid] \in Process
    BY <2>1, ProcessFacts
  <2>4. Read(d.pid) \in Priorities
    BY <2>3, ProcessFacts
  <2>5. d.name \in Images
    BY DEF RuntimeTypeOK, Engine!TypeOK, Engine!Decision
  <2> DEFINE class == IF cpu_high /\ class_ok THEN BELOW_NORMAL ELSE procs[d.pid].class
             io == IF io_high /\ io_ok THEN VERY_LOW ELSE procs[d.pid].io
  <2>6. class \in 0..5 /\ io \in 0..3
    BY <2>3 DEF Process, BELOW_NORMAL, VERY_LOW
  <2>7. procs' = Written(d.pid, class, io)
    BY <2>1, <2>3 DEF RuntimeTypeOK, Process, Written
  <2> HIDE DEF class, io
  <2>8. /\ procs' \in ProcessTable
        /\ \A q \in Pids : SameLife(q)
        /\ \A q \in Pids : q # d.pid => procs'[q] = procs[q]
    BY <2>3, <2>6, <2>7, WriteEffect
  <2> QED BY <2>2, <2>3, <2>4, <2>5, <2>8
<1> QED BY <1>1, <1>2

\* execute_restore: writes to the process of that name if there is one, and
\* leaves a log entry.
LEMMA RestoreEffect ==
  ASSUME RuntimeTypeOK, NEW d \in decisions, d.kind = "restore", Restore(d)
  PROVE  /\ d.pid \in Pids /\ d.name \in Images /\ d.originals \in Priorities
         /\ procs' \in ProcessTable
         /\ \A q \in Pids : SameLife(q)
         /\ \A q \in Pids : q # d.pid => procs'[q] = procs[q]
         /\ UNCHANGED <<engineState, call>>
         /\ unlogged' \in LogEntry
         /\ unlogged'.action \in {"restore", "exit"}
         /\ unlogged'.pid = d.pid /\ unlogged'.name = d.name
         /\ unlogged'.priorities = d.originals
         /\ procs' # procs =>
              d.reason # "process_exited" /\ SameProcess(d.pid, d.name)
         /\ d.reason # "process_exited" /\ SameProcess(d.pid, d.name) =>
              \E class_ok, io_ok \in Outcomes :
                /\ procs'[d.pid].class = IF class_ok THEN d.originals.class
                                                     ELSE procs[d.pid].class
                /\ procs'[d.pid].io = IF io_ok THEN d.originals.io
                                               ELSE procs[d.pid].io
<1>1. d.pid \in Pids /\ d.name \in Images /\ d.originals \in Priorities
      /\ d.reason \in Engine!Reasons
  BY DEF RuntimeTypeOK, Engine!TypeOK, Engine!Decision
<1> DEFINE writes == d.reason # "process_exited" /\ SameProcess(d.pid, d.name)
<1>2. /\ unlogged' = [action |-> IF d.reason = "process_exited" THEN "exit"
                                                                ELSE "restore",
                      pid |-> d.pid, name |-> d.name,
                      priorities |-> d.originals,
                      written |-> writes \/ d.reason = "process_exited"]
      /\ UNCHANGED <<engineState, call>>
  BY DEF Restore
<1>3. /\ unlogged' \in LogEntry
      /\ unlogged'.action \in {"restore", "exit"}
      /\ unlogged'.pid = d.pid /\ unlogged'.name = d.name
      /\ unlogged'.priorities = d.originals
  <2>1. (writes \/ d.reason = "process_exited") \in BOOLEAN
    BY DEF SameProcess
  <2> QED BY <1>1, <1>2, <2>1 DEF LogEntry
<1>4. CASE ~writes
  <2>1. procs' = procs
    BY <1>4 DEF Restore
  <2> QED BY <1>1, <1>2, <1>3, <1>4, <2>1 DEF RuntimeTypeOK, ProcessTable, SameLife
<1>5. CASE writes
  <2>1. PICK class_ok \in Outcomes, io_ok \in Outcomes :
          procs' = [procs EXCEPT
             ![d.pid].class = IF class_ok THEN d.originals.class ELSE @,
             ![d.pid].io = IF io_ok THEN d.originals.io ELSE @]
    BY <1>5 DEF Restore
  <2>2. Live(d.pid) /\ procs[d.pid] \in Process
    BY <1>5, ProcessFacts DEF SameProcess
  <2>3. PICK class \in 0..5, io \in 0..3 :
          /\ class = IF class_ok THEN d.originals.class ELSE procs[d.pid].class
          /\ io = IF io_ok THEN d.originals.io ELSE procs[d.pid].io
    BY <1>1, <2>2 DEF Process, Priorities
  <2>4. procs' = Written(d.pid, class, io)
    BY <1>1, <2>1, <2>2, <2>3 DEF RuntimeTypeOK, Process, Written
  <2>5. /\ procs' \in ProcessTable
        /\ \A q \in Pids : SameLife(q)
        /\ \A q \in Pids : q # d.pid => procs'[q] = procs[q]
        /\ procs'[d.pid].class = class /\ procs'[d.pid].io = io
    BY <2>2, <2>4, WriteEffect
  <2> QED BY <1>1, <1>2, <1>3, <1>5, <2>3, <2>5
<1> QED BY <1>4, <1>5

-----------------------------------------------------------------------------
(***************************************************************************)
(* Type correctness and the engine's guarantees.  The engine's own         *)
(* invariant is preserved by every step that calls it (Core!NextStep); the *)
(* steps that do not call it are the start of a new process and the        *)
(* reconciliation with the log, which are safe because a process that does *)
(* not run, or that still starts, holds nothing (Quiet).                   *)
(***************************************************************************)
Quiet ==
  /\ booting => alive
  /\ ~alive \/ booting => /\ DOMAIN tracked = {} /\ decisions = {}
                          /\ unlogged = None /\ game_boost = None
  /\ call = "shutdown" => ~engaged /\ game_boost = None

BaseInv == RuntimeTypeOK /\ Core!IInv /\ Quiet

\* The types of what the engine does not own.
ServiceTypeOK ==
  /\ procs \in ProcessTable
  /\ alive \in BOOLEAN /\ booting \in BOOLEAN /\ edited \in BOOLEAN
  /\ game_boost \in Boost \cup {None}
  /\ unlogged \in LogEntry \cup {None}
  /\ DOMAIN orphans \subseteq Pids
  /\ \A p \in DOMAIN orphans :
       orphans[p] \in [name : Images, originals : Priorities]
  /\ file \in Configs

LEMMA TypeParts == RuntimeTypeOK <=> Engine!TypeOK /\ ServiceTypeOK
BY DEF RuntimeTypeOK, ServiceTypeOK, ProcessTable

LEMMA TypesNext == Core!IInv' /\ ServiceTypeOK' => RuntimeTypeOK'
<1>1. Core!IInv /\ ServiceTypeOK => RuntimeTypeOK
  BY SameSafety, TypeParts
<1> QED BY <1>1, PTL

LEMMA CoreStep ==
  ASSUME Core!IInv, [Core!Next]_(Core!vars) PROVE Core!IInv'
BY CoreAssumption, Core!NextStep

\* An engine that holds nothing keeps its guarantees.
LEMMA EmptyEngine ==
  ASSUME BaseInv, config' \in Configs, NewEngine, UNCHANGED now
  PROVE  Core!IInv'
<1>1. /\ engaged' = FALSE /\ contention_ticks' = 0 /\ clear_ticks' = 0
      /\ DOMAIN tracked' = {} /\ decisions' = {} /\ call' = "new"
  BY DEF NewEngine
<1>2. 0 \in 0..MaxCount
  BY CoreAssumption, Core!ZeroCount
<1>3. Core!TypeOK'
  BY <1>1, <1>2 DEF BaseInv, Core!IInv, Core!TypeOK
<1>4. Core!TrackedOnlyWhileEngaged' /\ Core!HysteresisExact' /\ Core!NoOverdue'
  BY <1>1 DEF Core!TrackedOnlyWhileEngaged, Core!HysteresisExact, Core!NoOverdue
<1>5. Core!DecisionsConsistent'
  BY <1>1 DEF Core!DecisionsConsistent
<1> QED BY <1>3, <1>4, <1>5 DEF Core!IInv

\* The reconciliation asks once for every process on the log.
LEMMA Reconciles ==
  ASSUME BaseInv, FinishStart
  PROVE  Core!IInv'
<1>1. /\ DOMAIN tracked' = {}
      /\ UNCHANGED <<config, engaged, contention_ticks, clear_ticks, tracked, call, now>>
  BY DEF FinishStart, BaseInv, Quiet, engineState
<1>2. \A d \in decisions' :
        \E p \in DOMAIN orphans :
          d = [kind |-> "restore", pid |-> p, name |-> orphans[p].name,
               originals |-> orphans[p].originals,
               reason |-> "startup_reconcile"]
  BY DEF FinishStart
<1>3. decisions' \subseteq Core!Decision
  <2>1. \A p \in DOMAIN orphans :
          p \in Pids /\ orphans[p].name \in Images /\ orphans[p].originals \in Priorities
    BY DEF BaseInv, RuntimeTypeOK
  <2> QED BY <1>2, <2>1 DEF Core!Decision, Core!Reasons
<1>4. Core!TypeOK'
  BY <1>1, <1>3 DEF BaseInv, Core!IInv, Core!TypeOK
<1>5. Core!TrackedOnlyWhileEngaged' /\ Core!HysteresisExact' /\ Core!NoOverdue'
  BY <1>1
  DEF BaseInv, Core!IInv, Core!TrackedOnlyWhileEngaged, Core!HysteresisExact,
      Core!NoOverdue
<1>6. Core!DecisionsConsistent'
  <2>1. ASSUME NEW d \in decisions', NEW e \in decisions', d.pid = e.pid
        PROVE  d = e
    BY <1>2, <2>1
  <2>2. ASSUME NEW d \in decisions'
        PROVE  d.pid \notin DOMAIN tracked' /\ d.kind = "restore"
    BY <1>1, <1>2, <2>2
  <2> QED BY <2>1, <2>2 DEF Core!DecisionsConsistent
<1> QED BY <1>4, <1>5, <1>6 DEF Core!IInv

\* The service has not started.
LEMMA BaseInit == RuntimeInit => BaseInv
<1> SUFFICES ASSUME RuntimeInit PROVE BaseInv
  OBVIOUS
<1>1. Core!Init
  BY DEF RuntimeInit, Core!Init
<1>2. Core!IInv
  BY <1>1, CoreAssumption, Core!InitIInv
<1>3. Engine!TypeOK
  BY <1>2, SameSafety
<1>4. ServiceTypeOK
  BY DEF RuntimeInit, ServiceTypeOK, ProcessTable
<1>5. Quiet
  BY DEF RuntimeInit, Quiet
<1> QED BY <1>2, <1>3, <1>4, <1>5, TypeParts DEF BaseInv

\* Steps of a running service that call the engine.
LEMMA BaseCalls ==
  ASSUME BaseInv, NEW ruled \in SUBSET Images,
         Reload \/ DisabledTick \/ TickWith(ruled) \/ Stop \/ Execute
  PROVE  BaseInv'
<1> USE DEF BaseInv
<1>1. Core!IInv'
  BY ReloadCalls, DisabledTickCalls, TickCalls, StopCalls, ExecuteCalls, CoreStep
  DEF Core!Next
<1>2. alive /\ ~booting /\ alive' = alive /\ booting' = booting
      /\ UNCHANGED <<orphans, file>>
  BY DEF Reload, DisabledTick, TickWith, Stop, Execute, Idle, Ready, Quiet
<1>3. edited' \in BOOLEAN
  BY DEF Reload, DisabledTick, TickWith, Stop, Execute, RuntimeTypeOK
<1>4. /\ procs' \in ProcessTable
      /\ game_boost' \in Boost \cup {None}
      /\ unlogged' \in LogEntry \cup {None}
  <2>1. CASE Reload
    BY <2>1 DEF Reload, RuntimeTypeOK, ProcessTable
  <2>2. CASE DisabledTick \/ Stop
    BY <2>2, BoostRestoredFacts
    DEF DisabledTick, Stop, RestoreGameBoost, Outcomes, RuntimeTypeOK
  <2>3. CASE TickWith(ruled)
    <3>1. UNCHANGED unlogged
      BY <2>3 DEF TickWith
    <3> QED BY <2>3, <3>1, TickHandsOver, ReconcileEffect DEF RuntimeTypeOK
  <2>4. CASE Execute
    <3>1. PICK d \in decisions :
            \/ d.kind = "downgrade" /\ Downgrade(d)
            \/ d.kind = "restore" /\ Restore(d)
      BY <2>4 DEF Execute
    <3>2. UNCHANGED game_boost
      BY <2>4 DEF Execute
    <3>3. CASE d.kind = "restore" /\ Restore(d)
      BY <3>2, <3>3, RestoreEffect DEF RuntimeTypeOK
    <3>4. CASE d.kind = "downgrade" /\ Downgrade(d)
      <4>1. CASE UNCHANGED <<engineState, call, procs, unlogged>>
        BY <3>2, <4>1 DEF RuntimeTypeOK, ProcessTable
      <4>2. CASE ~UNCHANGED <<engineState, call, procs, unlogged>>
        <5>1. /\ d.pid \in Pids /\ d.name \in Images
              /\ Read(d.pid) \in Priorities
              /\ unlogged' = [action |-> "downgrade", pid |-> d.pid,
                              name |-> d.name, priorities |-> Read(d.pid),
                              written |-> TRUE]
              /\ procs' \in ProcessTable
          BY <3>4, <4>2, DowngradeEffect
        <5>2. unlogged' \in LogEntry
          BY <5>1 DEF LogEntry
        <5> QED BY <3>2, <5>1, <5>2 DEF RuntimeTypeOK
      <4> QED BY <4>1, <4>2
    <3> QED BY <3>1, <3>3, <3>4
  <2> QED BY <2>1, <2>2, <2>3, <2>4
<1>5. RuntimeTypeOK'
  <2>1. ServiceTypeOK'
    BY <1>2, <1>3, <1>4 DEF RuntimeTypeOK, ServiceTypeOK
  <2> QED BY <1>1, <2>1, TypesNext
<1>6. Quiet'
  <2>1. CASE Reload
    BY <1>2, <2>1 DEF Reload, Idle, Quiet
  <2>2. CASE DisabledTick \/ TickWith(ruled)
    BY <1>2, <2>2 DEF DisabledTick, TickWith, Quiet
  <2>3. CASE Stop
    BY <1>2, <2>3 DEF Stop, Engine!Shutdown, Engine!ResetCounters, RestoreGameBoost, Quiet
  <2>4. CASE Execute
    <3>1. PICK d \in decisions :
            \/ d.kind = "downgrade" /\ Downgrade(d)
            \/ d.kind = "restore" /\ Restore(d)
      BY <2>4 DEF Execute
    <3>2. UNCHANGED <<engineState, call>> \/ call' = "mark_downgraded"
      BY <3>1 DEF Downgrade, Restore
    <3>3. UNCHANGED game_boost
      BY <2>4 DEF Execute
    <3> QED BY <1>2, <3>2, <3>3 DEF Quiet, engineState
  <2> QED BY <2>1, <2>2, <2>3, <2>4
<1> QED BY <1>1, <1>5, <1>6


\* A new service process, the end of one, and what goes on around it.
LEMMA BaseOthers ==
  ASSUME BaseInv,
         \/ Start \/ FinishStart \/ AppendLog \/ Exit \/ Crash \/ Processes
         \/ SaveConfig
  PROVE  BaseInv'
<1> USE DEF BaseInv
<1>1. Core!IInv'
  <2>1. CASE Start
    <3>1. config' \in Configs
      BY <2>1, RuntimeAssumption DEF Start, RuntimeTypeOK
    <3> QED BY <2>1, <3>1, EmptyEngine DEF Start
  <2>2. CASE Crash
    <3>1. config' \in Configs
      BY <2>2 DEF Crash, RuntimeTypeOK, Engine!TypeOK
    <3> QED BY <2>2, <3>1, EmptyEngine DEF Crash
  <2>3. CASE FinishStart
    BY <2>3, Reconciles
  <2>4. CASE AppendLog \/ Exit \/ Processes \/ SaveConfig
    <3>1. UNCHANGED Core!vars
      BY <2>4
      DEF AppendLog, Exit, Processes, SaveConfig, engineState, Core!vars,
          Core!engineVars
    <3> QED BY <3>1, CoreStep
  <2> QED BY <2>1, <2>2, <2>3, <2>4
<1>2. /\ alive' \in BOOLEAN /\ booting' \in BOOLEAN /\ edited' \in BOOLEAN
      /\ game_boost' \in Boost \cup {None}
      /\ unlogged' \in LogEntry \cup {None}
      /\ file' \in Configs
  BY DEF Start, FinishStart, AppendLog, Exit, Crash, Processes, SaveConfig, RuntimeTypeOK
<1>3. procs' \in ProcessTable
  <2>1. CASE UNCHANGED procs
    BY <2>1 DEF RuntimeTypeOK, ProcessTable
  <2>2. CASE Processes
    <3>1. PICK p \in Pids :
            \/ ProcessExit(p)
            \/ \E name \in Images, home \in [class : Classes, io : Ios] :
                 ProcessStart(p, name, home)
      BY <2>2 DEF Processes
    <3>2. CASE ProcessExit(p)
      BY <3>2 DEF ProcessExit, RuntimeTypeOK, ProcessTable
    <3>3. ASSUME NEW name \in Images, NEW home \in [class : Classes, io : Ios],
                 ProcessStart(p, name, home)
          PROVE  procs' \in ProcessTable
      <4>1. [name |-> name, class |-> home.class, io |-> home.io,
             home |-> home] \in Process
        BY RuntimeAssumption DEF Process, Priorities
      <4> QED BY <3>3, <4>1 DEF ProcessStart, RuntimeTypeOK, ProcessTable
    <3> QED BY <3>1, <3>2, <3>3
  <2> QED BY <2>1, <2>2 DEF Start, FinishStart, AppendLog, Exit, Crash, SaveConfig
<1>4. /\ DOMAIN orphans' \subseteq Pids
      /\ \A p \in DOMAIN orphans' :
           orphans'[p] \in [name : Images, originals : Priorities]
  <2>1. CASE UNCHANGED orphans
    BY <2>1 DEF RuntimeTypeOK
  <2>2. CASE AppendLog
    <3>1. unlogged \in LogEntry
      BY <2>2 DEF AppendLog, RuntimeTypeOK
    <3>2. unlogged.pid \in Pids
          /\ [name |-> unlogged.name, originals |-> unlogged.priorities]
               \in [name : Images, originals : Priorities]
      BY <3>1 DEF LogEntry
    <3> QED BY <2>2, <3>2 DEF AppendLog, With, Without, RuntimeTypeOK
  <2> QED BY <2>1, <2>2 DEF Start, FinishStart, Exit, Crash, Processes, SaveConfig
<1>5. RuntimeTypeOK'
  <2>1. ServiceTypeOK'
    BY <1>2, <1>3, <1>4 DEF ServiceTypeOK
  <2> QED BY <1>1, <2>1, TypesNext
<1>6. Quiet'
  <2>1. CASE Start
    BY <2>1 DEF Start, NewEngine, Quiet
  <2>2. CASE Crash
    BY <2>2 DEF Crash, NewEngine, Quiet
  <2>3. CASE FinishStart
    BY <2>3 DEF FinishStart, Quiet, engineState
  <2>4. CASE AppendLog
    BY <2>4 DEF AppendLog, Quiet, engineState
  <2>5. CASE Exit
    BY <2>5 DEF Exit, Ready, Quiet, engineState, Core!IInv, Core!TrackedOnlyWhileEngaged
  <2>6. CASE Processes \/ SaveConfig
    BY <2>6 DEF Processes, SaveConfig, Quiet, engineState
  <2> QED BY <2>1, <2>2, <2>3, <2>4, <2>5, <2>6
<1> QED BY <1>1, <1>5, <1>6

LEMMA BaseNext == BaseInv /\ [RuntimeNext]_rtvars => BaseInv'
<1> SUFFICES ASSUME BaseInv, [RuntimeNext]_rtvars PROVE BaseInv'
  OBVIOUS
<1>1. CASE Tick
  BY <1>1, BaseCalls, RuntimeAssumption DEF Tick
<1>2. CASE Reload \/ DisabledTick \/ Stop \/ Execute
  <2>1. {} \in SUBSET Images
    OBVIOUS
  <2> QED BY <1>2, <2>1, BaseCalls
<1>3. CASE UNCHANGED rtvars
  <2>1. Core!IInv'
    <3>1. UNCHANGED Core!vars
      BY <1>3 DEF rtvars, engineState, Core!vars, Core!engineVars
    <3> QED BY <3>1, CoreStep DEF BaseInv
  <2>2. ServiceTypeOK'
    BY <1>3 DEF rtvars, BaseInv, RuntimeTypeOK, ServiceTypeOK, ProcessTable
  <2>3. Quiet'
    BY <1>3 DEF rtvars, engineState, BaseInv, Quiet
  <2> QED BY <2>1, <2>2, <2>3, TypesNext DEF BaseInv
<1> QED BY <1>1, <1>2, <1>3, BaseOthers DEF RuntimeNext, Service

\* The inductive invariant holds under every fault.
THEOREM BaseHolds == RuntimeSpec => []BaseInv
BY BaseInit, BaseNext, PTL DEF RuntimeSpec

\* Every variable of the service keeps its type (runtime.rs and the records
\* it keeps: the tracking table, the decisions, the boost and the log).
THEOREM RuntimeTypes == RuntimeSpec => []RuntimeTypeOK
<1>1. BaseInv => RuntimeTypeOK
  BY DEF BaseInv
<1> QED BY <1>1, BaseHolds, PTL

\* The engine's guarantees hold of the engine the service drives, through
\* reloads, shutdowns, crashes, restarts and the reconciliation, whatever
\* fails: runtime.rs calls engine.rs the way its hysteresis, its tracking
\* table and its decisions rely on.
THEOREM EngineIsSafe == RuntimeSpec => []EngineSafe
<1>1. BaseInv => EngineSafe
  BY SameSafety DEF BaseInv, EngineSafe
<1> QED BY <1>1, BaseHolds, PTL

\* Nothing stays lowered for max_downgrade_secs or longer after a tick of the
\* service, a statement the runs check for the engine alone.
THEOREM ServiceLetsGoInTime == RuntimeSpec => []Engine!NoOverdue
<1>1. BaseInv => Engine!NoOverdue
  BY SameSafety DEF BaseInv
<1> QED BY <1>1, BaseHolds, PTL

-----------------------------------------------------------------------------
(***************************************************************************)
(* Edits reach the engine.  A configuration is read before its mtime, so   *)
(* the statement must hold for a service that still starts as well: what   *)
(* it read is what is in the file when the mtime is taken.                 *)
(***************************************************************************)
EditsInv == alive /\ (booting \/ ~edited) => config = file

LEMMA EditsNext ==
  ASSUME "load" \notin Faults, "boot_edit" \notin Faults
  PROVE  BaseInv /\ EditsInv /\ [RuntimeNext]_rtvars => EditsInv'
<1> SUFFICES ASSUME BaseInv, EditsInv, [RuntimeNext]_rtvars PROVE EditsInv'
  OBVIOUS
<1>1. CASE Start
  BY <1>1 DEF Start, EditsInv
<1>2. CASE Reload
  BY <1>2 DEF Reload, Engine!UpdateConfig, EditsInv
<1>3. CASE Tick
  BY <1>3 DEF Tick, TickWith, TickOn, Engine!TickWithGameMode, EditsInv
<1>4. CASE Stop
  BY <1>4 DEF Stop, Engine!Shutdown, EditsInv
<1>5. CASE Execute
  <2>1. UNCHANGED config
    BY <1>5, ExecuteCalls
    DEF Execute, Downgrade, Restore, engineState, Engine!MarkDowngraded
  <2> QED BY <1>5, <2>1 DEF Execute, EditsInv
<1>6. CASE FinishStart \/ DisabledTick \/ AppendLog \/ Exit \/ Processes
  BY <1>6
  DEF FinishStart, DisabledTick, AppendLog, Exit, Processes, engineState,
      EditsInv, BaseInv, Quiet
<1>7. CASE Crash \/ SaveConfig
  BY <1>7 DEF Crash, SaveConfig, EditsInv
<1>8. CASE UNCHANGED rtvars
  BY <1>8 DEF rtvars, engineState, EditsInv
<1> QED
  BY <1>1, <1>2, <1>3, <1>4, <1>5, <1>6, <1>7, <1>8 DEF RuntimeNext, Service

\* Every saved configuration reaches the engine, if the file can be read and
\* nothing is saved in the gap between reading it and taking its mtime
\* (runtime.rs, new and reload_config_if_changed); v_boot_edit.cfg shows that
\* an edit in that gap is lost.
THEOREM EditsReach ==
  ASSUME "load" \notin Faults, "boot_edit" \notin Faults
  PROVE  RuntimeSpec => []EditsReachEngine
<1>1. RuntimeInit => EditsInv
  BY DEF RuntimeInit, EditsInv
<1>2. BaseInv /\ EditsInv /\ [RuntimeNext]_rtvars => EditsInv'
  BY EditsNext
<1>3. EditsInv => EditsReachEngine
  BY DEF EditsInv, EditsReachEngine
<1> QED BY <1>1, <1>2, <1>3, BaseHolds, PTL DEF RuntimeSpec

-----------------------------------------------------------------------------
(***************************************************************************)
(* The log mirrors the tracking table.  Between two ticks the log is ahead *)
(* or behind by what is still to be executed and by the entry that is      *)
(* still to be written, and by nothing else.                               *)
(***************************************************************************)
Entry(r) == [name |-> r.name, originals |-> r.originals]

LogInv ==
  alive /\ ~booting =>
    /\ \A p \in DOMAIN tracked :
         \/ p \in DOMAIN orphans /\ orphans[p] = Entry(tracked[p])
         \/ unlogged # None /\ unlogged.pid = p
    /\ \A p \in DOMAIN orphans :
         \/ p \in DOMAIN tracked
         \/ \E d \in decisions : d.kind = "restore" /\ d.pid = p
         \/ unlogged # None /\ unlogged.pid = p
    /\ \A d \in decisions :
         d.kind = "restore" =>
           d.pid \in DOMAIN orphans /\ orphans[d.pid] = Entry(d)
    /\ unlogged # None =>
         /\ \A d \in decisions : d.pid # unlogged.pid
         /\ unlogged.action = "downgrade" <=> unlogged.pid \in DOMAIN tracked
         /\ unlogged.action = "downgrade" =>
              /\ unlogged.name = tracked[unlogged.pid].name
              /\ unlogged.priorities = tracked[unlogged.pid].originals

\* A call of the engine moves records from the table to the batch.
LEMMA LogHandsOver ==
  ASSUME LogInv, alive, ~booting, unlogged = None, HandsOver,
         UNCHANGED <<unlogged, orphans>>
  PROVE  LogInv'
<1>1. \A p \in DOMAIN tracked' :
        p \in DOMAIN orphans' /\ orphans'[p] = Entry(tracked'[p])
  BY DEF LogInv, HandsOver, Entry
<1>2. \A p \in DOMAIN orphans' :
        p \in DOMAIN tracked' \/ \E d \in decisions' : d.kind = "restore" /\ d.pid = p
  BY DEF LogInv, HandsOver
<1>3. \A d \in decisions' :
        d.kind = "restore" =>
          d.pid \in DOMAIN orphans' /\ orphans'[d.pid] = Entry(d)
  BY DEF LogInv, HandsOver, Entry
<1> QED BY <1>1, <1>2, <1>3 DEF LogInv

\* Executing a decision moves a record from the batch to the entry to write.
LEMMA LogExecute ==
  ASSUME BaseInv, LogInv, Execute PROVE LogInv'
<1>1. PICK d \in decisions :
        /\ decisions' = decisions \ {d}
        /\ \/ d.kind = "downgrade" /\ Downgrade(d)
           \/ d.kind = "restore" /\ Restore(d)
  BY DEF Execute
<1>2. alive /\ ~booting /\ unlogged = None /\ UNCHANGED orphans
  BY DEF Execute, Ready
<1>3. /\ d.pid \notin DOMAIN tracked
      /\ \A e \in decisions' : e \in decisions /\ e.pid # d.pid
  BY <1>1 DEF BaseInv, Core!IInv, Core!DecisionsConsistent
<1>4. CASE d.kind = "restore"
  <2>1. /\ unlogged' # None /\ unlogged'.pid = d.pid
        /\ unlogged'.action # "downgrade" /\ UNCHANGED tracked
    BY <1>1, <1>4, RestoreEffect, ServiceAssumption DEF BaseInv, engineState
  <2>2. \A e \in decisions : e = d \/ e \in decisions'
    BY <1>1
  <2> QED BY <1>2, <1>3, <2>1, <2>2 DEF LogInv
<1>5. CASE d.kind = "downgrade" /\ UNCHANGED <<engineState, call, procs, unlogged>>
  <2>1. \A e \in decisions : e.kind = "restore" => e \in decisions'
    BY <1>1, <1>5
  <2> QED BY <1>2, <1>3, <1>5, <2>1 DEF LogInv, engineState
<1>6. CASE d.kind = "downgrade" /\ ~UNCHANGED <<engineState, call, procs, unlogged>>
  <2>1. /\ \E t \in Times : Engine!MarkDowngraded(d, Read(d.pid), t)
        /\ unlogged' = [action |-> "downgrade", pid |-> d.pid,
                        name |-> d.name, priorities |-> Read(d.pid),
                        written |-> TRUE]
        /\ d.pid \in Pids /\ d.name \in Images /\ Read(d.pid) \in Priorities
    BY <1>1, <1>6, DowngradeEffect DEF BaseInv
  <2>2. unlogged' \in LogEntry /\ unlogged' # None
    <3>1. unlogged' \in LogEntry
      BY <2>1 DEF LogEntry
    <3> QED BY <3>1, ServiceAssumption
  <2>3. /\ DOMAIN tracked' = DOMAIN tracked \cup {d.pid}
        /\ \A p \in DOMAIN tracked : tracked'[p] = tracked[p]
        /\ tracked'[d.pid].name = d.name
        /\ tracked'[d.pid].originals = Read(d.pid)
    BY <1>3, <2>1 DEF Engine!MarkDowngraded
  <2>4. \A e \in decisions : e.kind = "restore" => e \in decisions'
    BY <1>1, <1>6
  <2>5. /\ unlogged'.action = "downgrade" /\ unlogged'.pid = d.pid
        /\ unlogged'.name = d.name /\ unlogged'.priorities = Read(d.pid)
    BY <2>1
  <2>6. \A p \in DOMAIN tracked :
          p \in DOMAIN orphans' /\ orphans'[p] = Entry(tracked'[p])
    BY <1>2, <2>3 DEF LogInv
  <2> QED BY <1>2, <1>3, <2>2, <2>3, <2>4, <2>5, <2>6 DEF LogInv
<1> QED BY <1>1, <1>4, <1>5, <1>6

\* Writing the entry brings the log up to date.
LEMMA LogAppend ==
  ASSUME "append" \notin Faults, BaseInv, LogInv, AppendLog PROVE LogInv'
<1>1. /\ alive /\ ~booting /\ unlogged # None /\ unlogged' = None
      /\ UNCHANGED <<tracked, decisions, alive, booting>>
  BY DEF AppendLog, engineState, BaseInv, Quiet
<1>2. CASE unlogged.action = "downgrade"
  <2>1. /\ DOMAIN orphans' = DOMAIN orphans \cup {unlogged.pid}
        /\ \A p \in DOMAIN orphans : p # unlogged.pid => orphans'[p] = orphans[p]
        /\ orphans'[unlogged.pid] =
             [name |-> unlogged.name, originals |-> unlogged.priorities]
    BY <1>2 DEF AppendLog, With
  <2>2. \A p \in DOMAIN tracked :
          p \in DOMAIN orphans' /\ orphans'[p] = Entry(tracked[p])
    <3> SUFFICES ASSUME NEW p \in DOMAIN tracked
                 PROVE  p \in DOMAIN orphans' /\ orphans'[p] = Entry(tracked[p])
      OBVIOUS
    <3>1. CASE p = unlogged.pid
      BY <1>1, <1>2, <2>1, <3>1 DEF LogInv, Entry
    <3>2. CASE p # unlogged.pid
      BY <1>1, <1>2, <2>1, <3>2 DEF LogInv
    <3> QED BY <3>1, <3>2
  <2>3. \A p \in DOMAIN orphans' :
          p \in DOMAIN tracked \/ \E d \in decisions : d.kind = "restore" /\ d.pid = p
    BY <1>1, <1>2, <2>1 DEF LogInv
  <2>4. \A d \in decisions : d.kind = "restore" =>
          d.pid \in DOMAIN orphans' /\ orphans'[d.pid] = Entry(d)
    BY <1>1, <2>1 DEF LogInv
  <2> QED BY <1>1, <2>2, <2>3, <2>4 DEF LogInv
<1>3. CASE unlogged.action # "downgrade"
  <2>1. /\ DOMAIN orphans' = DOMAIN orphans \ {unlogged.pid}
        /\ \A p \in DOMAIN orphans' : orphans'[p] = orphans[p]
    BY <1>3 DEF AppendLog, Without
  <2> QED BY <1>1, <1>3, <2>1 DEF LogInv
<1> QED BY <1>2, <1>3

LEMMA LogNext ==
  ASSUME "append" \notin Faults, BaseInv, LogInv, [RuntimeNext]_rtvars
  PROVE  LogInv'
<1>1. CASE Start
  BY <1>1 DEF Start, LogInv
<1>2. CASE FinishStart
  <2>1. /\ DOMAIN tracked' = {} /\ unlogged' = None /\ UNCHANGED orphans
    BY <1>2 DEF FinishStart, engineState, BaseInv, Quiet
  <2>2. \A d \in decisions' :
          /\ d.pid \in DOMAIN orphans
          /\ d.name = orphans[d.pid].name /\ d.originals = orphans[d.pid].originals
    BY <1>2 DEF FinishStart
  <2>3. \A p \in DOMAIN orphans :
          /\ orphans[p] \in [name : Images, originals : Priorities]
          /\ [kind |-> "restore", pid |-> p, name |-> orphans[p].name,
              originals |-> orphans[p].originals, reason |-> "startup_reconcile"]
               \in decisions'
    BY <1>2 DEF FinishStart, BaseInv, RuntimeTypeOK
  <2>4. \A p \in DOMAIN orphans : \E d \in decisions' : d.kind = "restore" /\ d.pid = p
    BY <2>3
  <2> QED BY <2>1, <2>2, <2>3, <2>4 DEF LogInv, Entry
<1>3. CASE Reload \/ DisabledTick \/ Tick \/ Stop
  <2>1. HandsOver
    BY <1>3, ReloadHandsOver, DisabledTickHandsOver, TickHandsOver, StopHandsOver
    DEF Tick, BaseInv
  <2>2. alive /\ ~booting /\ unlogged = None /\ UNCHANGED <<unlogged, orphans>>
    BY <1>3 DEF Reload, DisabledTick, Tick, TickWith, Stop, Idle, Ready
  <2> QED BY <2>1, <2>2, LogHandsOver
<1>4. CASE Exit \/ Crash
  BY <1>4 DEF Exit, Crash, LogInv
<1>5. CASE Processes \/ SaveConfig \/ UNCHANGED rtvars
  BY <1>5 DEF Processes, SaveConfig, rtvars, engineState, LogInv
<1> QED
  BY <1>1, <1>2, <1>3, <1>4, <1>5, LogExecute, LogAppend DEF RuntimeNext, Service

\* As long as every entry reaches the log, the log mirrors the tracking table
\* whenever nothing is being executed: writes that fail, reused process ids,
\* crashes at any moment, even the loss of an unlogged downgrade, leave no
\* entry in one that is not in the other (runtime.rs, execute_* and
\* append_log; journal.rs, pair_orphans).  Without the hypothesis it is false:
\* execute_* drops the error of append_log.
THEOREM LogMirrors ==
  ASSUME "append" \notin Faults
  PROVE  RuntimeSpec => []LogMirrorsTracking
<1>1. RuntimeInit => LogInv
  BY DEF RuntimeInit, LogInv
<1>2. LogInv => LogMirrorsTracking
  <2> SUFFICES ASSUME LogInv, Idle
               PROVE  /\ DOMAIN orphans = DOMAIN tracked
                      /\ \A p \in DOMAIN tracked : orphans[p] = Entry(tracked[p])
    BY DEF LogMirrorsTracking, Entry
  <2> QED BY DEF LogInv, Idle, Ready
<1>3. BaseInv /\ LogInv /\ [RuntimeNext]_rtvars => LogInv'
  BY LogNext
<1> QED BY <1>1, <1>2, <1>3, BaseHolds, PTL DEF RuntimeSpec

-----------------------------------------------------------------------------
(* Processes that come and go *)

\* A process ends, or one starts under a free id at the priorities it
\* chooses, under the name of one the service remembers or under the id of a
\* pending downgrade only if Faults says so.
LEMMA ProcessesEffect ==
  ASSUME BaseInv, Processes
  PROVE  \E p \in Pids :
           /\ \A q \in Pids : q # p => procs'[q] = procs[q]
           /\ \/ procs'[p] = Absent
              \/ /\ procs[p] = Absent /\ procs'[p] \in Process
                 /\ procs'[p].class = procs'[p].home.class
                 /\ procs'[p].io = procs'[p].home.io
                 /\ Remembered(p, procs'[p].name) => "namesake" \in Faults
                 /\ (\E d \in decisions : d.pid = p /\ d.kind = "downgrade")
                      => "reuse" \in Faults
<1>1. PICK p \in Pids :
        \/ ProcessExit(p)
        \/ \E name \in Images, home \in [class : Classes, io : Ios] :
             ProcessStart(p, name, home)
  BY DEF Processes
<1>2. procs \in ProcessTable
  BY DEF BaseInv, RuntimeTypeOK, ProcessTable
<1>3. CASE ProcessExit(p)
  BY <1>2, <1>3 DEF ProcessExit, ProcessTable
<1>4. ASSUME NEW name \in Images, NEW home \in [class : Classes, io : Ios],
             ProcessStart(p, name, home)
      PROVE  /\ \A q \in Pids : q # p => procs'[q] = procs[q]
             /\ procs[p] = Absent /\ procs'[p] \in Process
             /\ procs'[p].class = procs'[p].home.class
             /\ procs'[p].io = procs'[p].home.io
             /\ Remembered(p, procs'[p].name) => "namesake" \in Faults
             /\ (\E d \in decisions : d.pid = p /\ d.kind = "downgrade")
                  => "reuse" \in Faults
  <2> DEFINE r == [name |-> name, class |-> home.class, io |-> home.io,
                   home |-> home]
  <2>1. r \in Process /\ r.class = r.home.class /\ r.io = r.home.io
    BY RuntimeAssumption DEF Process, Priorities
  <2>2. procs' = [procs EXCEPT ![p] = r] /\ procs[p] = Absent
    BY <1>4 DEF ProcessStart, Live
  <2>3. Remembered(p, r.name) => "namesake" \in Faults
    BY <1>4 DEF ProcessStart
  <2>4. (\E d \in decisions : d.pid = p /\ d.kind = "downgrade")
          => "reuse" \in Faults
    BY <1>4 DEF ProcessStart
  <2> HIDE DEF r
  <2>5. procs'[p] = r /\ \A q \in Pids : q # p => procs'[q] = procs[q]
    BY <1>2, <2>2 DEF ProcessTable
  <2> QED BY <2>1, <2>2, <2>3, <2>4, <2>5
<1> QED BY <1>1, <1>3, <1>4

-----------------------------------------------------------------------------
(* The log tells what happened *)

\* An entry that waits to be written is waited for by everything else.
LEMMA OthersWait ==
  ASSUME BaseInv, RuntimeNext, unlogged # None
  PROVE  AppendLog \/ Crash \/ Processes \/ SaveConfig
BY DEF RuntimeNext, Service, Start, FinishStart, Reload, DisabledTick, Tick,
   TickWith, Stop, Exit, Execute, Idle, Ready, BaseInv, Quiet

LEMMA TruthfulNext ==
  ASSUME {"write", "namesake"} \cap Faults = {}
  PROVE  BaseInv /\ LogTruthful /\ [RuntimeNext]_rtvars => LogTruthful'
<1> SUFFICES ASSUME BaseInv, LogTruthful, [RuntimeNext]_rtvars,
                    unlogged' # None, unlogged'.action = "restore",
                    unlogged'.written, unlogged'.pid \in Pids,
                    procs'[unlogged'.pid] # Absent,
                    procs'[unlogged'.pid].name = unlogged'.name
             PROVE  [class |-> procs'[unlogged'.pid].class,
                     io |-> procs'[unlogged'.pid].io] = unlogged'.priorities
  BY DEF LogTruthful, Read, SameProcess, Live
<1>1. CASE unlogged # None
  <2>1. unlogged' = unlogged
    BY <1>1, OthersWait
    DEF AppendLog, Crash, Processes, SaveConfig, rtvars
  <2>2. unlogged.pid \in Pids
    BY <1>1 DEF BaseInv, RuntimeTypeOK, LogEntry
  <2>3. procs'[unlogged.pid] = procs[unlogged.pid]
    <3>1. CASE Processes
      <4>1. PICK p \in Pids :
              /\ \A q \in Pids : q # p => procs'[q] = procs[q]
              /\ \/ procs'[p] = Absent
                 \/ ~Remembered(p, procs'[p].name)
        BY <3>1, ProcessesEffect
      <4>2. CASE p = unlogged.pid
        <5>1. procs'[p] # Absent /\ procs'[p].name = unlogged.name
          BY <2>1, <4>2
        <5> QED BY <1>1, <4>1, <4>2, <5>1 DEF Remembered
      <4> QED BY <2>2, <4>1, <4>2
    <3>2. CASE ~Processes
      BY <1>1, <3>2, OthersWait DEF AppendLog, Crash, SaveConfig, rtvars
    <3> QED BY <3>1, <3>2
  <2> QED BY <1>1, <2>1, <2>3 DEF LogTruthful, SameProcess, Live, Read
<1>2. CASE unlogged = None
  <2>1. Execute
    BY <1>2
    DEF RuntimeNext, Service, Start, FinishStart, Reload, DisabledTick, Tick,
        TickWith, Stop, Exit, Crash, AppendLog, Processes, SaveConfig, rtvars
  <2>2. PICK d \in decisions :
          \/ d.kind = "downgrade" /\ Downgrade(d)
          \/ d.kind = "restore" /\ Restore(d)
    BY <2>1 DEF Execute
  <2>3. Restore(d) /\ d.kind = "restore"
    <3>1. CASE d.kind = "downgrade" /\ Downgrade(d)
      <4>1. ~UNCHANGED unlogged /\ BaseInv
        BY <1>2
      <4>2. unlogged' = [action |-> "downgrade", pid |-> d.pid,
                         name |-> d.name, priorities |-> Read(d.pid),
                         written |-> TRUE]
        BY <3>1, <4>1, DowngradeEffect DEF BaseInv
      <4> QED BY <4>2
    <3> QED BY <2>2, <3>1
  <2>4. /\ unlogged'.pid = d.pid /\ unlogged'.priorities = d.originals
        /\ d.originals \in Priorities
        /\ d.reason # "process_exited" /\ SameProcess(d.pid, d.name)
    BY <2>3, RestoreEffect DEF Restore, BaseInv
  <2>5. procs'[d.pid].class = d.originals.class /\ procs'[d.pid].io = d.originals.io
    <3>1. Outcomes = {TRUE}
      BY DEF Outcomes
    <3> QED BY <2>3, <2>4, <3>1, RestoreEffect DEF BaseInv
  <2> QED BY <2>4, <2>5 DEF Read, Priorities
<1> QED BY <1>1, <1>2

\* The log tells what happened: a restore logged as done has left exactly the
\* priorities it logs, when writes succeed and no namesake of a remembered
\* process takes over its id (runtime.rs, execute_restore ignores the results
\* of its writes: v_write.cfg shows what it logs when one fails).
THEOREM LogIsTruthful ==
  ASSUME {"write", "namesake"} \cap Faults = {}
  PROVE  RuntimeSpec => []LogTruthful
<1>1. RuntimeInit => LogTruthful
  BY DEF RuntimeInit, LogTruthful
<1>2. BaseInv /\ LogTruthful /\ [RuntimeNext]_rtvars => LogTruthful'
  BY TruthfulNext
<1> QED BY <1>1, <1>2, BaseHolds, PTL DEF RuntimeSpec

-----------------------------------------------------------------------------
(***************************************************************************)
(* The allowlist.  No record of the service is about a process of the      *)
(* allowlist (NeverRecorded), a pending downgrade still means the process  *)
(* the sample showed (TargetsKept), and the boost of an allowlisted        *)
(* process remembers a class it may be returned to (BoostKept).            *)
(***************************************************************************)
NeverRecorded ==
  /\ \A p \in DOMAIN tracked : tracked[p].name \notin SystemWhitelist
  /\ \A d \in decisions : d.name \notin SystemWhitelist
  /\ \A p \in DOMAIN orphans : orphans[p].name \notin SystemWhitelist
  /\ unlogged # None => unlogged.name \notin SystemWhitelist

TargetsKept ==
  \A d \in decisions :
    d.kind = "downgrade" /\ Live(d.pid) => procs[d.pid].name = d.name

BoostKept ==
  game_boost # None =>
    \A p \in Pids :
      /\ p = game_boost.pid /\ SameProcess(p, game_boost.name)
      /\ game_boost.name \in SystemWhitelist
      => game_boost.original_priority >= procs[p].home.class

\* What a call hands over keeps its name.
LEMMA NeverRecordedNext ==
  BaseInv /\ NeverRecorded /\ [RuntimeNext]_rtvars => NeverRecorded'
<1> SUFFICES ASSUME BaseInv, NeverRecorded, [RuntimeNext]_rtvars
             PROVE  NeverRecorded'
  OBVIOUS
<1>1. CASE Reload \/ DisabledTick \/ Tick \/ Stop
  <2>1. HandsOver
    BY <1>1, ReloadHandsOver, DisabledTickHandsOver, TickHandsOver, StopHandsOver
    DEF Tick, BaseInv
  <2>2. UNCHANGED <<unlogged, orphans>>
    BY <1>1 DEF Reload, DisabledTick, Tick, TickWith, Stop
  <2>3. Core!DecisionsConsistent'
    BY BaseNext DEF BaseInv, Core!IInv
  <2>4. \A d \in decisions' : d.kind = "downgrade" => d.name \notin SystemWhitelist
    BY <2>3 DEF Core!DecisionsConsistent, Core!IsProtected
  <2> QED BY <2>1, <2>2, <2>4 DEF HandsOver, NeverRecorded
<1>2. CASE Execute
  <2>1. PICK d \in decisions :
        /\ decisions' = decisions \ {d}
        /\ \/ d.kind = "downgrade" /\ Downgrade(d)
           \/ d.kind = "restore" /\ Restore(d)
    BY <1>2 DEF Execute
  <2>2. UNCHANGED orphans /\ d.name \notin SystemWhitelist
    BY <1>2 DEF Execute, NeverRecorded
  <2>3. CASE d.kind = "restore"
    <3>1. unlogged'.name = d.name /\ UNCHANGED tracked
      BY <2>1, <2>3, RestoreEffect DEF BaseInv, engineState
    <3> QED BY <2>1, <2>2, <3>1 DEF NeverRecorded
  <2>4. CASE d.kind = "downgrade" /\ UNCHANGED <<engineState, call, procs, unlogged>>
    BY <2>1, <2>2, <2>4 DEF NeverRecorded, engineState
  <2>5. CASE d.kind = "downgrade" /\ ~UNCHANGED <<engineState, call, procs, unlogged>>
    <3>1. /\ \E t \in Times : Engine!MarkDowngraded(d, Read(d.pid), t)
          /\ unlogged' = [action |-> "downgrade", pid |-> d.pid,
                          name |-> d.name, priorities |-> Read(d.pid),
                          written |-> TRUE]
      BY <2>1, <2>5, DowngradeEffect DEF BaseInv
    <3>2. \A p \in DOMAIN tracked' :
            \/ tracked'[p].name = d.name
            \/ p \in DOMAIN tracked /\ tracked'[p] = tracked[p]
      BY <3>1 DEF Engine!MarkDowngraded
    <3>3. unlogged'.name = d.name
      BY <3>1
    <3> QED BY <2>1, <2>2, <3>2, <3>3 DEF NeverRecorded
  <2> QED BY <2>1, <2>3, <2>4, <2>5
<1>3. CASE AppendLog
  <2>1. \A p \in DOMAIN orphans' :
          \/ orphans'[p].name = unlogged.name
          \/ p \in DOMAIN orphans /\ orphans'[p] = orphans[p]
    BY <1>3 DEF AppendLog, With, Without
  <2> QED BY <1>3, <2>1 DEF AppendLog, NeverRecorded, engineState
<1>4. CASE Start \/ Crash
  BY <1>4 DEF Start, Crash, NewEngine, NeverRecorded
<1>5. CASE FinishStart
  <2>1. \A d \in decisions' : d.pid \in DOMAIN orphans /\ d.name = orphans[d.pid].name
    BY <1>5 DEF FinishStart
  <2> QED BY <1>5, <2>1 DEF FinishStart, NeverRecorded, engineState
<1>6. CASE Exit \/ Processes \/ SaveConfig \/ UNCHANGED rtvars
  BY <1>6 DEF Exit, Processes, SaveConfig, rtvars, engineState, NeverRecorded
<1> QED
  BY <1>1, <1>2, <1>3, <1>4, <1>5, <1>6 DEF RuntimeNext, Service

\* Every process survives every step of the service as it is.
LEMMA ServiceLife ==
  ASSUME BaseInv, NEW ruled,
         DisabledTick \/ TickWith(ruled) \/ Stop \/ Execute, NEW p \in Pids
  PROVE  SameLife(p)
<1>1. CASE DisabledTick \/ Stop
  <2>1. PICK ok \in BOOLEAN : procs' = BoostRestored(ok)
    BY <1>1 DEF DisabledTick, Stop, RestoreGameBoost, Outcomes
  <2> QED BY <2>1, BoostRestoredLife DEF SameLife, BaseInv
<1>2. CASE TickWith(ruled)
  <2>1. PICK active \in BOOLEAN, fg_pid \in Pids \cup {NoPid} :
          (active => Live(fg_pid)) /\ ReconcileGameBoost(active, fg_pid)
    BY <1>2, TickHandsOver DEF BaseInv
  <2> QED BY <2>1, ReconcileLife DEF BaseInv
<1>3. CASE Execute
  <2>1. PICK d \in decisions :
           \/ d.kind = "downgrade" /\ Downgrade(d)
           \/ d.kind = "restore" /\ Restore(d)
    BY <1>3 DEF Execute
  <2>2. UNCHANGED procs => SameLife(p)
    BY DEF SameLife
  <2> QED BY <2>1, <2>2, DowngradeEffect, RestoreEffect DEF BaseInv
<1> QED BY <1>1, <1>2, <1>3

LEMMA LifeNext ==
  ASSUME BaseInv, [RuntimeNext]_rtvars, ~Processes, NEW p \in Pids
  PROVE  SameLife(p)
<1>1. CASE UNCHANGED procs
  BY <1>1 DEF SameLife
<1> QED
  BY <1>1, ServiceLife
  DEF RuntimeNext, Service, Tick, Start, FinishStart, Reload, AppendLog, Exit,
      Crash, SaveConfig, rtvars

LEMMA TargetsNext ==
  ASSUME "reuse" \notin Faults
  PROVE  BaseInv /\ TargetsKept /\ [RuntimeNext]_rtvars => TargetsKept'
<1> SUFFICES ASSUME BaseInv, TargetsKept, [RuntimeNext]_rtvars,
                    NEW d \in decisions', d.kind = "downgrade",
                    d.pid \in Pids, procs'[d.pid] # Absent
             PROVE  procs'[d.pid].name = d.name
  BY DEF TargetsKept, Live
<1>1. CASE Processes
  <2>1. PICK p \in Pids :
          /\ \A q \in Pids : q # p => procs'[q] = procs[q]
          /\ \/ procs'[p] = Absent
             \/ ~\E e \in decisions : e.pid = p /\ e.kind = "downgrade"
    BY <1>1, ProcessesEffect
  <2>2. d \in decisions
    BY <1>1 DEF Processes
  <2>3. procs'[d.pid] = procs[d.pid]
    BY <2>1, <2>2
  <2> QED BY <2>2, <2>3 DEF TargetsKept, Live
<1>2. CASE ~Processes
  <2>1. /\ procs[d.pid] # Absent /\ procs'[d.pid].name = procs[d.pid].name
    BY <1>2, LifeNext DEF SameLife
  <2>2. CASE d \in decisions
    BY <2>1, <2>2 DEF TargetsKept, Live
  <2>3. CASE d \notin decisions
    <3>1. CASE HandsOver
      BY <2>1, <3>1 DEF HandsOver
    <3>2. CASE FinishStart
      BY <3>2 DEF FinishStart
    <3>3. ~(HandsOver \/ FinishStart) => decisions' \subseteq decisions
      BY <1>2, ReloadHandsOver, DisabledTickHandsOver, TickHandsOver, StopHandsOver
      DEF RuntimeNext, Service, Tick, Start, Crash, NewEngine, Exit, SaveConfig,
          AppendLog, Execute, rtvars, BaseInv
    <3> QED BY <2>3, <3>1, <3>2, <3>3
  <2> QED BY <2>2, <2>3
<1> QED BY <1>1, <1>2


\* Taking a boost back never leaves an allowlisted process below its own
\* priorities.
LEMMA RestoredHigh ==
  ASSUME BaseInv, AllowlistUntouched, BoostKept, NEW ok \in BOOLEAN, NEW p \in Pids,
         procs[p] # Absent, procs[p].name \in SystemWhitelist
  PROVE  /\ BoostRestored(ok)[p].class >= procs[p].home.class
         /\ BoostRestored(ok)[p].io >= procs[p].home.io
<1>1. /\ procs[p].class >= procs[p].home.class
      /\ procs[p].io >= procs[p].home.io
  BY DEF AllowlistUntouched, Live
<1>2. /\ BoostRestored(ok)[p].io = procs[p].io
      /\ BoostRestored(ok)[p].class =
           IF ok /\ game_boost # None /\ p = game_boost.pid
                /\ game_boost.name = procs[p].name
           THEN game_boost.original_priority ELSE procs[p].class
  BY BoostRestoredLife DEF BaseInv
<1> QED BY <1>1, <1>2 DEF BoostKept, SameProcess, Live

\* What a tick does to an allowlisted process and to the boost it is under.
LEMMA TickKeepsHigh ==
  ASSUME BaseInv, AllowlistUntouched, BoostKept, Tick, NEW p \in Pids,
         procs'[p] # Absent, procs'[p].name \in SystemWhitelist
  PROVE  /\ procs'[p].class >= procs'[p].home.class
         /\ procs'[p].io >= procs'[p].home.io
         /\ game_boost' # None /\ p = game_boost'.pid
              /\ game_boost'.name = procs'[p].name
            => game_boost'.original_priority >= procs'[p].home.class
<1>1. PICK active \in BOOLEAN, fg_pid \in Pids \cup {NoPid} :
        (active => Live(fg_pid)) /\ ReconcileGameBoost(active, fg_pid)
  BY TickHandsOver DEF Tick, BaseInv
<1>2. /\ procs[p] # Absent
      /\ procs[p].name = procs'[p].name
      /\ procs[p].home = procs'[p].home
      /\ procs'[p].io = procs[p].io
  BY <1>1, ReconcileLife DEF BaseInv, SameLife
<1>3. /\ procs[p].class >= procs[p].home.class
      /\ procs[p].io >= procs[p].home.io
  BY <1>2 DEF AllowlistUntouched, Live
<1>4. ASSUME NEW ok \in BOOLEAN
      PROVE  /\ BoostRestored(ok)[p].class >= procs[p].home.class
             /\ BoostRestored(ok)[p].class \in Int
             /\ procs[p].home.class \in Int
  BY <1>2, RestoredHigh, BoostRestoredLife, ProcessFacts
  DEF BaseInv, Live, Process, Priorities
<1>5. CASE UNCHANGED <<procs, game_boost>>
  BY <1>2, <1>3, <1>5 DEF BoostKept, SameProcess, Live
<1>6. CASE ~UNCHANGED <<procs, game_boost>>
  <2>1. PICK ok \in Outcomes :
        \/ /\ procs'[p] = BoostRestored(ok)[p]
           /\ game_boost' = None \/ game_boost'.pid # p
        \/ /\ procs'[p].class = ABOVE_NORMAL
           /\ BoostRestored(ok)[p].class < ABOVE_NORMAL
           /\ game_boost'.original_priority = BoostRestored(ok)[p].class
    BY <1>1, <1>6, ReconcileLife DEF BaseInv
  <2>2. ok \in BOOLEAN
    BY DEF Outcomes
  <2> QED BY <1>2, <1>3, <1>4, <2>1, <2>2 DEF ABOVE_NORMAL
<1> QED BY <1>5, <1>6

LEMMA AllowlistNext ==
  ASSUME {"reuse", "namesake"} \cap Faults = {}
  PROVE  BaseInv /\ NeverRecorded /\ TargetsKept /\ BoostKept
           /\ AllowlistUntouched /\ [RuntimeNext]_rtvars
         => BoostKept' /\ AllowlistUntouched'
<1> SUFFICES ASSUME BaseInv, NeverRecorded, TargetsKept, BoostKept,
                    AllowlistUntouched, [RuntimeNext]_rtvars,
                    NEW p \in Pids, procs'[p] # Absent,
                    procs'[p].name \in SystemWhitelist
             PROVE  /\ procs'[p].class >= procs'[p].home.class
                    /\ procs'[p].io >= procs'[p].home.io
                    /\ game_boost' # None /\ p = game_boost'.pid
                         /\ game_boost'.name = procs'[p].name
                       => game_boost'.original_priority >= procs'[p].home.class
  BY DEF BoostKept, AllowlistUntouched, Live, SameProcess
<1>1. CASE Tick
  BY <1>1, TickKeepsHigh
<1>2. CASE Processes
  <2>1. PICK q \in Pids :
          /\ \A r \in Pids : r # q => procs'[r] = procs[r]
          /\ \/ procs'[q] = Absent
             \/ /\ procs'[q] \in Process
                /\ procs'[q].class = procs'[q].home.class
                /\ procs'[q].io = procs'[q].home.io
                /\ ~Remembered(q, procs'[q].name)
    BY <1>2, ProcessesEffect
  <2>2. UNCHANGED game_boost
    BY <1>2 DEF Processes
  <2>3. CASE p = q
    <3>1. ~(game_boost # None /\ game_boost.pid = p /\ game_boost.name = procs'[p].name)
      BY <2>1, <2>3 DEF Remembered
    <3>2. procs'[p].class \in Int /\ procs'[p].io \in Int
      BY <2>1, <2>3 DEF Process
    <3> QED BY <2>1, <2>2, <2>3, <3>1, <3>2
  <2>4. CASE p # q
    BY <2>1, <2>2, <2>4 DEF BoostKept, AllowlistUntouched, Live, SameProcess
  <2> QED BY <2>3, <2>4
<1>3. CASE ~Processes /\ ~Tick
  <2>1. /\ procs[p] # Absent
        /\ procs'[p].name = procs[p].name /\ procs'[p].home = procs[p].home
    BY <1>3, LifeNext DEF SameLife
  <2>2. game_boost' = None \/ UNCHANGED game_boost
    BY <1>3
    DEF RuntimeNext, Service, Start, FinishStart, Reload, DisabledTick,
        RestoreGameBoost, Execute, AppendLog, Stop, Exit, Crash, SaveConfig,
        rtvars
  <2>3. game_boost' # None /\ p = game_boost'.pid
          /\ game_boost'.name = procs'[p].name
        => game_boost'.original_priority >= procs'[p].home.class
    BY <2>1, <2>2 DEF BoostKept, SameProcess, Live
  <2>4. CASE DisabledTick \/ Stop
    <3>1. PICK ok \in BOOLEAN : procs' = BoostRestored(ok)
      BY <2>4 DEF DisabledTick, Stop, RestoreGameBoost, Outcomes
    <3> QED BY <2>1, <2>3, <3>1, RestoredHigh
  <2>5. CASE Execute
    <3>1. PICK d \in decisions :
           \/ d.kind = "downgrade" /\ Downgrade(d)
           \/ d.kind = "restore" /\ Restore(d)
      BY <2>5 DEF Execute
    <3>2. d.name \notin SystemWhitelist
      BY DEF NeverRecorded
    <3>3. procs'[p] = procs[p]
      <4>1. CASE d.kind = "downgrade" /\ Downgrade(d)
        <5>1. d.pid # p
          BY <2>1, <3>2, <4>1 DEF TargetsKept, Live
        <5> QED BY <4>1, <5>1, DowngradeEffect DEF BaseInv
      <4>2. CASE d.kind = "restore" /\ Restore(d)
        <5>1. procs' # procs => SameProcess(d.pid, d.name)
          BY <4>2, RestoreEffect DEF BaseInv
        <5>2. procs' # procs => d.pid # p
          BY <2>1, <3>2, <5>1 DEF SameProcess
        <5> QED BY <4>2, <5>2, RestoreEffect DEF BaseInv
      <4> QED BY <3>1, <4>1, <4>2
    <3> QED BY <2>1, <2>3, <3>3 DEF AllowlistUntouched, Live
  <2>6. CASE UNCHANGED procs
    BY <2>1, <2>3, <2>6 DEF AllowlistUntouched, Live
  <2> QED
    BY <1>3, <2>4, <2>5, <2>6
    DEF RuntimeNext, Service, Start, FinishStart, Reload, AppendLog, Exit,
        Crash, SaveConfig, rtvars
<1> QED BY <1>1, <1>2, <1>3

\* The system allowlist is never lowered: neither by a downgrade nor by
\* taking a boost back, through crashes, failed writes and partial samples,
\* as long as ids do not change hands behind the back of the service
\* (engine.rs, is_protected; runtime.rs, execute_downgrade does not compare
\* the name, and v_reuse.cfg shows what that costs).
THEOREM AllowlistIsUntouched ==
  ASSUME {"reuse", "namesake"} \cap Faults = {}
  PROVE  RuntimeSpec => []AllowlistUntouched
<1> DEFINE AInv == NeverRecorded /\ TargetsKept /\ BoostKept /\ AllowlistUntouched
<1>1. RuntimeInit => AInv
  BY DEF RuntimeInit, NeverRecorded, TargetsKept, BoostKept, AllowlistUntouched, Live
<1>2. BaseInv /\ AInv /\ [RuntimeNext]_rtvars => AInv'
  BY NeverRecordedNext, TargetsNext, AllowlistNext
<1>3. AInv => AllowlistUntouched
  OBVIOUS
<1> HIDE DEF AInv
<1> QED BY <1>1, <1>2, <1>3, BaseHolds, PTL DEF RuntimeSpec

-----------------------------------------------------------------------------
(***************************************************************************)
(* No process is left behind.  The records must be right about whoever     *)
(* runs under their id (RecordsTrue), a boosted process must not be in the *)
(* hands of the engine as well (BoostApart), a pending downgrade must mean *)
(* the process that was sampled (TargetsKept), and the log must be able to *)
(* take over at any moment (LogInv).                                       *)
(***************************************************************************)
RecordsTrue ==
  /\ \A p \in DOMAIN tracked :
       SameProcess(p, tracked[p].name) => tracked[p].originals = procs[p].home
  /\ \A d \in decisions :
       d.kind = "restore" /\ SameProcess(d.pid, d.name)
         => d.originals = procs[d.pid].home
  /\ \A p \in DOMAIN orphans :
       SameProcess(p, orphans[p].name) => orphans[p].originals = procs[p].home
  /\ unlogged # None /\ SameProcess(unlogged.pid, unlogged.name)
       => unlogged.priorities = procs[unlogged.pid].home
  /\ game_boost # None /\ SameProcess(game_boost.pid, game_boost.name)
       => game_boost.original_priority = procs[game_boost.pid].home.class

BoostApart ==
  game_boost # None =>
    /\ game_boost.pid \notin DOMAIN tracked
    /\ \A d \in decisions : d.pid # game_boost.pid

CareInv ==
  /\ BaseInv /\ LogInv /\ TargetsKept
  /\ RecordsTrue /\ BoostApart /\ NobodyLeftBehind

\* Nothing but an edit that comes too late, or does not come through, goes
\* wrong.
Careful == Faults \subseteq {"load", "boot_edit"}

LEMMA CarefulWrites == Careful => Outcomes = {TRUE}
BY DEF Careful, Outcomes

\* A live process is at home, or someone holds it.
LEMMA AtHomeFacts ==
  ASSUME BaseInv, NEW p, Live(p)
  PROVE  AtHome(p) <=> /\ procs[p].class = procs[p].home.class
                       /\ procs[p].io = procs[p].home.io
<1>1. procs[p].home \in Priorities /\ procs[p] \in Process
  BY ProcessFacts DEF BaseInv
<1> QED BY <1>1 DEF AtHome, Read, Priorities

\* Between two calls, a process that is not tracked is at home once the boost
\* has been taken back.
LEMMA RestoredHome ==
  ASSUME CareInv, Idle, NEW p \in Pids, procs[p] # Absent, p \notin DOMAIN tracked
  PROVE  /\ BoostRestored(TRUE)[p].class = procs[p].home.class
         /\ BoostRestored(TRUE)[p].io = procs[p].home.io
         /\ procs[p].io = procs[p].home.io
         /\ game_boost = None \/ game_boost.pid # p => AtHome(p)
<1>1. AtHome(p) \/ HeldByBoost(p)
  BY DEF CareInv, NobodyLeftBehind, Live, Idle, Ready, HeldByEngine, HeldByBatch
<1>2. /\ BoostRestored(TRUE)[p].io = procs[p].io
      /\ BoostRestored(TRUE)[p].class =
           IF game_boost # None /\ p = game_boost.pid
                /\ game_boost.name = procs[p].name
           THEN game_boost.original_priority ELSE procs[p].class
  BY BoostRestoredLife DEF CareInv, BaseInv
<1>3. CASE AtHome(p)
  <2>1. procs[p].class = procs[p].home.class /\ procs[p].io = procs[p].home.io
    BY <1>3, AtHomeFacts DEF CareInv, Live
  <2>2. game_boost # None /\ p = game_boost.pid /\ game_boost.name = procs[p].name
          => game_boost.original_priority = procs[p].home.class
    BY DEF CareInv, RecordsTrue, SameProcess, Live
  <2> QED BY <1>2, <1>3, <2>1, <2>2
<1>4. CASE HeldByBoost(p)
  BY <1>2, <1>4 DEF HeldByBoost
<1> QED BY <1>1, <1>3, <1>4

\* Before a process is lowered it is at home: no record of it is pending.
LEMMA LoweredFromHome ==
  ASSUME CareInv, Execute, NEW d \in decisions, d.kind = "downgrade", Live(d.pid)
  PROVE  /\ Read(d.pid) = procs[d.pid].home
         /\ procs[d.pid].name = d.name
<1>1. /\ d.pid \notin DOMAIN tracked
      /\ \A e \in decisions : e.pid = d.pid => e = d
  BY DEF CareInv, BaseInv, Core!IInv, Core!DecisionsConsistent
<1>2. alive /\ ~booting /\ d.pid \in Pids
  BY DEF Execute, Ready, Live
<1>3. ~HeldByEngine(d.pid) /\ ~HeldByBatch(d.pid) /\ ~HeldByBoost(d.pid)
  BY <1>1 DEF HeldByEngine, HeldByBatch, HeldByBoost, CareInv, BoostApart
<1>4. AtHome(d.pid)
  BY <1>2, <1>3 DEF CareInv, NobodyLeftBehind
<1> QED BY <1>4 DEF AtHome, CareInv, TargetsKept

\* A tick boosts a process that is at home, and remembers that class.
LEMMA BoostedFromHome ==
  ASSUME Careful, CareInv, Tick
  PROVE  /\ HandsOver
         /\ \E active \in BOOLEAN, fg_pid \in Pids \cup {NoPid} :
              /\ active => Live(fg_pid) /\ fg_pid \notin DOMAIN tracked
              /\ ReconcileGameBoost(active, fg_pid)
              /\ \A d \in decisions' : d.pid = fg_pid => ~active
         /\ game_boost' # None =>
              /\ game_boost'.pid \in Pids /\ game_boost'.pid \notin DOMAIN tracked
              /\ \A d \in decisions' : d.pid # game_boost'.pid
         /\ game_boost' # None /\ ~UNCHANGED <<procs, game_boost>> =>
              LET p == game_boost'.pid IN
                /\ procs[p] # Absent
                /\ game_boost'.name = procs[p].name
                /\ game_boost'.original_priority = procs[p].home.class
                /\ procs[p].io = procs[p].home.io
<1>1. PICK ruled : TickWith(ruled)
  BY DEF Tick
<1>2. HandsOver
  BY <1>1, TickHandsOver DEF CareInv, BaseInv
<1>3. PICK active \in BOOLEAN, fg_pid \in Pids \cup {NoPid} :
        /\ active => Live(fg_pid)
        /\ active /\ fg_pid \in DOMAIN tracked => "overlap" \in Faults
        /\ ReconcileGameBoost(active, fg_pid)
        /\ \A d \in decisions' : d.kind = "downgrade" => d.pid # fg_pid
  BY <1>1, TickHandsOver DEF CareInv, BaseInv
<1>4. active => fg_pid \notin DOMAIN tracked
  BY <1>3 DEF Careful
<1>5. \A d \in decisions' : d.pid = fg_pid => ~active
  BY <1>2, <1>3, <1>4 DEF HandsOver
<1>6. game_boost' # None => active /\ game_boost'.pid = fg_pid
  BY <1>3, ReconcileEffect DEF CareInv, BaseInv
<1>7. ASSUME game_boost' # None, ~UNCHANGED <<procs, game_boost>>
      PROVE  /\ procs[fg_pid] # Absent
             /\ game_boost'.name = procs[fg_pid].name
             /\ game_boost'.original_priority = procs[fg_pid].home.class
             /\ procs[fg_pid].io = procs[fg_pid].home.io
  <2>1. fg_pid \in Pids /\ procs[fg_pid] # Absent /\ fg_pid \notin DOMAIN tracked
    BY <1>3, <1>4, <1>6, <1>7 DEF Live
  <2>2. /\ game_boost'.name = procs[fg_pid].name
        /\ game_boost'.original_priority = BoostRestored(TRUE)[fg_pid].class
    BY <1>3, <1>7, CarefulWrites, ReconcileEffect DEF CareInv, BaseInv
  <2>3. Idle
    BY <1>1 DEF TickWith
  <2> QED BY <2>1, <2>2, <2>3, RestoredHome
<1>8. game_boost' # None => fg_pid \in Pids
  BY <1>3, <1>6 DEF Live
<1> QED BY <1>2, <1>3, <1>4, <1>5, <1>6, <1>7, <1>8


\* A reload asks for nothing to be lowered.
LEMMA ReloadRestores ==
  ASSUME Reload, NEW d \in decisions' PROVE d.kind = "restore"
BY DEF Reload, Idle, Engine!UpdateConfig, Engine!TakeAll, Engine!Restores

LEMMA ApartNext ==
  ASSUME Careful, CareInv, [RuntimeNext]_rtvars PROVE BoostApart'
<1> SUFFICES ASSUME game_boost' # None
             PROVE  /\ game_boost'.pid \notin DOMAIN tracked'
                    /\ \A d \in decisions' : d.pid # game_boost'.pid
  BY DEF BoostApart
<1>1. CASE Tick
  BY <1>1, BoostedFromHome DEF HandsOver
<1>2. CASE ~Tick
  <2>1. /\ game_boost' = game_boost
        /\ Reload \/ Execute \/ AppendLog \/ Exit \/ Processes \/ SaveConfig
             \/ UNCHANGED rtvars
    BY <1>2
    DEF RuntimeNext, Service, Start, FinishStart, Reload, DisabledTick,
        RestoreGameBoost, Execute, AppendLog, Stop, Exit, Crash, Processes,
        SaveConfig, rtvars, CareInv, BaseInv, Quiet
  <2>2. /\ game_boost.pid \notin DOMAIN tracked
        /\ \A d \in decisions : d.pid # game_boost.pid
    BY <2>1 DEF CareInv, BoostApart
  <2>3. CASE Reload
    BY <2>1, <2>2, <2>3, ReloadHandsOver, ReloadRestores DEF HandsOver
  <2>4. CASE Execute
    <3>1. PICK d \in decisions :
            /\ decisions' = decisions \ {d}
            /\ \/ d.kind = "downgrade" /\ Downgrade(d)
               \/ d.kind = "restore" /\ Restore(d)
      BY <2>4 DEF Execute
    <3>2. DOMAIN tracked' \subseteq DOMAIN tracked \cup {d.pid}
      BY <3>1 DEF Downgrade, Restore, Engine!MarkDowngraded, engineState
    <3> QED BY <2>1, <2>2, <3>1, <3>2
  <2>5. CASE AppendLog \/ Exit \/ Processes \/ SaveConfig \/ UNCHANGED rtvars
    BY <2>1, <2>2, <2>5
    DEF AppendLog, Exit, Processes, SaveConfig, rtvars, engineState
  <2> QED BY <2>1, <2>3, <2>4, <2>5
<1> QED BY <1>1, <1>2

\* Every record about one process, whoever keeps it.
RecordOf(p, name, home) ==
  \/ p \in DOMAIN tracked /\ name = tracked[p].name /\ home = tracked[p].originals
  \/ \E d \in decisions :
       /\ d.kind = "restore" /\ d.pid = p
       /\ name = d.name /\ home = d.originals
  \/ p \in DOMAIN orphans /\ name = orphans[p].name /\ home = orphans[p].originals
  \/ /\ unlogged # None /\ unlogged.pid = p
     /\ name = unlogged.name /\ home = unlogged.priorities

\* No step invents a record: what is recorded afterwards was recorded before,
\* or is what a process at home had when it was lowered.
LEMMA RecordsMove ==
  ASSUME CareInv, [RuntimeNext]_rtvars, NEW p, NEW name, NEW home,
         RecordOf(p, name, home)'
  PROVE  \/ RecordOf(p, name, home)
         \/ /\ Execute /\ Live(p)
            /\ procs[p].name = name /\ procs[p].home = home
<1>1. CASE HandsOver /\ UNCHANGED <<unlogged, orphans>>
  BY <1>1 DEF HandsOver, RecordOf
<1>2. CASE Execute
  <2>1. PICK d \in decisions :
        /\ decisions' = decisions \ {d}
        /\ \/ d.kind = "downgrade" /\ Downgrade(d)
           \/ d.kind = "restore" /\ Restore(d)
    BY <1>2 DEF Execute
  <2>2. UNCHANGED orphans
    BY <1>2 DEF Execute
  <2>3. CASE d.kind = "restore"
    <3>1. /\ unlogged'.pid = d.pid /\ unlogged'.name = d.name
          /\ unlogged'.priorities = d.originals /\ UNCHANGED tracked
      BY <2>1, <2>3, RestoreEffect DEF CareInv, BaseInv, engineState
    <3> QED BY <2>1, <2>2, <2>3, <3>1 DEF RecordOf
  <2>4. CASE d.kind = "downgrade" /\ UNCHANGED <<engineState, call, procs, unlogged>>
    BY <2>1, <2>2, <2>4 DEF RecordOf, engineState
  <2>5. CASE d.kind = "downgrade" /\ ~UNCHANGED <<engineState, call, procs, unlogged>>
    <3>1. /\ Live(d.pid)
          /\ \E t \in Times : Engine!MarkDowngraded(d, Read(d.pid), t)
          /\ unlogged' = [action |-> "downgrade", pid |-> d.pid,
                          name |-> d.name, priorities |-> Read(d.pid),
                          written |-> TRUE]
      BY <2>1, <2>5, DowngradeEffect DEF CareInv, BaseInv
    <3>2. Read(d.pid) = procs[d.pid].home /\ procs[d.pid].name = d.name
      BY <1>2, <2>5, <3>1, LoweredFromHome
    <3>3. \A q \in DOMAIN tracked' :
            \/ /\ q = d.pid /\ tracked'[q].name = d.name
               /\ tracked'[q].originals = Read(d.pid)
            \/ q \in DOMAIN tracked /\ tracked'[q] = tracked[q]
      BY <3>1 DEF Engine!MarkDowngraded
    <3>4. /\ unlogged'.pid = d.pid /\ unlogged'.name = d.name
          /\ unlogged'.priorities = Read(d.pid)
      BY <3>1
    <3> QED BY <1>2, <2>1, <2>2, <3>1, <3>2, <3>3, <3>4 DEF RecordOf
  <2> QED BY <2>1, <2>3, <2>4, <2>5
<1>3. CASE AppendLog
  <2>1. \A q \in DOMAIN orphans' :
          \/ /\ q = unlogged.pid /\ orphans'[q].name = unlogged.name
             /\ orphans'[q].originals = unlogged.priorities
          \/ q \in DOMAIN orphans /\ orphans'[q] = orphans[q]
    BY <1>3 DEF AppendLog, With, Without
  <2>2. unlogged # None /\ unlogged' = None /\ UNCHANGED <<tracked, decisions>>
    BY <1>3 DEF AppendLog, engineState
  <2> QED BY <2>1, <2>2 DEF RecordOf
<1>4. CASE Start \/ Crash
  BY <1>4 DEF Start, Crash, NewEngine, RecordOf
<1>5. CASE FinishStart
  <2>1. \A d \in decisions' :
          /\ d.pid \in DOMAIN orphans /\ d.name = orphans[d.pid].name
          /\ d.originals = orphans[d.pid].originals
    BY <1>5 DEF FinishStart
  <2> QED BY <1>5, <2>1 DEF FinishStart, RecordOf, engineState
<1>6. CASE Exit \/ Processes \/ SaveConfig \/ UNCHANGED rtvars
  BY <1>6 DEF Exit, Processes, SaveConfig, rtvars, engineState, RecordOf
<1>7. CASE Reload \/ DisabledTick \/ Tick \/ Stop
  <2>1. HandsOver
    BY <1>7, ReloadHandsOver, DisabledTickHandsOver, TickHandsOver, StopHandsOver
    DEF Tick, CareInv, BaseInv
  <2>2. UNCHANGED <<unlogged, orphans>>
    BY <1>7 DEF Reload, DisabledTick, Tick, TickWith, Stop
  <2> QED BY <1>1, <2>1, <2>2
<1> QED
  BY <1>2, <1>3, <1>4, <1>5, <1>6, <1>7 DEF RuntimeNext, Service

\* The same for the boost.
LEMMA BoostMoves ==
  ASSUME Careful, CareInv, [RuntimeNext]_rtvars, game_boost' # None
  PROVE  \/ game_boost' = game_boost
         \/ LET p == game_boost'.pid IN
              /\ Tick /\ Live(p)
              /\ game_boost'.name = procs[p].name
              /\ game_boost'.original_priority = procs[p].home.class
<1>1. CASE Tick
  BY <1>1, BoostedFromHome DEF Live
<1>2. CASE ~Tick
  BY <1>2
  DEF RuntimeNext, Service, Start, FinishStart, Reload, DisabledTick,
      RestoreGameBoost, Execute, AppendLog, Stop, Exit, Crash, Processes,
      SaveConfig, rtvars
<1> QED BY <1>1, <1>2

\* A record that is right stays right: nobody starts under a remembered name.
LEMMA RecordsNext ==
  ASSUME Careful, CareInv, [RuntimeNext]_rtvars PROVE RecordsTrue'
<1>1. ASSUME NEW p \in Pids, NEW name, NEW home, RecordOf(p, name, home)',
             procs'[p] # Absent, procs'[p].name = name
      PROVE  home = procs'[p].home
  <2>1. CASE Processes
    <3>1. RecordOf(p, name, home)
      BY <1>1, <2>1 DEF Processes, RecordOf, engineState
    <3>2. ~Remembered(p, name) => FALSE
      BY <3>1 DEF RecordOf, Remembered
    <3>3. procs'[p] = procs[p]
      BY <1>1, <2>1, <3>2, ProcessesEffect DEF CareInv, Careful
    <3> QED BY <1>1, <3>1, <3>3 DEF RecordOf, CareInv, RecordsTrue, SameProcess, Live
  <2>2. CASE ~Processes
    <3>1. /\ procs[p] # Absent
          /\ procs'[p].name = procs[p].name /\ procs'[p].home = procs[p].home
      BY <1>1, <2>2, LifeNext DEF SameLife, CareInv
    <3>2. CASE RecordOf(p, name, home)
      BY <1>1, <3>1, <3>2 DEF RecordOf, CareInv, RecordsTrue, SameProcess, Live
    <3> QED BY <1>1, <3>1, <3>2, RecordsMove
  <2> QED BY <2>1, <2>2
<1>2. ASSUME game_boost' # None, game_boost'.pid \in Pids,
             procs'[game_boost'.pid] # Absent,
             procs'[game_boost'.pid].name = game_boost'.name
      PROVE  game_boost'.original_priority = procs'[game_boost'.pid].home.class
  <2> DEFINE p == game_boost'.pid
  <2>1. CASE Processes
    <3>1. game_boost' = game_boost
      BY <2>1 DEF Processes
    <3>2. Remembered(p, game_boost'.name)
      BY <1>2, <3>1 DEF Remembered
    <3>3. procs'[p] = procs[p]
      BY <1>2, <2>1, <3>2, ProcessesEffect DEF CareInv, Careful
    <3> QED BY <1>2, <3>1, <3>3 DEF CareInv, RecordsTrue, SameProcess, Live
  <2>2. CASE ~Processes
    <3>1. /\ procs[p] # Absent
          /\ procs'[p].name = procs[p].name /\ procs'[p].home = procs[p].home
      BY <1>2, <2>2, LifeNext DEF SameLife, CareInv
    <3> QED BY <1>2, <3>1, BoostMoves DEF CareInv, RecordsTrue, SameProcess, Live
  <2> QED BY <2>1, <2>2
<1>3. \A p \in DOMAIN tracked' :
        p \in Pids /\ procs'[p] # Absent /\ procs'[p].name = tracked'[p].name
          => tracked'[p].originals = procs'[p].home
  BY <1>1 DEF RecordOf
<1>4. \A d \in decisions' :
        /\ d.kind = "restore" /\ d.pid \in Pids
        /\ procs'[d.pid] # Absent /\ procs'[d.pid].name = d.name
        => d.originals = procs'[d.pid].home
  BY <1>1 DEF RecordOf
<1>5. \A p \in DOMAIN orphans' :
        p \in Pids /\ procs'[p] # Absent /\ procs'[p].name = orphans'[p].name
          => orphans'[p].originals = procs'[p].home
  BY <1>1 DEF RecordOf
<1>6. /\ unlogged' # None /\ unlogged'.pid \in Pids
      /\ procs'[unlogged'.pid] # Absent
      /\ procs'[unlogged'.pid].name = unlogged'.name
      => unlogged'.priorities = procs'[unlogged'.pid].home
  BY <1>1 DEF RecordOf
<1> QED BY <1>2, <1>3, <1>4, <1>5, <1>6 DEF RecordsTrue, SameProcess, Live


\* Between two calls the batch holds nobody.
LEMMA IdleHolders ==
  ASSUME CareInv, Idle, NEW p \in Pids, procs[p] # Absent, ~AtHome(p)
  PROVE  HeldByEngine(p) \/ HeldByBoost(p)
BY DEF CareInv, NobodyLeftBehind, Live, Idle, Ready, HeldByBatch

\* A process the engine holds is held by it or by the batch after a call.
LEMMA HeldAfterCall ==
  ASSUME Careful, HandsOver, NEW p \in Pids, procs[p] # Absent,
         HeldByEngine(p), procs'[p] = procs[p]
  PROVE  HeldByEngine(p)' \/ HeldByBatch(p)'
<1>1. /\ p \in DOMAIN tracked
      /\ tracked[p].name = procs[p].name /\ tracked[p].originals = procs[p].home
  BY DEF HeldByEngine
<1>2. CASE p \in DOMAIN tracked'
  BY <1>1, <1>2 DEF HandsOver, HeldByEngine
<1>3. CASE p \notin DOMAIN tracked'
  <2>1. PICK d \in decisions' :
          /\ d.kind = "restore" /\ d.pid = p
          /\ d.reason = "process_exited" => ~Live(p) \/ "sampler" \in Faults
    BY <1>1, <1>3 DEF HandsOver
  <2>2. d.reason # "process_exited"
    BY <2>1 DEF Live, Careful
  <2>3. d.name = tracked[p].name /\ d.originals = tracked[p].originals
    BY <1>1, <2>1 DEF HandsOver
  <2> QED BY <1>1, <2>1, <2>2, <2>3 DEF HeldByBatch
<1> QED BY <1>2, <1>3

\* What a call does to one process: it is touched only by the boost.
LEMMA CallTouches ==
  ASSUME Careful, CareInv, Reload \/ DisabledTick \/ Tick \/ Stop, NEW p \in Pids
  PROVE  /\ SameLife(p)
         /\ \/ UNCHANGED <<procs, game_boost>>
            \/ procs'[p] = BoostRestored(TRUE)[p]
            \/ /\ game_boost' # None /\ game_boost'.pid = p
               /\ ~UNCHANGED <<procs, game_boost>>
<1>1. CASE Reload
  BY <1>1 DEF Reload, SameLife
<1>2. CASE DisabledTick \/ Stop
  <2>1. procs' = BoostRestored(TRUE)
    BY <1>2, CarefulWrites DEF DisabledTick, Stop, RestoreGameBoost
  <2> QED BY <2>1, BoostRestoredLife DEF SameLife, CareInv, BaseInv
<1>3. CASE Tick
  <2>1. PICK active \in BOOLEAN, fg_pid \in Pids \cup {NoPid} :
          /\ active => Live(fg_pid)
          /\ ReconcileGameBoost(active, fg_pid)
    BY <1>3, BoostedFromHome
  <2>2. /\ SameLife(p)
        /\ \/ UNCHANGED <<procs, game_boost>>
           \/ procs'[p] = BoostRestored(TRUE)[p]
           \/ game_boost' # None /\ game_boost'.pid = p
    BY <2>1, CarefulWrites, ReconcileLife DEF CareInv, BaseInv
  <2> QED BY <2>2
<1> QED BY <1>1, <1>2, <1>3

\* A call of the engine leaves nobody behind.
LEMMA CareCalls ==
  ASSUME Careful, CareInv, Reload \/ DisabledTick \/ Tick \/ Stop,
         NEW p \in Pids, procs'[p] # Absent, ~AtHome(p)'
  PROVE  HeldByEngine(p)' \/ HeldByBatch(p)' \/ HeldByBoost(p)'
<1>1. HandsOver /\ Idle
  BY ReloadHandsOver, DisabledTickHandsOver, TickHandsOver, StopHandsOver
  DEF Tick, CareInv, BaseInv, Reload, DisabledTick, TickWith, Stop
<1>2. /\ procs[p] # Absent
      /\ procs'[p].name = procs[p].name /\ procs'[p].home = procs[p].home
  BY CallTouches DEF SameLife
<1>3. CASE UNCHANGED <<procs, game_boost>>
  <2>1. ~AtHome(p)
    BY <1>3 DEF AtHome, Read
  <2>2. CASE HeldByBoost(p)
    BY <1>3, <2>2 DEF HeldByBoost
  <2>3. CASE HeldByEngine(p)
    BY <1>1, <1>2, <1>3, <2>3, HeldAfterCall
  <2> QED BY <1>1, <1>2, <2>1, <2>2, <2>3, IdleHolders
<1>4. CASE procs'[p] = BoostRestored(TRUE)[p] /\ p \in DOMAIN tracked
  <2>1. game_boost = None \/ game_boost.pid # p
    BY <1>4 DEF CareInv, BoostApart
  <2>2. procs'[p] = procs[p]
    BY <1>4, <2>1, BoostRestoredFacts DEF CareInv, BaseInv
  <2>3. ~AtHome(p) /\ ~HeldByBoost(p)
    BY <2>1, <2>2 DEF AtHome, Read, HeldByBoost
  <2> QED BY <1>1, <1>2, <2>2, <2>3, IdleHolders, HeldAfterCall
<1>5. CASE procs'[p] = BoostRestored(TRUE)[p] /\ p \notin DOMAIN tracked
  <2>1. /\ procs'[p].class = procs'[p].home.class
        /\ procs'[p].io = procs'[p].home.io
    BY <1>1, <1>2, <1>5, RestoredHome, BoostRestoredLife DEF CareInv, BaseInv
  <2>2. procs'[p].home \in Priorities
    BY <1>2, ProcessFacts DEF Live, CareInv, BaseInv
  <2>3. AtHome(p)'
    BY <2>1, <2>2 DEF AtHome, Read, Priorities
  <2> QED BY <2>3
<1>6. CASE /\ game_boost' # None /\ game_boost'.pid = p
           /\ ~UNCHANGED <<procs, game_boost>>
  <2>1. Tick
    BY <1>6 DEF Reload, DisabledTick, Stop, RestoreGameBoost
  <2>2. /\ game_boost'.name = procs[p].name
        /\ game_boost'.original_priority = procs[p].home.class
        /\ procs[p].io = procs[p].home.io
    BY <1>6, <2>1, BoostedFromHome
  <2>3. procs'[p].io = procs[p].io
    <3>1. PICK active \in BOOLEAN, fg_pid \in Pids \cup {NoPid} :
            /\ active => Live(fg_pid)
            /\ ReconcileGameBoost(active, fg_pid)
      BY <2>1, BoostedFromHome
    <3> QED BY <1>2, <3>1, ReconcileLife DEF CareInv, BaseInv
  <2> QED BY <1>2, <1>6, <2>2, <2>3 DEF HeldByBoost
<1> QED BY <1>3, <1>4, <1>5, <1>6, CallTouches

\* Nor does the execution of a decision.
LEMMA CareExecute ==
  ASSUME Careful, CareInv, Execute,
         NEW p \in Pids, procs'[p] # Absent, ~AtHome(p)'
  PROVE  HeldByEngine(p)' \/ HeldByBatch(p)' \/ HeldByBoost(p)'
<1>1. PICK d \in decisions :
        /\ decisions' = decisions \ {d}
        /\ \/ d.kind = "downgrade" /\ Downgrade(d)
           \/ d.kind = "restore" /\ Restore(d)
  BY DEF Execute
<1>2. alive /\ ~booting /\ UNCHANGED game_boost
  BY DEF Execute, Ready
<1>3. [RuntimeNext]_rtvars /\ ~Processes
  BY DEF RuntimeNext, Service, Execute, Processes
<1>4. /\ procs[p] # Absent
      /\ procs'[p].name = procs[p].name /\ procs'[p].home = procs[p].home
  BY <1>3, LifeNext DEF SameLife, CareInv
<1>5. \A e \in decisions : e = d \/ e \in decisions'
  BY <1>1
<1>6. CASE procs'[p] = procs[p] /\ (d.kind = "restore" /\ d.pid = p =>
              d.reason = "process_exited" \/ d.name # procs[p].name)
  <2>1. ~AtHome(p)
    BY <1>6 DEF AtHome, Read
  <2>2. HeldByEngine(p) \/ HeldByBatch(p) \/ HeldByBoost(p)
    BY <1>2, <1>4, <2>1 DEF CareInv, NobodyLeftBehind, Live
  <2>3. CASE HeldByBoost(p)
    BY <1>2, <1>6, <2>3 DEF HeldByBoost
  <2>4. CASE HeldByBatch(p)
    <3>1. PICK e \in decisions :
            /\ e.kind = "restore" /\ e.reason # "process_exited"
            /\ e.pid = p /\ e.name = procs[p].name
            /\ e.originals = procs[p].home
      BY <2>4 DEF HeldByBatch
    <3>2. e # d
      BY <1>6, <3>1
    <3> QED BY <1>5, <1>6, <3>1, <3>2 DEF HeldByBatch
  <2>5. CASE HeldByEngine(p)
    <3>1. d.pid \notin DOMAIN tracked
      BY DEF CareInv, BaseInv, Core!IInv, Core!DecisionsConsistent
    <3>2. p \in DOMAIN tracked' /\ tracked'[p] = tracked[p]
      BY <1>1, <2>5, <3>1
      DEF HeldByEngine, Downgrade, Restore, Engine!MarkDowngraded, engineState
    <3> QED BY <1>6, <2>5, <3>2 DEF HeldByEngine
  <2> QED BY <2>2, <2>3, <2>4, <2>5
<1>7. CASE d.kind = "downgrade" /\ procs'[p] # procs[p]
  <2>1. /\ Live(d.pid) /\ p = d.pid
        /\ \E t \in Times : Engine!MarkDowngraded(d, Read(d.pid), t)
    BY <1>1, <1>7, DowngradeEffect DEF CareInv, BaseInv
  <2>2. Read(p) = procs[p].home /\ procs[p].name = d.name
    BY <1>7, <2>1, LoweredFromHome
  <2>3. /\ p \in DOMAIN tracked' /\ tracked'[p].name = d.name
        /\ tracked'[p].originals = Read(p)
    BY <2>1 DEF Engine!MarkDowngraded
  <2> QED BY <1>4, <2>2, <2>3 DEF HeldByEngine
<1>8. CASE d.kind = "restore" /\ d.pid = p /\ d.reason # "process_exited"
             /\ d.name = procs[p].name
  <2>1. SameProcess(d.pid, d.name)
    BY <1>4, <1>8 DEF SameProcess, Live
  <2>2. d.originals = procs[p].home
    BY <1>8, <2>1 DEF CareInv, RecordsTrue
  <2>3. Outcomes = {TRUE}
    BY DEF Outcomes, Careful
  <2>4. /\ procs'[p].class = d.originals.class /\ procs'[p].io = d.originals.io
        /\ d.originals \in Priorities
    BY <1>1, <1>8, <2>1, <2>3, RestoreEffect DEF CareInv, BaseInv
  <2>5. AtHome(p)'
    BY <1>4, <2>2, <2>4 DEF AtHome, Read, Priorities
  <2> QED BY <2>5
<1>9. CASE d.kind = "restore" /\ procs'[p] # procs[p]
  <2>1. /\ p = d.pid
        /\ d.reason # "process_exited" /\ SameProcess(d.pid, d.name)
    BY <1>1, <1>9, RestoreEffect DEF CareInv, BaseInv
  <2> QED BY <1>8, <1>9, <2>1 DEF SameProcess
<1> QED BY <1>1, <1>6, <1>7, <1>8, <1>9

\* Nor do a start, the end of the service, and what goes on around it.
LEMMA CareOthers ==
  ASSUME Careful, CareInv,
         \/ Start \/ FinishStart \/ AppendLog \/ Exit \/ Crash \/ Processes
         \/ SaveConfig \/ UNCHANGED rtvars
  PROVE  NobodyLeftBehind'
<1> SUFFICES ASSUME NEW p \in Pids, procs'[p] # Absent, ~AtHome(p)'
             PROVE  IF alive' /\ ~booting'
                    THEN HeldByEngine(p)' \/ HeldByBatch(p)' \/ HeldByBoost(p)'
                    ELSE HeldByLog(p)'
  BY DEF NobodyLeftBehind, Live
<1> DEFINE Holder == IF alive /\ ~booting
                     THEN HeldByEngine(p) \/ HeldByBatch(p) \/ HeldByBoost(p)
                     ELSE HeldByLog(p)
<1>1. procs'[p] = procs[p] => Holder
  <2>1. procs'[p] = procs[p] => ~AtHome(p)
    BY DEF AtHome, Read
  <2> QED BY <2>1 DEF CareInv, NobodyLeftBehind, Live
<1>2. CASE Processes
  <2>1. PICK q \in Pids :
          /\ \A r \in Pids : r # q => procs'[r] = procs[r]
          /\ \/ procs'[q] = Absent
             \/ /\ procs'[q] \in Process
                /\ procs'[q].class = procs'[q].home.class
                /\ procs'[q].io = procs'[q].home.io
    BY <1>2, ProcessesEffect DEF CareInv
  <2>2. q # p
    <3>1. CASE q = p
      <4>1. procs'[p].home \in Priorities
        BY <2>1, <3>1 DEF Process
      <4>2. AtHome(p)'
        BY <2>1, <3>1, <4>1 DEF AtHome, Read, Priorities
      <4> QED BY <4>2
    <3> QED BY <3>1
  <2>3. procs'[p] = procs[p]
    BY <2>1, <2>2
  <2> QED
    BY <1>1, <1>2, <2>3
    DEF Processes, engineState, HeldByEngine, HeldByBatch, HeldByBoost, HeldByLog
<1>3. CASE SaveConfig \/ UNCHANGED rtvars
  BY <1>1, <1>3
  DEF SaveConfig, rtvars, engineState, HeldByEngine, HeldByBatch, HeldByBoost,
      HeldByLog
<1>4. CASE Start
  BY <1>1, <1>4 DEF Start, HeldByLog
<1>5. CASE FinishStart
  <2>1. HeldByLog(p) /\ procs' = procs
    BY <1>1, <1>5 DEF FinishStart
  <2>2. /\ p \in DOMAIN orphans /\ orphans[p].name = procs[p].name
        /\ orphans[p].originals = procs[p].home
    BY <2>1 DEF HeldByLog
  <2>3. [kind |-> "restore", pid |-> p, name |-> orphans[p].name,
         originals |-> orphans[p].originals, reason |-> "startup_reconcile"]
          \in decisions'
    BY <1>5, <2>2 DEF FinishStart
  <2>4. HeldByBatch(p)'
    BY <2>1, <2>2, <2>3 DEF HeldByBatch
  <2>5. alive' /\ ~booting'
    BY <1>5 DEF FinishStart, CareInv, BaseInv, Quiet
  <2> QED BY <2>4, <2>5
<1>6. CASE AppendLog
  <2>1. alive /\ ~booting /\ alive' /\ ~booting'
    BY <1>6 DEF AppendLog, CareInv, BaseInv, Quiet
  <2> QED
    BY <1>1, <1>6, <2>1
    DEF AppendLog, engineState, HeldByEngine, HeldByBatch, HeldByBoost
<1>7. CASE Exit
  <2>1. /\ alive /\ ~booting /\ procs' = procs
        /\ decisions = {} /\ game_boost = None /\ DOMAIN tracked = {}
    BY <1>7
    DEF Exit, Ready, CareInv, BaseInv, Quiet, Core!IInv,
        Core!TrackedOnlyWhileEngaged
  <2> QED BY <1>1, <2>1 DEF HeldByEngine, HeldByBatch, HeldByBoost
<1>8. CASE Crash
  <2>1. /\ alive /\ ~alive' /\ procs' = procs /\ orphans' = orphans
        /\ game_boost = None
        /\ unlogged # None => unlogged.action # "downgrade"
    BY <1>8 DEF Crash, Careful
  <2>2. HeldByLog(p) => HeldByLog(p)'
    BY <2>1 DEF HeldByLog
  <2>3. CASE booting
    BY <1>1, <2>1, <2>2, <2>3
  <2>4. CASE ~booting
    <3>1. CASE HeldByEngine(p)
      <4>1. p \in DOMAIN orphans /\ orphans[p] = Entry(tracked[p])
        BY <2>1, <2>4, <3>1 DEF CareInv, LogInv, HeldByEngine
      <4> QED BY <2>1, <2>2, <3>1, <4>1 DEF HeldByEngine, HeldByLog, Entry
    <3>2. CASE HeldByBatch(p)
      <4>1. PICK d \in decisions :
              /\ d.kind = "restore" /\ d.pid = p
              /\ d.name = procs[p].name /\ d.originals = procs[p].home
        BY <3>2 DEF HeldByBatch
      <4>2. p \in DOMAIN orphans /\ orphans[p] = Entry(d)
        BY <2>1, <2>4, <4>1 DEF CareInv, LogInv
      <4> QED BY <2>1, <2>2, <4>1, <4>2 DEF HeldByLog, Entry
    <3> QED BY <1>1, <2>1, <2>4, <3>1, <3>2 DEF HeldByBoost
  <2> QED BY <2>3, <2>4
<1> QED BY <1>2, <1>3, <1>4, <1>5, <1>6, <1>7, <1>8

LEMMA CareNext ==
  ASSUME Careful PROVE CareInv /\ [RuntimeNext]_rtvars => CareInv'
<1> SUFFICES ASSUME CareInv, [RuntimeNext]_rtvars PROVE CareInv'
  OBVIOUS
<1>1. BaseInv' /\ LogInv' /\ TargetsKept' /\ RecordsTrue' /\ BoostApart'
  BY BaseNext, LogNext, TargetsNext, RecordsNext, ApartNext DEF CareInv, Careful
<1>2. NobodyLeftBehind'
  <2>1. CASE Reload \/ DisabledTick \/ Tick \/ Stop \/ Execute
    <3>1. \A p \in Pids : procs'[p] # Absent /\ ~AtHome(p)' =>
            HeldByEngine(p)' \/ HeldByBatch(p)' \/ HeldByBoost(p)'
      BY <2>1, CareCalls, CareExecute
    <3>2. alive' /\ ~booting'
      BY <2>1 DEF Reload, DisabledTick, Tick, TickWith, Stop, Execute, Idle, Ready
    <3> QED BY <3>1, <3>2 DEF NobodyLeftBehind, Live
  <2> QED BY <2>1, CareOthers DEF RuntimeNext, Service
<1> QED BY <1>1, <1>2 DEF CareInv

\* No process is left behind: through reloads, stops, crashes between any two
\* steps and restarts, a live process that is not at the priorities it chose
\* is on the record of whoever must restore it (runtime.rs, execute_*,
\* reconcile_game_boost, reconcile_orphans; journal.rs, pair_orphans).
\* Configurations that cannot be read or are saved at a bad moment do not
\* change that; each of the faults Careful excludes can.
THEOREM NobodyIsLeftBehind ==
  ASSUME Careful PROVE RuntimeSpec => []NobodyLeftBehind
<1>1. RuntimeInit => CareInv
  <2>1. RuntimeInit => /\ LogInv /\ TargetsKept /\ RecordsTrue /\ BoostApart
                       /\ NobodyLeftBehind
    BY DEF RuntimeInit, LogInv, TargetsKept, RecordsTrue, BoostApart,
           NobodyLeftBehind, Live
  <2> QED BY <2>1, BaseInit DEF CareInv
<1>2. CareInv => NobodyLeftBehind
  BY DEF CareInv
<1> QED BY <1>1, <1>2, CareNext, PTL DEF RuntimeSpec

-----------------------------------------------------------------------------
\* Induction over the naturals, for a set.
Before == {ss \in Nat \X Nat : ss[1] < ss[2]}

LEMMA BeforeIsWellFounded == IsWellFoundedOn(Before, Nat)
<1>1. OpToRel(<, Nat) = Before
  BY DEF OpToRel, Before
<1> QED BY <1>1, NatLessThanWellFounded

LEMMA InductionOnNat ==
  ASSUME NEW S, 0 \in S, \A n \in Nat : n \in S => n + 1 \in S
  PROVE  Nat \subseteq S
<1> SUFFICES ASSUME ~(Nat \subseteq S) PROVE FALSE
  OBVIOUS
<1>1. PICK n \in Nat \ S : \A m \in Nat \ S : ~(<<m, n>> \in Before)
  <2>1. Nat \ S \subseteq Nat /\ Nat \ S # {}
    OBVIOUS
  <2> QED BY <2>1, BeforeIsWellFounded, WFMin
<1>2. n # 0 /\ n - 1 \in Nat /\ n - 1 < n /\ (n - 1) + 1 = n
  BY <1>1
<1>3. <<n - 1, n>> \in Before
  BY <1>2 DEF Before
<1>4. n - 1 \in S
  BY <1>1, <1>2, <1>3
<1> QED BY <1>1, <1>2, <1>4

-----------------------------------------------------------------------------
(* What the rules leave is a priority again *)

\* apply_one on what rule i finds.
OneRule(name, R, reach, i, x) ==
  IF i \in Active(R) /\ name \in R[i].images THEN Applied(x, R[i], reach) ELSE x

LEMMA OneRuleType ==
  ASSUME NEW R \in RuleLists, \A i \in Active(R) : R[i].valid,
         NEW name, NEW reach, NEW i, NEW x \in Priorities
  PROVE  OneRule(name, R, reach, i, x) \in Priorities
BY RuleAssumption DEF OneRule, Applied, Or, Active, Priorities

Passes(name, current, R, reach, f, n) ==
  f = [i \in 0..n |-> IF i = 0 THEN current
                      ELSE OneRule(name, R, reach, i, f[i-1])]

LEMMA PassesExist ==
  ASSUME NEW name, NEW current, NEW R, NEW reach, NEW n \in Nat
  PROVE  \E f : Passes(name, current, R, reach, f, n)
<1> DEFINE S == {m \in Nat : \E f : Passes(name, current, R, reach, f, m)}
<1>1. 0 \in S
  <2>1. Passes(name, current, R, reach, [i \in 0..0 |-> current], 0)
    BY DEF Passes
  <2> QED BY <2>1
<1>2. ASSUME NEW m \in Nat, m \in S PROVE m + 1 \in S
  <2>1. PICK f : Passes(name, current, R, reach, f, m)
    BY <1>2
  <2> DEFINE g == [i \in 0..m+1 |-> IF i = m + 1
                                    THEN OneRule(name, R, reach, m + 1, f[m])
                                    ELSE f[i]]
  <2>2. ASSUME NEW i \in 0..m+1
        PROVE  g[i] = IF i = 0 THEN current
                      ELSE OneRule(name, R, reach, i, g[i-1])
    <3>1. CASE i = m + 1
      <4>1. i # 0 /\ i - 1 = m /\ m \in 0..m+1 /\ m # m + 1
        BY <3>1
      <4> QED BY <3>1, <4>1
    <3>2. CASE i # m + 1
      <4>1. i \in 0..m
        BY <3>2
      <4>2. g[i] = f[i]
        BY <3>2
      <4>3. i # 0 => i - 1 \in 0..m+1 /\ i - 1 # m + 1
        BY <3>2
      <4>4. i # 0 => g[i-1] = f[i-1]
        BY <4>3
      <4>5. f[i] = IF i = 0 THEN current ELSE OneRule(name, R, reach, i, f[i-1])
        BY <2>1, <4>1 DEF Passes
      <4> QED BY <4>2, <4>4, <4>5
    <3> QED BY <3>1, <3>2
  <2>3. Passes(name, current, R, reach, g, m + 1)
    BY <2>2 DEF Passes
  <2> QED BY <2>3
<1> HIDE DEF S
<1>3. Nat \subseteq S
  BY <1>1, <1>2, InductionOnNat
<1>4. n \in S
  BY <1>3
<1> QED BY <1>4 DEF S

LEMMA PassesType ==
  ASSUME NEW R \in RuleLists, \A i \in Active(R) : R[i].valid,
         NEW name, NEW reach, NEW current \in Priorities, NEW f, NEW n \in Nat,
         Passes(name, current, R, reach, f, n)
  PROVE  f[n] \in Priorities
<1> DEFINE S == {m \in Nat : m <= n => f[m] \in Priorities}
<1>1. 0 \in S
  BY DEF Passes
<1>2. ASSUME NEW m \in Nat, m \in S PROVE m + 1 \in S
  <2> SUFFICES ASSUME m + 1 <= n PROVE f[m + 1] \in Priorities
    OBVIOUS
  <2>1. f[m] \in Priorities
    BY <1>2
  <2>2. f[m + 1] = OneRule(name, R, reach, m + 1, f[m])
    <3>1. m + 1 \in 0..n /\ m + 1 # 0 /\ (m + 1) - 1 = m
      OBVIOUS
    <3> QED BY <3>1 DEF Passes
  <2> QED BY <2>1, <2>2, OneRuleType
<1> HIDE DEF S
<1>3. Nat \subseteq S
  BY <1>1, <1>2, InductionOnNat
<1>4. n \in S
  BY <1>3
<1> QED BY <1>4 DEF S

LEMMA AfterRulesType ==
  ASSUME NEW R \in RuleLists, \A i \in Active(R) : R[i].valid,
         NEW name, NEW reach, NEW current \in Priorities
  PROVE  AfterRules(name, current, R, reach) \in Priorities
<1>1. Len(R) \in Nat
  BY RuleAssumption
<1> DEFINE h == CHOOSE f : f = [i \in 0..Len(R) |->
                  IF i = 0 THEN current
                  ELSE IF i \in Active(R) /\ name \in R[i].images
                       THEN Applied(f[i-1], R[i], reach)
                       ELSE f[i-1]]
<1>2. AfterRules(name, current, R, reach) = h[Len(R)]
  BY DEF AfterRules
<1>3. PICK f : Passes(name, current, R, reach, f, Len(R))
  BY <1>1, PassesExist
<1>4. Passes(name, current, R, reach, h, Len(R))
  BY <1>3 DEF Passes, OneRule
<1> HIDE DEF h
<1> QED BY <1>1, <1>2, <1>4, PassesType

-----------------------------------------------------------------------------
(***************************************************************************)
(* The loop takes the steps of ProBalanceRuntime, with the images its      *)
(* protecting rules match, and rule passes in between.                     *)
(***************************************************************************)
RuleInv ==
  /\ BaseInv
  /\ rules \in RuleLists \cup {Unreadable}
  /\ protecting_rules \subseteq Rule
  /\ ticks \in 0..RULE_APPLY_TICKS /\ unedited \in 0..RULE_APPLY_TICKS + 1
  /\ \A p \in crossed : p \in Pids /\ procs[p] # Absent

\* The tick of the loop.
RuledTick == TickWith(Matched(protecting_rules))

LEMMA LoopSteps ==
  ASSUME [RuleNext]_rsvars
  PROVE  [RuntimeNext]_rtvars \/ RuledTick \/ RulePass
BY DEF RuleNext, LoopTick, StartLoop, LoopReload, LoopFinishStart, LoopExecute,
   LoopAppendLog, SaveRules, rsvars, RuntimeNext, Service, RuledTick

LEMMA ProtectedImages ==
  ASSUME RuleInv PROVE Matched(protecting_rules) \in SUBSET Images
BY DEF RuleInv, Matched, Rule

LEMMA ListFacts ==
  ASSUME NEW R \in RuleLists
  PROVE  /\ Protecting(R) \subseteq Rule
         /\ \A i \in DOMAIN R : R[i] \in Rule
BY RuleAssumption DEF Protecting, Active

\* A rule pass writes priorities to live processes, and nothing else changes.
LEMMA PassEffect ==
  ASSUME RuleInv, RulePass
  PROVE  /\ procs' \in ProcessTable
         /\ \A p \in Pids : procs'[p] = Absent <=> procs[p] = Absent
         /\ \A p \in crossed' :
              p \in crossed \/ (p \in Pids /\ procs[p] # Absent)
         /\ UNCHANGED <<Core!vars, alive, booting, game_boost, unlogged,
                        orphans, file, edited>>
<1>1. UNCHANGED <<Core!vars, alive, booting, game_boost, unlogged, orphans, file, edited>>
  BY DEF RulePass, Core!vars, Core!engineVars, engineState
<1>2. procs \in ProcessTable
  BY DEF RuleInv, BaseInv, RuntimeTypeOK, ProcessTable
<1>3. CASE UNCHANGED <<procs, crossed>>
  BY <1>1, <1>2, <1>3
<1>4. ASSUME rules \in RuleLists, \A i \in Active(rules) : rules[i].valid,
             ApplyRules(rules)
      PROVE  /\ procs' \in ProcessTable
             /\ \A p \in Pids : procs'[p] = Absent <=> procs[p] = Absent
             /\ \A p \in crossed' :
              p \in crossed \/ (p \in Pids /\ procs[p] # Absent)
  <2>1. PICK reach \in [Pids -> Reaches] :
          LET after(p) == AfterRules(procs[p].name, Read(p), rules, reach[p])
              written  == {p \in Pids : Live(p) /\ after(p) # Read(p)}
          IN  /\ procs' = [p \in Pids |->
                   IF p \in written
                   THEN [name |-> procs[p].name, class |-> after(p).class,
                         io |-> after(p).io, home |-> after(p)]
                   ELSE procs[p]]
              /\ crossed' = crossed \cup {p \in written : Held(p)}
    BY <1>4 DEF ApplyRules
  <2> DEFINE After(p) == AfterRules(procs[p].name, Read(p), rules, reach[p])
             New(p) == [name |-> procs[p].name, class |-> After(p).class,
                        io |-> After(p).io, home |-> After(p)]
             written == {p \in Pids : Live(p) /\ After(p) # Read(p)}
  <2>2. /\ procs' = [p \in Pids |-> IF p \in written THEN New(p) ELSE procs[p]]
        /\ crossed' = crossed \cup {p \in written : Held(p)}
    BY <2>1
  <2>3. ASSUME NEW p \in Pids, procs[p] # Absent PROVE New(p) \in Process
    <3>1. /\ procs[p].name \in Images /\ Read(p) \in Priorities
      BY <2>3, ProcessFacts DEF Live, RuleInv, BaseInv
    <3>2. After(p) \in Priorities
      BY <1>4, <3>1, AfterRulesType
    <3> HIDE DEF After
    <3> QED BY <3>1, <3>2 DEF Process, Priorities
  <2>4. written \subseteq Pids /\ \A p \in written : procs[p] # Absent
    BY DEF Live
  <2> HIDE DEF After, New, written
  <2>5. \A p \in Pids : procs'[p] = IF p \in written THEN New(p) ELSE procs[p]
    BY <2>2
  <2>6. \A p \in Pids : procs'[p] \in Process \cup {Absent}
    BY <1>2, <2>3, <2>4, <2>5 DEF ProcessTable
  <2>7. procs' \in ProcessTable
    BY <2>2, <2>6 DEF ProcessTable
  <2>8. \A p \in Pids : procs'[p] = Absent <=> procs[p] = Absent
    BY <2>3, <2>4, <2>5, ServiceAssumption
  <2> QED BY <2>2, <2>4, <2>7, <2>8
<1>5. UNCHANGED <<procs, crossed>> \/ (/\ rules \in RuleLists
                                       /\ \A i \in Active(rules) : rules[i].valid
                                       /\ ApplyRules(rules))
  BY DEF RulePass
<1> QED BY <1>1, <1>3, <1>4, <1>5

LEMMA RuleBase == ASSUME RuleInv, [RuleNext]_rsvars PROVE BaseInv'
<1>1. CASE [RuntimeNext]_rtvars
  BY <1>1, BaseNext DEF RuleInv
<1>2. CASE RuledTick
  BY <1>2, ProtectedImages, BaseCalls DEF RuledTick, RuleInv
<1>3. CASE RulePass
  <2>1. Core!IInv'
    BY <1>3, PassEffect, CoreStep DEF RuleInv, BaseInv
  <2>2. ServiceTypeOK'
    BY <1>3, PassEffect DEF RuleInv, BaseInv, RuntimeTypeOK, ServiceTypeOK
  <2>3. Quiet'
    BY <1>3, PassEffect DEF RuleInv, BaseInv, Quiet, Core!vars, Core!engineVars
  <2> QED BY <2>1, <2>2, <2>3, TypesNext DEF BaseInv
<1> QED BY <1>1, <1>2, <1>3, LoopSteps

\* A process that does not end lives on.
LEMMA LoopLife ==
  ASSUME RuleInv, [RuleNext]_rsvars, NEW p \in Pids
  PROVE  \/ procs'[p] = Absent <=> procs[p] = Absent
         \/ crossed' = {q \in crossed : procs'[q] # Absent}
<1>1. CASE DisabledTick \/ RuledTick \/ Stop \/ Execute
  BY <1>1, ServiceLife DEF RuledTick, RuleInv, SameLife
<1> QED
  BY <1>1, PassEffect
  DEF RuleNext, LoopTick, StartLoop, LoopReload, LoopFinishStart, LoopExecute,
      LoopAppendLog, SaveRules, rsvars, rtvars, RuledTick, Start, FinishStart,
      Reload, AppendLog, Exit, Crash, SaveConfig

LEMMA RuleInvNext == RuleInv /\ [RuleNext]_rsvars => RuleInv'
<1> SUFFICES ASSUME RuleInv, [RuleNext]_rsvars PROVE RuleInv'
  OBVIOUS
<1>1. BaseInv'
  BY RuleBase
<1>2. /\ rules' \in RuleLists \cup {Unreadable}
      /\ protecting_rules' \subseteq Rule
      /\ ticks' \in 0..RULE_APPLY_TICKS
      /\ unedited' \in 0..RULE_APPLY_TICKS + 1
  BY RuleAssumption, ListFacts
  DEF RuleNext, RulePass, LoopTick, StartLoop, LoopReload, LoopFinishStart,
      LoopExecute, LoopAppendLog, SaveRules, ruleVars, rsvars, RuleInv
<1>3. \A p \in crossed' : p \in Pids /\ procs'[p] # Absent
  <2>1. RulePass \/ UNCHANGED crossed
          \/ crossed' = {p \in crossed : procs'[p] # Absent}
    BY DEF RuleNext, LoopTick, StartLoop, LoopReload, LoopFinishStart,
           LoopExecute, LoopAppendLog, SaveRules, ruleVars, rsvars
  <2> QED BY <2>1, PassEffect, LoopLife DEF RuleInv
<1> QED BY <1>1, <1>2, <1>3 DEF RuleInv

LEMMA RuleInvInit == RuleInit => RuleInv
<1> SUFFICES ASSUME RuleInit PROVE RuleInv
  OBVIOUS
<1>1. BaseInv
  BY BaseInit DEF RuleInit
<1> QED BY <1>1, RuleAssumption DEF RuleInit, RuleInv

\* The inductive invariant holds under every fault.
THEOREM RuleInvHolds == RuleSpec => []RuleInv
BY RuleInvInit, RuleInvNext, PTL DEF RuleSpec

\* Every variable of the service loop keeps its type: in particular a pass of
\* valid rules leaves priorities that exist (engine.rs, apply_one; rule.rs,
\* validate_rule).
THEOREM RuleTypes == RuleSpec => [](RuntimeTypeOK /\ RuleTypeOK)
<1>1. RuleInv => RuntimeTypeOK /\ RuleTypeOK
  BY DEF RuleInv, BaseInv, RuleTypeOK, Live
<1> QED BY <1>1, RuleInvHolds, PTL

\* The guarantees of the engine hold in the service loop too, whatever the
\* rules write and whenever the rules file changes (main.rs, run_service).
THEOREM RulesKeepEngineSafe == RuleSpec => [](EngineSafe /\ Engine!NoOverdue)
<1>1. RuleInv => EngineSafe /\ Engine!NoOverdue
  BY SameSafety DEF RuleInv, BaseInv, EngineSafe
<1> QED BY <1>1, RuleInvHolds, PTL

\* The log mirrors the tracking table in the service loop too, as long as
\* every entry reaches it: a rule pass touches neither, however it changes the
\* processes on them (engine.rs; runtime.rs, execute_*).
THEOREM LogMirrorsBesideRules ==
  ASSUME "append" \notin Faults
  PROVE  RuleSpec => []LogMirrorsTracking
<1>1. RuleInit => LogInv
  BY DEF RuleInit, RuntimeInit, LogInv
<1>2. RuleInv /\ LogInv /\ [RuleNext]_rsvars => LogInv'
  <2> SUFFICES ASSUME RuleInv, LogInv, [RuleNext]_rsvars PROVE LogInv'
    OBVIOUS
  <2>1. CASE [RuntimeNext]_rtvars
    BY <2>1, LogNext DEF RuleInv
  <2>2. CASE RuledTick
    <3>1. HandsOver
      BY <2>2, TickHandsOver DEF RuledTick, RuleInv, BaseInv
    <3> QED BY <2>2, <3>1, LogHandsOver DEF RuledTick, TickWith, Idle, Ready
  <2>3. CASE RulePass
    BY <2>3 DEF RulePass, engineState, LogInv
  <2> QED BY <2>1, <2>2, <2>3, LoopSteps
<1>3. LogInv => LogMirrorsTracking
  <2> SUFFICES ASSUME LogInv, Idle
               PROVE  /\ DOMAIN orphans = DOMAIN tracked
                      /\ \A p \in DOMAIN tracked : orphans[p] = Entry(tracked[p])
    BY DEF LogMirrorsTracking, Entry
  <2> QED BY DEF LogInv, Idle, Ready
<1> QED BY <1>1, <1>2, <1>3, RuleInvHolds, PTL DEF RuleSpec

\* Edits of the ProBalance configuration reach the engine in the service loop
\* too, although rule passes delay the tick that looks for them (main.rs,
\* run_service; runtime.rs, reload_config_if_changed).
THEOREM EditsReachBesideRules ==
  ASSUME "load" \notin Faults, "boot_edit" \notin Faults
  PROVE  RuleSpec => []EditsReachEngine
<1>1. RuleInit => EditsInv
  BY DEF RuleInit, RuntimeInit, EditsInv
<1>2. RuleInv /\ EditsInv /\ [RuleNext]_rsvars => EditsInv'
  <2> SUFFICES ASSUME RuleInv, EditsInv, [RuleNext]_rsvars PROVE EditsInv'
    OBVIOUS
  <2>1. CASE [RuntimeNext]_rtvars
    BY <2>1, EditsNext DEF RuleInv
  <2>2. CASE RuledTick
    BY <2>2 DEF RuledTick, TickWith, TickOn, Engine!TickWithGameMode, EditsInv
  <2>3. CASE RulePass
    BY <2>3 DEF RulePass, engineState, EditsInv
  <2> QED BY <2>1, <2>2, <2>3, LoopSteps
<1>3. EditsInv => EditsReachEngine
  BY DEF EditsInv, EditsReachEngine
<1> QED BY <1>1, <1>2, <1>3, RuleInvHolds, PTL DEF RuleSpec

-----------------------------------------------------------------------------
(***************************************************************************)
(* Rules protect in time.  The protecting list is current as soon as the   *)
(* file is older than the ticks since the last pass, which a new process,  *)
(* whose list is still empty, can say only after its first pass.           *)
(***************************************************************************)
ListCurrent ==
  ticks < RULE_APPLY_TICKS /\ unedited > ticks /\ rules # Unreadable =>
    protecting_rules = Protecting(rules)

LEMMA ListCurrentNext == RuleInv /\ ListCurrent /\ [RuleNext]_rsvars => ListCurrent'
<1> SUFFICES ASSUME RuleInv, ListCurrent, [RuleNext]_rsvars PROVE ListCurrent'
  OBVIOUS
<1> USE RuleAssumption DEF ListCurrent
<1>1. CASE RulePass
  BY <1>1 DEF RulePass, RuleInv
<1>2. CASE LoopTick
  BY <1>2 DEF LoopTick, RuleInv
<1>3. CASE StartLoop \/ SaveRules
  BY <1>3 DEF StartLoop, SaveRules, RuleInv
<1>4. CASE UNCHANGED <<rules, protecting_rules, ticks, unedited>>
  BY <1>4
<1> QED
  BY <1>1, <1>2, <1>3, <1>4
  DEF RuleNext, LoopReload, LoopFinishStart, LoopExecute, LoopAppendLog,
      ruleVars, rsvars

\* No tick asks for an image its protecting rules match to be lowered.
LEMMA TickProtects ==
  ASSUME NEW ruled, TickWith(ruled), NEW d \in decisions', d.kind = "downgrade"
  PROVE  d.name \notin ruled
<1>1. PICK t, fg_pid, samples, active : TickOn(ruled, t, fg_pid, samples, active)
  BY DEF TickWith
<1>2. config.enabled
  BY DEF TickWith
<1>3. PICK contends, ct, cl :
        Engine!Decide(contends, ct, cl, t, fg_pid, samples, ruled)
  BY <1>1, <1>2 DEF TickOn, Engine!TickWithGameMode
<1>4. d \in Engine!Downgrades(Engine!Candidates(fg_pid, samples, ruled), samples)
  BY <1>3 DEF Engine!Decide, Engine!TakeAll, Engine!Restores
<1> QED
  BY <1>4 DEF Engine!Downgrades, Engine!Candidates, Engine!IsProtected

LEMMA OnlyTicksLower ==
  ASSUME RuleInv, [RuleNext]_rsvars, ~LoopTick,
         NEW d \in decisions', d.kind = "downgrade"
  PROVE  d \in decisions
<1>1. CASE FinishStart
  BY <1>1 DEF FinishStart
<1>2. CASE Reload
  BY <1>2, ReloadRestores
<1>3. CASE Stop
  BY <1>3 DEF Stop, Engine!Shutdown, Engine!TakeAll, Engine!Restores
<1>4. CASE Execute
  BY <1>4 DEF Execute
<1> QED
  BY <1>1, <1>2, <1>3, <1>4
  DEF RuleNext, RulePass, StartLoop, Start, NewEngine, LoopReload,
      LoopFinishStart, LoopExecute, LoopAppendLog, AppendLog, SaveRules, Exit,
      Crash, SaveConfig, Processes, rsvars, rtvars, engineState

\* Rules a whole period old protect: no process that they manage is asked to
\* be lowered, whatever else fails, and even when another rule of the file is
\* invalid (main.rs, run_service refreshes the protecting list before it
\* applies the rules; engine.rs, is_protected).
THEOREM RulesProtectInTime == RuleSpec => []ProtectionInTime
<1>1. RuleInit => ListCurrent /\ ProtectionInTime
  BY RuleAssumption DEF RuleInit, RuntimeInit, ListCurrent, ProtectionInTime
<1>2. RuleInv /\ ListCurrent /\ ProtectionInTime /\ [RuleNext]_rsvars
        => ProtectionInTime'
  <2> SUFFICES ASSUME RuleInv, ListCurrent, ProtectionInTime, [RuleNext]_rsvars,
                      unedited' > RULE_APPLY_TICKS, rules' # Unreadable,
                      NEW d \in decisions', d.kind = "downgrade"
               PROVE  d.name \notin Matched(Protecting(rules'))
    BY DEF ProtectionInTime, Matched, Protecting, Active
  <2>1. CASE LoopTick
    <3>1. /\ rules' = rules /\ ticks < RULE_APPLY_TICKS /\ unedited > ticks
      BY <2>1, RuleAssumption DEF LoopTick, RuleInv
    <3>2. protecting_rules = Protecting(rules)
      BY <3>1 DEF ListCurrent
    <3>3. TickWith(Matched(protecting_rules))
      BY <2>1 DEF LoopTick, DisabledTick, Idle
    <3> QED BY <3>1, <3>2, <3>3, TickProtects
  <2>2. CASE ~LoopTick
    <3>1. d \in decisions
      BY <2>2, OnlyTicksLower
    <3>2. CASE SaveRules
      BY <3>2, RuleAssumption DEF SaveRules
    <3>3. CASE ~SaveRules
      <4>1. UNCHANGED <<rules, unedited>>
        BY <2>2, <3>3
        DEF RuleNext, RulePass, StartLoop, LoopReload, LoopFinishStart,
            LoopExecute, LoopAppendLog, ruleVars, rsvars
      <4> QED BY <3>1, <4>1 DEF ProtectionInTime
    <3> QED BY <3>2, <3>3
  <2> QED BY <2>1, <2>2
<1> QED BY <1>1, <1>2, ListCurrentNext, RuleInvHolds, PTL DEF RuleSpec
=============================================================================
