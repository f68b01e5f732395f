-------------------------- MODULE ProBalanceEngine --------------------------
(***************************************************************************)
(* The decision core of ProBalance                                         *)
(* (src-tauri/crates/cpum-core/src/probalance/engine.rs): contention of    *)
(* the foreground process is counted tick by tick, sustained contention    *)
(* engages the engine, an engaged engine asks for hot background processes *)
(* to be downgraded, and every process that was downgraded is handed back  *)
(* for restoring.  One action per method; the caller (runtime.rs) runs the *)
(* decisions of one call before it makes the next call.                    *)
(***************************************************************************)
EXTENDS Integers

CONSTANTS
  Pids,             \* process identifiers
  NoPid,            \* "no foreground process" (None)
  Images,           \* names (and paths) of executables
  SystemWhitelist,  \* images of SYSTEM_WHITELIST
  Configs,          \* the configurations that can be loaded
  CpuLevels,        \* CPU readings
  Originals,        \* priorities read before a downgrade
  Times,            \* readings of the wall clock, in seconds
  MaxCount          \* u32::MAX, where the tick counters saturate

ConfigType ==
  [enabled : BOOLEAN, fg_cpu_threshold : Int, bg_cpu_threshold : Int,
   sustain_secs : Nat, restore_after_secs : Nat, max_downgrade_secs : Nat,
   whitelist : SUBSET Images, game_mode_enabled : BOOLEAN]

\* ProBalanceConfig::validate bounds the seconds from below by 1 (30 for
\* max_downgrade_secs), and they are u32 numbers.
ASSUME EngineAssumption ==
  /\ NoPid \notin Pids
  /\ MaxCount \in Nat
  /\ Configs \subseteq ConfigType
  /\ \A c \in Configs : /\ c.sustain_secs \in 1..MaxCount
                        /\ c.restore_after_secs \in 1..MaxCount
                        /\ c.max_downgrade_secs >= 1
  /\ CpuLevels \subseteq Int
  /\ Times \subseteq Nat
  /\ SystemWhitelist \subseteq Images

VARIABLES
  config,
  engaged,
  contention_ticks,  \* consecutive ticks with contention
  clear_ticks,       \* consecutive ticks without
  tracked,           \* pid -> the record of its downgrade
  decisions,         \* decisions of the last call not yet executed
  call,              \* the last method called
  now                \* now_secs of the last tick

engineVars == <<config, engaged, contention_ticks, clear_ticks, tracked>>
vars == <<engineVars, decisions, call, now>>

Tracked == [name : Images, originals : Originals, since_secs : Times]

Reasons == {"contention_cleared", "timeout", "process_exited", "disabled",
            "shutdown", "startup_reconcile"}

Decision ==
  [kind : {"downgrade"}, pid : Pids, name : Images] \cup
  [kind : {"restore"}, pid : Pids, name : Images, originals : Originals,
   reason : Reasons]

\* What one sampling round can see: some of the processes, each with its
\* image and CPU reading.
Samples ==
  UNION {[P -> [name : Images, cpu_percent : CpuLevels]] : P \in SUBSET Pids}

TypeOK ==
  /\ config \in Configs
  /\ engaged \in BOOLEAN
  /\ contention_ticks \in 0..MaxCount
  /\ clear_ticks \in 0..MaxCount
  /\ DOMAIN tracked \subseteq Pids
  /\ \A p \in DOMAIN tracked : tracked[p] \in Tracked
  /\ decisions \subseteq Decision
  /\ call \in {"new", "update_config", "tick", "mark_downgraded", "shutdown"}
  /\ now \in Times

-----------------------------------------------------------------------------
\* Variants named ...Mut are plausible mistakes: each breaks a property.
SaturateMut(n) == n + 1

Saturate(n) == IF n < MaxCount THEN n + 1 ELSE n

\* u64::saturating_sub: a clock set back makes no time elapse.
Elapsed(t, since) == IF t >= since THEN t - since ELSE 0

IsProtectedMut(name, ruled) == name \in config.whitelist \cup ruled

IsProtected(name, ruled) ==
  name \in SystemWhitelist \cup config.whitelist \cup ruled

Contention(fg_pid, samples, game_mode_active) ==
  \/ game_mode_active /\ fg_pid # NoPid
  \/ /\ fg_pid \in DOMAIN samples
     /\ samples[fg_pid].cpu_percent >= config.fg_cpu_threshold

CandidatesMut(fg_pid, samples, ruled) ==
  {p \in DOMAIN samples :
     /\ samples[p].cpu_percent >= config.bg_cpu_threshold
     /\ p # fg_pid
     /\ ~IsProtected(samples[p].name, ruled)}

\* The background processes an engaged engine wants lowered.
Candidates(fg_pid, samples, ruled) ==
  {p \in DOMAIN samples :
     /\ samples[p].cpu_percent >= config.bg_cpu_threshold
     /\ p # fg_pid
     /\ p \notin DOMAIN tracked
     /\ ~IsProtected(samples[p].name, ruled)}

ExpiredMut(t) ==
  {p \in DOMAIN tracked :
     Elapsed(t, tracked[p].since_secs) > config.max_downgrade_secs}

Expired(t) ==
  {p \in DOMAIN tracked :
     Elapsed(t, tracked[p].since_secs) >= config.max_downgrade_secs}

Downgrades(P, samples) ==
  {[kind |-> "downgrade", pid |-> p, name |-> samples[p].name] : p \in P}

Restores(P, reason) ==
  {[kind |-> "restore", pid |-> p, name |-> tracked[p].name,
    originals |-> tracked[p].originals, reason |-> reason] : p \in P}

Untrack(P) == tracked' = [p \in DOMAIN tracked \ P |-> tracked[p]]

ResetCountersMut == engaged' = FALSE /\ contention_ticks' = 0 /\ UNCHANGED clear_ticks

\* reset_counters
ResetCounters ==
  engaged' = FALSE /\ contention_ticks' = 0 /\ clear_ticks' = 0

TakeAllMut(reason) == decisions' = {} /\ Untrack(DOMAIN tracked)

\* take_all
TakeAll(reason) ==
  /\ decisions' = Restores(DOMAIN tracked, reason)
  /\ Untrack(DOMAIN tracked)

-----------------------------------------------------------------------------
Init ==
  /\ config \in Configs
  /\ engaged = FALSE
  /\ contention_ticks = 0
  /\ clear_ticks = 0
  /\ tracked = [p \in {} |-> 0]
  /\ decisions = {}
  /\ call = "new"
  /\ now \in Times

\* mark_downgraded: the caller lowered d.pid, whose priorities were o.
MarkDowngraded(d, o, t) ==
  /\ tracked' = [p \in DOMAIN tracked \cup {d.pid} |->
                   IF p = d.pid
                   THEN [name |-> d.name, originals |-> o, since_secs |-> t]
                   ELSE tracked[p]]
  /\ UNCHANGED <<config, engaged, contention_ticks, clear_ticks>>

UpdateConfigMut(c) ==
  /\ config' = c
  /\ decisions' = {}
  /\ UNCHANGED <<engaged, contention_ticks, clear_ticks, tracked>>

UpdateConfig(c) ==
  /\ config' = c
  /\ IF config.enabled # c.enabled
     THEN ResetCounters
     ELSE UNCHANGED <<engaged, contention_ticks, clear_ticks>>
  /\ IF config.enabled /\ ~c.enabled
     THEN TakeAll("disabled")
     ELSE decisions' = {} /\ UNCHANGED tracked

Shutdown == ResetCounters /\ TakeAll("shutdown") /\ UNCHANGED config

\* One decision tick of an enabled engine, given the counters it computed.
\* Once engaged it either returns everything (the contention has been gone
\* long enough) or lowers new processes and returns the overdue ones; in
\* every case it lets go of the processes the samples do not show.
Decide(contends, ct, cl, t, fg_pid, samples, ruled) ==
  LET on      == engaged \/ ct >= config.sustain_secs
      cleared == on /\ cl >= config.restore_after_secs
      expired == IF on THEN Expired(t) ELSE {}
      gone    == (DOMAIN tracked \ expired) \ DOMAIN samples
  IN  \/ /\ cleared
         /\ ResetCounters
         /\ TakeAll("contention_cleared")
      \/ /\ ~cleared
         /\ engaged' = on
         /\ contention_ticks' = ct
         /\ clear_ticks' = cl
         /\ decisions' =
              (IF on /\ contends
               THEN Downgrades(Candidates(fg_pid, samples, ruled), samples)
               ELSE {})
              \cup Restores(expired, "timeout")
              \cup Restores(gone, "process_exited")
         /\ Untrack(expired \cup gone)

TickWithGameModeMut(t, fg_pid, samples, ruled, game_mode_active) ==
  LET contends == Contention(fg_pid, samples, game_mode_active)
  IN  /\ UNCHANGED config
      /\ \/ ~config.enabled /\ UNCHANGED <<engineVars, decisions>>
         \/ /\ config.enabled
            /\ Decide(contends,
                      IF contends THEN Saturate(contention_ticks) ELSE 0,
                      IF contends THEN 0 ELSE clear_ticks,
                      t, fg_pid, samples, ruled)

TickWithGameMode(t, fg_pid, samples, ruled, game_mode_active) ==
  LET contends == Contention(fg_pid, samples, game_mode_active)
  IN  /\ UNCHANGED config
      /\ \/ /\ ~config.enabled
            /\ decisions' = {}
            /\ UNCHANGED <<engaged, contention_ticks, clear_ticks, tracked>>
         \/ /\ config.enabled
            /\ Decide(contends,
                      IF contends THEN Saturate(contention_ticks) ELSE 0,
                      IF contends THEN 0 ELSE Saturate(clear_ticks),
                      t, fg_pid, samples, ruled)

-----------------------------------------------------------------------------
(***************************************************************************)
(* The calls, in the order ProBalanceRuntime makes them: all decisions of  *)
(* a call are executed before the next call, a tick reloads the            *)
(* configuration at most once and then ticks the engine, and shutdown is   *)
(* last.  Here the caller may fail to apply any downgrade.                 *)
(***************************************************************************)
Idle == decisions = {} /\ call # "shutdown"

Reload ==
  /\ Idle
  /\ call = "update_config" => ~config.enabled
  /\ \E c \in Configs : UpdateConfig(c)
  /\ call' = "update_config"
  /\ UNCHANGED now

Tick ==
  /\ Idle
  /\ \E t \in Times, fg_pid \in Pids \cup {NoPid}, samples \in Samples,
        ruled \in SUBSET Images, game_mode_active \in BOOLEAN :
       /\ game_mode_active => config.game_mode_enabled
       /\ TickWithGameMode(t, fg_pid, samples, ruled, game_mode_active)
       /\ now' = t
  /\ call' = "tick"

Stop == Idle /\ Shutdown /\ call' = "shutdown" /\ UNCHANGED now

\* The caller lowers the process and reports it.
Applied(d) ==
  /\ d.kind = "downgrade"
  /\ \E o \in Originals, t \in Times : MarkDowngraded(d, o, t)
  /\ decisions' = decisions \ {d}
  /\ call' = "mark_downgraded"
  /\ UNCHANGED now

\* The caller gives up on a downgrade, or has run a restore.
Dropped(d) ==
  /\ decisions' = decisions \ {d}
  /\ UNCHANGED <<engineVars, call, now>>

Execute == \E d \in decisions : Applied(d) \/ Dropped(d)

Next == Reload \/ Tick \/ Stop \/ Execute

Spec == Init /\ [][Next]_vars

\* The service main loop ticks once a second, and the loop over the
\* decisions of a call waits for nothing.
FairSpec == Spec /\ WF_vars(Tick) /\ WF_vars(Execute)

-----------------------------------------------------------------------------
\* A disabled or idle engine holds nothing: every way out of the engaged
\* state (contention cleared, disabled, shutdown) hands back every process,
\* and none is recorded later.  Otherwise the timeout, which runs only while
\* engaged, would never see the process again.
TrackedOnlyWhileEngaged ==
  DOMAIN tracked # {} => config.enabled /\ engaged

\* The hysteresis is exact: the engine that is idle after a tick has not yet
\* seen sustain_secs ticks of contention in a row, the engaged one has not
\* yet seen restore_after_secs ticks without, the counters never run
\* together, and a disabled engine starts from zero when it is enabled.
HysteresisExact ==
  /\ contention_ticks = 0 \/ clear_ticks = 0
  /\ call = "tick" /\ config.enabled =>
       IF engaged THEN clear_ticks < config.restore_after_secs
                  ELSE contention_ticks < config.sustain_secs
  /\ ~config.enabled => ~engaged /\ contention_ticks = 0 /\ clear_ticks = 0

\* No downgrade is forgotten: after a tick nothing is tracked that has been
\* lowered for max_downgrade_secs or longer, whatever the clock does.
NoOverdue ==
  call = "tick" =>
    \A p \in DOMAIN tracked :
      Elapsed(now, tracked[p].since_secs) < config.max_downgrade_secs

\* The decisions of one call never speak twice of one process, and a process
\* is asked to be lowered only under contention that engaged the engine and
\* while no record of its original priorities exists: the lowered values
\* could be recorded as the originals otherwise.
DecisionsConsistent ==
  /\ \A d, e \in decisions : d.pid = e.pid => d = e
  /\ \A d \in decisions :
       /\ d.pid \notin DOMAIN tracked
       /\ d.kind = "downgrade" => /\ engaged /\ contention_ticks > 0
                                  /\ ~IsProtected(d.name, {})

\* The engine keeps the promise of PriorityLeases: tracked processes are the
\* leases, the restore decisions not yet executed are what it owes.
Leases == INSTANCE PriorityLeases WITH
  held <- [p \in DOMAIN tracked |-> tracked[p].originals],
  owed <- {<<d.pid, d.originals>> :
             d \in {e \in decisions : e.kind = "restore"}}

LeasesKept == Leases!Spec

\* Hysteresis always ends: when contention stops for good, nothing stays
\* tracked, however the configuration is edited meanwhile.
CalmReturnsAll ==
  <>[](contention_ticks = 0) => <>[](DOMAIN tracked = {})
=============================================================================
