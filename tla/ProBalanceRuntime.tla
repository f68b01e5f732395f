------------------------- MODULE ProBalanceRuntime --------------------------
(***************************************************************************)
(* The service side of ProBalance (probalance/runtime.rs, the main loop of *)
(* cpum-service/src/main.rs, pair_orphans of probalance/journal.rs): the   *)
(* decisions of ProBalanceEngine written to live processes, the foreground *)
(* boost of Game Mode, the action log that survives a crash, and the       *)
(* reconciliation of a new service process with it.                        *)
(*                                                                         *)
(* Around the service, processes come and go and process ids are reused,   *)
(* the GUI saves the configuration, and the service is stopped or dies     *)
(* between any two of its steps.  Faults names what may go wrong beyond    *)
(* that.                                                                   *)
(***************************************************************************)
EXTENDS Integers

CONSTANTS
  Pids, NoPid, Images, SystemWhitelist, Configs, CpuLevels, Times, MaxCount,
  Classes,   \* priority classes a process can start with, by rank
  Ios,       \* IO priorities a process can start with
  RuleSets,  \* the sets of images the protecting rules may match
  DefaultConfig,  \* ProBalanceConfig::default, disabled
  Absent,    \* no process has this id
  None,      \* no log entry is waiting, no process is boosted
  Faults

ASSUME RuntimeAssumption ==
  /\ Classes \subseteq 0..5
  /\ Ios \subseteq 0..3
  /\ RuleSets \subseteq SUBSET Images
  /\ DefaultConfig \in Configs /\ ~DefaultConfig.enabled
  /\ Faults \subseteq
       {"sampler",   \* a sampling round fails or misses a live process
        "write",     \* a priority cannot be set
        "append",    \* an entry cannot be appended to the log
        "load",      \* the configuration file cannot be read
        "boosted",   \* death while a process is boosted
        "unlogged",  \* death between lowering a process and logging it
        "boot_edit", \* a configuration saved while the service starts
        "reuse",     \* an id reused between the sample and the downgrade
        "namesake",  \* an id reused by a process of the same name
        "overlap"}   \* a lowered process becomes the fullscreen foreground

\* Variants named ...Mut are plausible mistakes: each breaks a property.

BELOW_NORMAL == 1  \* DOWNGRADE_PRIORITY_CLASS
ABOVE_NORMAL == 3  \* GAME_MODE_PRIORITY_CLASS
VERY_LOW == 0      \* DOWNGRADE_IO_PRIORITY

Priorities == [class : 0..5, io : 0..3]

VARIABLES
  config, engaged, contention_ticks, clear_ticks, tracked,
  decisions, call, now,
  procs,       \* pid -> the process that runs under it
  alive,       \* the service process runs
  booting,     \* ... and has read the configuration but not its mtime
  game_boost,
  unlogged,    \* the log entry of the action just executed
  orphans,     \* pair_orphans of the log: pid -> name and originals
  file,        \* the configuration file
  edited       \* its mtime is not the one the service has stored

engineState == <<config, engaged, contention_ticks, clear_ticks, tracked>>
rtvars == <<engineState, decisions, call, now, procs, alive, booting,
            game_boost, unlogged, orphans, file, edited>>

Engine == INSTANCE ProBalanceEngine WITH Originals <- Priorities

Process == [name : Images, class : 0..5, io : 0..3, home : Priorities]
LogEntry == [action : {"downgrade", "restore", "exit"}, pid : Pids,
             name : Images, priorities : Priorities, written : BOOLEAN]
Boost == [pid : Pids, name : Images, original_priority : 0..5]

\* What the engine asks of its parameters, and values that mean "nothing".
ASSUME ServiceAssumption ==
  /\ Engine!EngineAssumption
  /\ Absent \notin Process
  /\ None \notin LogEntry \cup Boost

RuntimeTypeOK ==
  /\ Engine!TypeOK
  /\ procs \in [Pids -> Process \cup {Absent}]
  /\ alive \in BOOLEAN /\ booting \in BOOLEAN /\ edited \in BOOLEAN
  /\ game_boost \in Boost \cup {None}
  /\ unlogged \in LogEntry \cup {None}
  /\ DOMAIN orphans \subseteq Pids
  /\ \A p \in DOMAIN orphans :
       orphans[p] \in [name : Images, originals : Priorities]
  /\ file \in Configs

-----------------------------------------------------------------------------
Live(p) == p \in Pids /\ procs[p] # Absent

\* get_process_priorities of a live process.
Read(p) == [class |-> procs[p].class, io |-> procs[p].io]

SameProcessMut(p, name) == Live(p)

\* get_process_name, compared by name_matches.
SameProcess(p, name) == Live(p) /\ procs[p].name = name

\* Whether a write succeeds.
Outcomes == IF "write" \in Faults THEN BOOLEAN ELSE {TRUE}

Without(f, p) == [q \in DOMAIN f \ {p} |-> f[q]]
With(f, p, v) == [q \in DOMAIN f \cup {p} |-> IF q = p THEN v ELSE f[q]]

\* The service can take its next step: nothing waits for the log.
Ready == alive /\ ~booting /\ unlogged = None
Idle == Ready /\ decisions = {} /\ call # "shutdown"

\* The mtime check comes first in every tick, once.
ReloadDue == edited /\ call # "update_config"

-----------------------------------------------------------------------------
(* Game Mode *)

\* restore_game_boost, as the processes it leaves when its write succeeds and
\* when it does not: the boost is forgotten either way.
BoostRestored(ok) ==
  IF ok /\ game_boost # None /\ SameProcess(game_boost.pid, game_boost.name)
  THEN [procs EXCEPT ![game_boost.pid].class = game_boost.original_priority]
  ELSE procs

RestoreGameBoost ==
  /\ \E ok \in Outcomes : procs' = BoostRestored(ok)
  /\ game_boost' = None

\* reconcile_game_boost: restore a boost that is over, then raise the
\* foreground process unless it is boosted or already that high.
ReconcileGameBoost(active, fg_pid) ==
  LET over == game_boost # None /\ (~active \/ game_boost.pid # fg_pid)
  IN  \E ok \in Outcomes :
        LET after  == IF over THEN BoostRestored(ok) ELSE procs
            raises == /\ active
                      /\ over \/ game_boost = None
                      /\ Live(fg_pid)
                      /\ after[fg_pid].class < ABOVE_NORMAL
        IN  \/ /\ raises
               /\ procs' = [after EXCEPT ![fg_pid].class = ABOVE_NORMAL]
               /\ game_boost' = [pid |-> fg_pid, name |-> after[fg_pid].name,
                                 original_priority |-> after[fg_pid].class]
            \/ /\ ~raises \/ FALSE \in Outcomes
               /\ procs' = after
               /\ game_boost' = IF over THEN None ELSE game_boost

-----------------------------------------------------------------------------
(* The service process *)

NewEngine ==
  /\ engaged' = FALSE /\ contention_ticks' = 0 /\ clear_ticks' = 0
  /\ tracked' = [p \in {} |-> 0]
  /\ decisions' = {}
  /\ call' = "new"

StartMut ==
  /\ ~alive
  /\ alive' = TRUE
  /\ booting' = TRUE
  /\ config' = DefaultConfig
  /\ NewEngine
  /\ UNCHANGED <<now, procs, game_boost, unlogged, orphans, file, edited>>

\* new: load_config, the default when that fails ...
Start ==
  /\ ~alive
  /\ alive' = TRUE
  /\ booting' = TRUE
  /\ config' = file \/ ("load" \in Faults /\ config' = DefaultConfig)
  /\ NewEngine
  /\ UNCHANGED <<now, procs, game_boost, unlogged, orphans, file, edited>>

\* ... then config_mtime, then reconcile_orphans.
FinishStart ==
  /\ booting
  /\ booting' = FALSE
  /\ edited' = FALSE
  /\ decisions' =
       {[kind |-> "restore", pid |-> p, name |-> orphans[p].name,
         originals |-> orphans[p].originals, reason |-> "startup_reconcile"] :
          p \in DOMAIN orphans}
  /\ UNCHANGED <<engineState, call, now, procs, alive, game_boost, unlogged,
                 orphans, file>>

\* tick, step 1: the mtime has changed, reload; a file that cannot be read is
\* not tried again before its mtime changes.
Reload ==
  /\ Idle /\ ReloadDue
  /\ edited' = FALSE
  /\ \/ Engine!UpdateConfig(file) /\ call' = "update_config"
     \/ "load" \in Faults /\ UNCHANGED <<engineState, decisions, call>>
  /\ UNCHANGED <<now, procs, alive, booting, game_boost, unlogged, orphans,
                 file>>

\* tick, step 2: disabled; the engine is not called.
DisabledTick ==
  /\ Idle /\ ~ReloadDue /\ ~config.enabled
  /\ RestoreGameBoost
  /\ call' = "tick"
  /\ UNCHANGED <<engineState, decisions, now, alive, booting, unlogged,
                 orphans, file, edited>>

\* The samples of one round: every live process, or fewer under faults.
Seen == IF "sampler" \in Faults
        THEN SUBSET {p \in Pids : Live(p)}
        ELSE {{p \in Pids : Live(p)}}

\* The sample of the processes P.
Sampled(P, cpu) ==
  [p \in P |-> [name |-> procs[p].name, cpu_percent |-> cpu[p]]]

\* tick, step 4 on what step 3 sampled: boost, decide.
TickOn(ruled, t, fg_pid, samples, active) ==
  /\ active /\ fg_pid \in DOMAIN tracked => "overlap" \in Faults
  /\ ReconcileGameBoost(active, fg_pid)
  /\ Engine!TickWithGameMode(t, fg_pid, samples, ruled, active)
  /\ now' = t

\* tick, steps 3 and 4: sample, look at the foreground, boost, decide.  The
\* protecting rules match the images of ruled.
TickWith(ruled) ==
  /\ Idle /\ ~ReloadDue /\ config.enabled
  /\ \E P \in Seen, t \in Times, fullscreen \in BOOLEAN,
        fg_pid \in {p \in Pids : Live(p)} \cup {NoPid} :
     \E cpu \in [P -> CpuLevels] :
       TickOn(ruled, t, fg_pid, Sampled(P, cpu),
              config.game_mode_enabled /\ fullscreen /\ fg_pid # NoPid)
  /\ call' = "tick"
  /\ UNCHANGED <<alive, booting, unlogged, orphans, file, edited>>

Tick == \E ruled \in RuleSets : TickWith(ruled)

\* The stop request is seen after a tick: shutdown restores the boost first.
Stop ==
  /\ Idle /\ call \in {"tick", "mark_downgraded"}
  /\ RestoreGameBoost
  /\ Engine!Shutdown
  /\ call' = "shutdown"
  /\ UNCHANGED <<now, alive, booting, unlogged, orphans, file, edited>>

Exit ==
  /\ Ready /\ call = "shutdown" /\ decisions = {}
  /\ alive' = FALSE
  /\ UNCHANGED <<engineState, decisions, call, now, procs, booting,
                 game_boost, unlogged, orphans, file, edited>>

-----------------------------------------------------------------------------
(* execute: the downgrades of a batch come first *)

\* execute_downgrade: read, lower what is high, remember the originals.  The
\* name is not compared: whatever runs under the id now is lowered.
Downgrade(d) ==
  LET prios    == Read(d.pid)
      cpu_high == Live(d.pid) /\ prios.class > BELOW_NORMAL
      io_high  == Live(d.pid) /\ prios.io > VERY_LOW
  IN  \/ /\ cpu_high \/ io_high => FALSE \in Outcomes
         /\ UNCHANGED <<engineState, call, procs, unlogged>>
      \/ /\ \E class_ok, io_ok \in Outcomes :
              /\ (cpu_high /\ class_ok) \/ (io_high /\ io_ok)
              /\ procs' = [procs EXCEPT
                   ![d.pid].class = IF cpu_high /\ class_ok THEN BELOW_NORMAL
                                                            ELSE @,
                   ![d.pid].io = IF io_high /\ io_ok THEN VERY_LOW ELSE @]
         /\ \E t \in Times : t >= now /\ Engine!MarkDowngraded(d, prios, t)
         /\ call' = "mark_downgraded"
         /\ unlogged' = [action |-> "downgrade", pid |-> d.pid,
                         name |-> d.name, priorities |-> prios,
                         written |-> TRUE]

RestoreMut(d) ==
  LET writes == d.reason # "process_exited" /\ SameProcess(d.pid, d.name)
  IN  /\ procs' = IF writes
                  THEN [procs EXCEPT ![d.pid].class = d.originals.class]
                  ELSE procs
      /\ unlogged' =
           [action |-> IF d.reason = "process_exited" THEN "exit"
                                                      ELSE "restore",
            pid |-> d.pid, name |-> d.name, priorities |-> d.originals,
            written |-> writes \/ d.reason = "process_exited"]
      /\ UNCHANGED <<engineState, call>>

\* execute_restore: write the originals back to the process of that name;
\* the results of the two writes are ignored.
Restore(d) ==
  LET writes == d.reason # "process_exited" /\ SameProcess(d.pid, d.name)
  IN  /\ \/ /\ writes
            /\ \E class_ok, io_ok \in Outcomes :
                 procs' = [procs EXCEPT
                   ![d.pid].class = IF class_ok THEN d.originals.class ELSE @,
                   ![d.pid].io = IF io_ok THEN d.originals.io ELSE @]
         \/ ~writes /\ UNCHANGED procs
      /\ unlogged' =
           [action |-> IF d.reason = "process_exited" THEN "exit"
                                                      ELSE "restore",
            pid |-> d.pid, name |-> d.name, priorities |-> d.originals,
            written |-> writes \/ d.reason = "process_exited"]
      /\ UNCHANGED <<engineState, call>>

ExecuteMut ==
  /\ Ready
  /\ \E d \in decisions :
       /\ decisions' = IF d.kind = "restore" THEN decisions \ {d}
                                           ELSE decisions
       /\ \/ d.kind = "downgrade" /\ Downgrade(d)
          \/ d.kind = "restore" /\ Restore(d)
  /\ UNCHANGED <<now, alive, booting, game_boost, orphans, file, edited>>

Execute ==
  /\ Ready
  /\ \E d \in decisions :
       /\ decisions' = decisions \ {d}
       /\ \/ d.kind = "downgrade" /\ Downgrade(d)
          \/ /\ d.kind = "restore"
             /\ \A e \in decisions : e.kind = "restore"
             /\ Restore(d)
  /\ UNCHANGED <<now, alive, booting, game_boost, orphans, file, edited>>

AppendLogMut ==
  /\ alive /\ unlogged # None
  /\ orphans' = CASE unlogged.action = "downgrade" ->
                       With(orphans, unlogged.pid,
                            [name |-> unlogged.name,
                             originals |-> unlogged.priorities])
                  [] unlogged.action = "restore" ->
                       Without(orphans, unlogged.pid)
                  [] unlogged.action = "exit" -> orphans
  /\ unlogged' = None
  /\ UNCHANGED <<engineState, decisions, call, now, procs, alive, booting,
                 game_boost, file, edited>>

\* append_log, seen through pair_orphans: a downgrade opens a record, a
\* restore or an exit closes it; the error of an append that fails is dropped.
AppendLog ==
  /\ alive /\ unlogged # None
  /\ \/ orphans' = IF unlogged.action = "downgrade"
                   THEN With(orphans, unlogged.pid,
                             [name |-> unlogged.name,
                              originals |-> unlogged.priorities])
                   ELSE Without(orphans, unlogged.pid)
     \/ "append" \in Faults /\ UNCHANGED orphans
  /\ unlogged' = None
  /\ UNCHANGED <<engineState, decisions, call, now, procs, alive, booting,
                 game_boost, file, edited>>

-----------------------------------------------------------------------------
(* Around the service *)

\* The service process dies: crash, kill or power loss.
Crash ==
  /\ alive
  /\ (unlogged # None /\ unlogged.action = "downgrade")
       => "unlogged" \in Faults
  /\ "boosted" \in Faults \/ game_boost = None
  /\ alive' = FALSE
  /\ booting' = FALSE
  /\ unlogged' = None
  /\ game_boost' = None
  /\ NewEngine
  /\ UNCHANGED <<config, now, procs, orphans, file, edited>>

\* A process ends, whether the service runs or not.
ProcessExit(p) ==
  /\ Live(p)
  /\ procs' = [procs EXCEPT ![p] = Absent]

\* The service remembers a process of this name under the id.
Remembered(p, name) ==
  \/ p \in DOMAIN tracked /\ tracked[p].name = name
  \/ p \in DOMAIN orphans /\ orphans[p].name = name
  \/ \E d \in decisions : d.pid = p /\ d.name = name
  \/ game_boost # None /\ game_boost.pid = p /\ game_boost.name = name
  \/ unlogged # None /\ unlogged.pid = p /\ unlogged.name = name

\* A process starts under a free id.
ProcessStart(p, name, home) ==
  /\ ~Live(p)
  /\ Remembered(p, name) => "namesake" \in Faults
  /\ (\E d \in decisions : d.pid = p /\ d.kind = "downgrade")
       => "reuse" \in Faults
  /\ procs' = [procs EXCEPT ![p] = [name |-> name, class |-> home.class,
                                    io |-> home.io, home |-> home]]

Processes ==
  /\ \E p \in Pids :
       \/ ProcessExit(p)
       \/ \E name \in Images, home \in [class : Classes, io : Ios] :
            ProcessStart(p, name, home)
  /\ UNCHANGED <<engineState, decisions, call, now, alive, booting,
                 game_boost, unlogged, orphans, file, edited>>

\* The GUI saves a configuration (atomic_write: all of it or nothing).
SaveConfig ==
  /\ booting => "boot_edit" \in Faults
  /\ \E c \in Configs : c # file /\ file' = c
  /\ edited' = TRUE
  /\ UNCHANGED <<engineState, decisions, call, now, procs, alive, booting,
                 game_boost, unlogged, orphans>>

RuntimeInit ==
  /\ file \in Configs /\ config = file /\ edited = TRUE
  /\ engaged = FALSE /\ contention_ticks = 0 /\ clear_ticks = 0
  /\ tracked = [p \in {} |-> 0]
  /\ decisions = {} /\ call = "new" /\ now \in Times
  /\ procs = [p \in Pids |-> Absent]
  /\ alive = FALSE /\ booting = FALSE
  /\ game_boost = None /\ unlogged = None
  /\ orphans = [p \in {} |-> 0]

Service == Start \/ FinishStart \/ Reload \/ DisabledTick \/ Tick \/ Execute
             \/ AppendLog

RuntimeNext ==
  Service \/ Stop \/ Exit \/ Crash \/ Processes \/ SaveConfig

RuntimeSpec == RuntimeInit /\ [][RuntimeNext]_rtvars

\* The main loop ticks and executes as long as the process lives; nothing
\* makes the service start, stop or die, or anybody save or run anything.
RuntimeFairSpec ==
  RuntimeSpec /\ WF_rtvars(FinishStart) /\ WF_rtvars(Reload)
              /\ WF_rtvars(DisabledTick) /\ WF_rtvars(Tick)
              /\ WF_rtvars(Execute) /\ WF_rtvars(AppendLog)

-----------------------------------------------------------------------------
AtHome(p) == Read(p) = procs[p].home

\* Who can still bring a process back to the priorities it had of its own.
HeldByEngine(p) ==
  p \in DOMAIN tracked /\ tracked[p].name = procs[p].name
                       /\ tracked[p].originals = procs[p].home

HeldByBatch(p) ==
  \E d \in decisions :
    /\ d.kind = "restore" /\ d.reason # "process_exited"
    /\ d.pid = p /\ d.name = procs[p].name /\ d.originals = procs[p].home

HeldByLog(p) ==
  p \in DOMAIN orphans /\ orphans[p].name = procs[p].name
                       /\ orphans[p].originals = procs[p].home

HeldByBoost(p) ==
  /\ game_boost # None
  /\ game_boost.pid = p /\ game_boost.name = procs[p].name
  /\ game_boost.original_priority = procs[p].home.class
  /\ procs[p].io = procs[p].home.io

\* No process is left behind: whatever happens, a live process that is not
\* at the priorities it chose is on the record of whoever must restore it -
\* the engine, the batch being executed or the boost while the service runs,
\* the log when it does not.
NobodyLeftBehind ==
  \A p \in Pids :
    Live(p) /\ ~AtHome(p) =>
      IF alive /\ ~booting
      THEN HeldByEngine(p) \/ HeldByBatch(p) \/ HeldByBoost(p)
      ELSE HeldByLog(p)

\* The log mirrors the tracking table whenever the service is between two
\* actions of a batch, so that a death at any such moment loses nothing and
\* a clean stop leaves nothing to reconcile.
LogMirrorsTracking ==
  Idle =>
    /\ DOMAIN orphans = DOMAIN tracked
    /\ \A p \in DOMAIN tracked :
         orphans[p] = [name |-> tracked[p].name,
                       originals |-> tracked[p].originals]

\* The runtime calls the engine the way the engine's own guarantees require.
EngineSafe ==
  alive => /\ Engine!TrackedOnlyWhileEngaged
           /\ Engine!HysteresisExact
           /\ Engine!DecisionsConsistent

\* Every saved configuration reaches the engine: once the service runs and
\* sees no newer mtime, it works with what is in the file.
EditsReachEngine ==
  alive /\ ~booting /\ ~edited => config = file

\* The log tells what happened: an action logged with the priorities it left
\* behind has left them.
LogTruthful ==
  (/\ unlogged # None /\ unlogged.action = "restore" /\ unlogged.written
   /\ SameProcess(unlogged.pid, unlogged.name)) =>
     Read(unlogged.pid) = unlogged.priorities

\* The system allowlist is never lowered, by a downgrade, a restore or the end
\* of a boost.  (With the fault "reuse" it is: the id of a process about to be
\* lowered changes hands, and the write does not compare the name.)
AllowlistUntouched ==
  \A p \in Pids : Live(p) /\ procs[p].name \in SystemWhitelist =>
    /\ procs[p].class >= procs[p].home.class
    /\ procs[p].io >= procs[p].home.io
=============================================================================
