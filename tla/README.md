# A formal model of CPU Manager (cpum)

CPU Manager is a Windows application in two processes: an unprivileged GUI
(Tauri: a Rust backend and a Vue frontend) and a LocalSystem service. The
service applies affinity and priority rules and runs *ProBalance*, which lowers
hot background processes while the foreground process is under contention and
gives them their priorities back afterwards. Both link the library `cpum-core`.

This directory holds TLA+ modules of the parts whose correctness depends on
order, failure and time, TLC configurations that check them on small instances,
and TLAPS proofs of their safety properties for every size of instance. Paths
below are relative to the repository; `core/` is
`src-tauri/crates/cpum-core/src/`, `service/` is
`src-tauri/crates/cpum-service/src/`, `app/` is `src-tauri/src/`, `ui/` is the
frontend's `src/`.

## 1. The system

### Components, their state and their operations

| Component | State | Operations | What makes it correct |
|---|---|---|---|
| ProBalance decision engine (`core/probalance/engine.rs`) | configuration, `engaged`, two tick counters, `tracked`: pid → name, originals, time | `tick_with_game_mode`, `mark_downgraded`, `update_config`, `shutdown` | exact hysteresis; every tracked process is handed back with its originals; nothing protected or tracked is lowered |
| ProBalance runtime (`core/probalance/runtime.rs`) | the engine, stored mtime, the boosted process | `new` with orphan reconciliation, `tick`, `shutdown`, `execute_*`, `reconcile_game_boost` | no process is left at priorities it did not choose, across crashes |
| Action log (`core/probalance/journal.rs`) | two log files | `append_log` (rotates), `read_log` (service and GUI), `pair_orphans` | the lowered processes can be recomputed from the log; a reader gets the newest entries in order |
| ProBalance configuration (`core/probalance/config.rs`) | one file, replaced atomically | `load`, `save`, `validate`, `config_mtime` | every saved edit reaches the engine |
| Service main loop (`service/main.rs`) | tick count, the protecting rules | a ProBalance tick each second, a rule pass each fifth tick, stop | the two writers of priorities keep out of each other's way |
| Rule engine (`core/engine.rs`, `rule.rs`) | none | `apply_rules`, `apply_one` | the last matching rule wins, a rule stays enforced, a pass that changes nothing writes nothing |
| Matcher (`core/matcher.rs`) | none | exact name, path, wildcard | the glob loop ends and accepts exactly the pattern's language |
| Rule store (`core/store.rs`, rule commands of `app/lib.rs`) | one file, written in place; files of older releases | load, add, update, delete; migration | no rule is lost between two writers; a reader sees a whole file |
| Privileged bridge (`core/ipc.rs`, `app/lib.rs`) | token, pipe instances, pids whose elevation failed | one request per connection; elevation as the fallback | what is reported as done was done; the app's main thread comes back |
| Service lifecycle (`app/lib.rs`) | the service in the control manager, the installed flag, elevated scripts | `install_service`, `uninstall_service`, `start_service`, `stop_service` | the flag says whether the service is there |
| Sampler and foreground detection (`core/monitor.rs`) | the last sample | `CpuSampler::tick` | a process that runs is in the sample, or the round is an error |
| Win32 layer (`core/procwin.rs`) | none | read and set affinity and priorities | what is read and written is in one set of units |
| Metrics stream (`app/process/*.rs`, `ui/composables/useMetricsStream.ts`) | baseline, sent priorities, running flag, threads, the rows | start, stop, rounds, `list_processes`, apply | the rows are the processes of the system |
| CPU topology (`app/topology.rs`, `ui/composables/useTopology.ts`) | the app's own affinity mask, a cache file | detect dies with CPUID, load and save the cache | dies shown are dies; the mask is put back |
| Tauri commands (`app/lib.rs`) | none of its own | forwards to the above | see the bridge, the store, the lifecycle |
| Frontend panels (`ui/components/*.vue`) | forms, timers | load, debounced save, poll | the last edit is saved, a load saves nothing |
| Installer (`src-tauri/installer-hooks.nsh`) | marker and flag files, the service | upgrade, install, uninstall | an interrupted upgrade ends with one service |
| System metrics, network probe, i18n, build | none | single reads, texts | out of scope |

### How they interact

* The GUI and the service share three files in one directory: the rules, the
  ProBalance configuration and (written by the service only) the log and status.
  There is no lock between the two processes; changes are noticed by mtime.
* The service is one loop (rule pass, ProBalance tick, wait) and one thread that
  answers the bridge. Both set priorities of the same processes.
* Everything the service touches belongs to others: processes start, end, reuse
  ids and change their own priorities between any two steps.
* A process the app may not open is changed through the service, over a named
  pipe with a token in a file, or by an elevated script behind a prompt. The same
  prompts install, remove, start and stop the service.
* In the GUI, commands run on the main thread while the sampling thread of the
  metrics stream works on the same baseline. Results reach the webview in order
  and are applied one at a time.

### What is hard

A downgrade is four steps (decide, write, record, log) with a crash possible
between any two; restoring is driven by four different records (the tracking
table, the batch in hand, the boost, the log). Two policies (downgrade and
boost) change the same field. Samples, ids, configurations and logs are stale by
the time they are used. Every one of these is listed, at its line, under
`hazards` in `PROJECT.json`.

## 2. Modules and plan

| Module | Models | Extends or composes |
|---|---|---|
| `PriorityLeases` | what ProBalance promises: leases on original priorities, each ended by handing the originals back | |
| `ProBalanceEngine` | the decision core, one action per method | refines `PriorityLeases` |
| `ProBalanceRuntime` | the service around the engine, processes, crashes, log, edits | instantiates `ProBalanceEngine` |
| `RuleService` | the main loop: rule pass and ProBalance over the same priorities, protecting rules a period old | extends `ProBalanceRuntime` |
| `ProcessAffinity` | the affinity half of a rule pass, call by call on the threads of one process | |
| `ActionLog` | the log files, torn lines, rotation, both readers | |
| `RulesStore` | the rules file between two apps and the service | |
| `ServiceControl` | install, uninstall, start and stop behind prompts and deadlines | |
| `Bridge` | the three ways a change takes: app, service pipe, elevated script | extends `ServiceControl` |
| `MetricsStream` | the process table and its three writers | |
| `Topology` | CPUID under a changing process mask, cache and startup | |
| `Matcher` | the glob loop against the language of its pattern | |
| `..._proofs` | theorems about every module above (section 15); `RuleService_proofs` holds those about `ProBalanceRuntime`, too, `RuleEngine_proofs` those about `ProcessAffinity` and `Matcher`, `Bridge_proofs` those about `ServiceControl` | extend the module; `RuleService_proofs` instantiates the engine's |
| `MC*` | model values, small instances and symmetry for TLC | |

`RuleService` runs the same actions of `ProBalanceRuntime` that the run `runtime`
checks alone; `Bridge` runs the service commands beside the process commands,
because both end the service or the app's patience.

Of the plan, the modules are written. Two that were considered were dropped: the
ProBalance panel's debounced save is one thread with two timers and no second
actor, and the installer's hooks are a script whose only shared state, the flag and
the service, is in `ServiceControl`.

Of the proofs, every safety property and every action property that a passing run checks is a
theorem (section 15).

Modules that theorems are about use no `RECURSIVE` operator. An
operator named `...Mut` is a plausible mistake in the definition after it (a lost
case, a missing reset, an off-by-one); it is used by no specification and
records which property notices the mistake.

## 3. ProBalanceEngine

State: `config`, `engaged`, `contention_ticks`, `clear_ticks` and `tracked` are
the fields of `ProBalanceEngine`. `decisions` is the vector the last call
returned, minus what the caller has already executed, `call` the last method
called and `now` the `now_secs` it got.

| Action | Code |
|---|---|
| `Tick` / `TickWithGameMode`, `Decide` | `tick_with_game_mode`: counters, engage, release, candidates, timeouts, exits |
| `Reload` / `UpdateConfig` | `update_config` as `tick` of the runtime calls it |
| `Stop` / `Shutdown` | `shutdown`, then no further call |
| `Applied` / `MarkDowngraded` | a downgrade that succeeded, reported back |
| `Dropped` | a downgrade that failed, or a restore that was run |

Abstractions: CPU readings and thresholds are small integers, a name and its
path are one *image*, whitelist patterns and protecting rules are the sets of
images they match. Time is a reading of the wall clock, which may go back: the
elapsed time saturates at zero, as `saturating_sub` does.

`PriorityLeases` says the same without ticks, thresholds or samples: *taking* a
lease, *returning* a set of leases, *settling* one. The refinement maps tracked
records to leases and restore decisions in hand to what is owed.

## 4. ProBalanceRuntime

| Variable | Code |
|---|---|
| `procs` | the processes of the system; `home` is the pair of priorities the process chose |
| `alive`, `booting` | the service process exists; it is between reading the configuration and its mtime |
| `file`, `edited` | the configuration file; its mtime differs from the stored one |
| `game_boost` | `GameModeBoost` |
| `unlogged` | the entry of the action just executed, not yet appended |
| `orphans` | what `pair_orphans` would make of the log |

| Action | Code |
|---|---|
| `Start`, `FinishStart` | `ProBalanceRuntime::new`: load, mtime, reconcile |
| `Reload`, `DisabledTick`, `TickWith` | the branches of `tick`, in its order, with the images the protecting rules match |
| `Execute` (`Downgrade`, `Restore`), `AppendLog` | `execute`, one process at a time; downgrades first |
| `Stop`, `Exit`, `Crash` | stop request and `shutdown`; the end of the loop; death at any step |
| `Processes` | a process starts or ends; ids are reused |
| `SaveConfig` | the GUI saves (rename over the old file) |

The log is represented by what `pair_orphans` makes of it. That this is a sound
view of the real files, as long as every line parses and no process has been lowered for a full
generation of the log, is a theorem about `ActionLog` (`YoungLogIsExact`). The status
file and the log lines of boosts, which nothing reads back, are left out. A
process does not change its own priorities while it is lowered, and one
foreground process is boosted at a time.

A boost may be restored or not (`BoostRestored`), as the write of its class may
fail like any other under the fault `write`.

The service may die between any two steps and ids may be reused at any time. Seven
further hazards sit behind the constant `Faults`, because the code does not
withstand them:

| Fault | Meaning | What it breaks | Shown by |
|---|---|---|---|
| `sampler` | a sampling round fails or misses a live process | `NobodyLeftBehind` | `v_left_behind.cfg` |
| `overlap` | a lowered process becomes the fullscreen foreground | `NobodyLeftBehind` | `v_left_behind.cfg` |
| `unlogged` | death between a write and its log entry | `NobodyLeftBehind` | `v_left_behind.cfg` |
| `append` | an entry cannot be appended to the log, which the code ignores | `NobodyLeftBehind` | `v_left_behind.cfg` |
| `boot_edit` | a save while the service starts | `EditsReachEngine` | `v_boot_edit.cfg` |
| `write` | a priority cannot be set | `LogTruthful` | `v_write.cfg` |
| `reuse` | an id reused between sample and downgrade | `AllowlistUntouched` | `v_reuse.cfg` |

`load` (an unreadable configuration) and `namesake` (an id reused by a process
of the same name) are admitted where the checked properties withstand them;
`boosted` (death while a process is boosted) is never admitted: boosts are not
reconciled on start, and nothing in the repository says they are.

## 5. ActionLog

`old` and `current` are the two files as sequences of lines, a line being an entry,
`Garbage` (it does not parse) or `Broken` (cut inside a character, so that its file is
not UTF-8), ended or not.

| Action | Code |
|---|---|
| `Rotate` | `append_log` renames the file that has outgrown its limit: until the next file is opened there is no current one |
| `AppendLog` | `append_log` opens the current file and writes a line |
| `TornAppend` | the write stops inside a line; the next entry continues the unfinished one |
| `ReadOld`, `ReadCurrent` | the two reads of `read_log`, with the service free to rename and write before, between and after them |

`Read` is one file of `read_log`: lines that do not parse are skipped, and a file that is
not UTF-8 is dropped as a whole, as `read_to_string` fails on it. A file that was
renamed away and one that is empty read alike. Sizes are counted in lines instead of
bytes. `lowered` and the entry numbers record what happened, for the properties to
compare with what the files say. With `"rename"` in `Faults` a rotation may fail and is
tried again by the next append.

A GUI that has read `.old` before the rename and reads the current file before its
first line (`Gap`) misses the newest entry: `ReaderNewest` has that moment as its
exception, and `NewestInGap`, which has not, is refuted (section 13).

## 6. MetricsStream

| Variable | Code |
|---|---|
| `running`, `threads` | `STREAM_RUNNING`, the sampling threads with the data of their round |
| `baseline`, `pushed` | `SNAPSHOT_CACHE`, the keys of `PREV_STRUCT_PRIORITY` |
| `listing` | a `list_processes` call in progress |
| `queue`, `table` | results on their way, the rows of the frontend |

A round is four steps: `Rest` (top of the loop, copy the baseline), `Scan`
(enumerate; `SkipRound` if that fails), `Publish` (replace the baseline, compute
the diff, remember what was sent) and `Emit`. `ListScan` and `ListReply` are a
full refresh, `Start` and `Stop` the two commands, `Deliver` the frontend. Only
the set of processes is modelled: the rates, the four waves of metrics and the
caches of paths change no row set. The startup of the table (`bootstrap`) shows the list
the last run saved, then one of ids and names, then a full one. The first two have no
baseline, so the rows they leave are right only when the full list comes; the properties
speak of the table from then on, or of one that was empty.

| Fault | Meaning | What it breaks | Shown by |
|---|---|---|---|
| `overlap` | a refresh overlaps a round | `DiffsKeepSync` | `v_stream.cfg` |
| `pause` | the stream is stopped inside a round | `DiffsKeepSync` | `v_stream.cfg` |
| `restart` (with `pause`) | started again before the thread noticed the stop | `OneSampler` | `v_restart.cfg` |
| `bootstrap` | the rows of the cached or the light list (`FirstRows`), and no full list after them | `DiffsKeepSync` | `v_stream.cfg` |
| `scan`, `spawn` | an enumeration fails; the thread cannot be created | nothing | admitted in run `stream` |

## 7. RuleService

The loop of `run_service`: a rule pass whenever `ticks` reaches
`RULE_APPLY_TICKS`, a ProBalance tick otherwise, both over the `procs` of
`ProBalanceRuntime`.

| Variable | Code |
|---|---|
| `rules` | `affinity_rules.json`, or `Unreadable` |
| `protecting_rules` | the list of that name in `run_service` |
| `ticks` | ticks since the last pass |
| `unedited`, `crossed` | bookkeeping for the properties: how old the file is, which processes a rule wrote while ProBalance held them |

| Action | Code |
|---|---|
| `RulePass`, `ApplyRules`, `AfterRules` | load, refresh the protecting list, validate every enabled rule, apply them in their order; a write may stop after the class (`Reaches`) |
| `LoopTick` | one ProBalance tick with the protecting list as of the last pass |
| `StartLoop` | a new service process begins with a pass and without a list |
| `SaveRules` | the GUI saves other rules, or a save is cut short |

A process counts as *at home* with what a rule gave it: a rule is what the user
wants. A rule that writes to a process ProBalance holds leaves the older
priorities in the books, which come back in the end; that process is in
`crossed`, and `OffBringsHome` exempts it.

## 8. ProcessAffinity

One process and one rule that is enforced pass after pass. `threads` gives each
thread its group, its mask and whether it chose the mask itself; `hard` is the
process mask, `cpu_sets` the default CPU Sets.

| Action | Code |
|---|---|
| `Skip` | `affinity_matches` is true: nothing is written |
| `WriteProcess` | `set_process_affinity`: one mask, one call |
| `WriteThreads`, `WriteThread`, `EndThreads` | `set_process_affinity_group_masks`: a snapshot of the threads, then a call for each, which may fail for any reason; a thread whose group cannot be read goes to the first group of the rule; an error only when all fail |
| `WriteSoft` | `set_process_soft_affinity_group_masks`: CPU Sets, then the hard mask released, which may fail alone, with an error or, when the system mask cannot be read, without one |
| `Fail` | a rule that is not valid, a process that cannot be opened |
| `ThreadStart`, `ThreadExit`, `ForeignWrite`, `EditRule` | the others, between any two calls |

External, as the comments and calls of `procwin.rs` describe Windows:
`SetProcessAffinityMask` speaks of the primary group and sets its threads; a
thread's mask stays within the process mask; a new thread is like its creator or
like its process. `get_process_default_cpu_set_locations` reads into a buffer of
fixed size; a longer list counts as a mismatch. All disturbances of one behaviour, failing calls among them,
share a budget (`MaxDisturbances`).

A process is given rules of one family (`Families`): single masks, group masks or
CPU Sets. A change from group masks to CPU Sets is not part of `affinity`: group masks are
set on the threads alone and leave the process mask wide, so that after the CPU
Sets have been written and the release of the mask has failed the next pass finds
everything as it wants it and skips, with the threads where the group rule put them
(`v_skip.cfg`). A change to CPU Sets that are still in place from before ends the
same way without a failure.

## 9. ServiceControl and Bridge

`ServiceControl` is the four service commands. `command[a]` is what the main
thread of app `a` does; `scripts` are elevated scripts that were asked for,
whether their app still waits for them or not; `scm` is the service in the
control manager, `flag` the file `service_installed.flag`. Two variables are history:
`unmarked` (the last update of the flag failed) and `overtaken` (the service came or
went between an app's look at it and its update of the flag).

| Action | Code |
|---|---|
| `Ask`, `UserAnswers`, `RunScript`, `TimeOut` | `run_elevated_sc` and the installer's script: written, prompted for, run, given up on |
| `Query`, `Direct`, `StartOrStop` | `query_service_status`; a direct `sc.exe`, elevated when refused |
| `UninstallStop` (three times), `UninstallDelete`, `UninstallVerify` | `uninstall_service` |
| `Install`, `InstallVerify` | `install_service` |
| `Mark`, `SetServiceFlag` | `set_service_flag`, which may fail: the command reports success all the same |
| `EndServiceOp` | the error replies |
| `ServiceEnds` | the service process ends |

`Bridge` adds the commands that change processes.

| Action | Code |
|---|---|
| `Local`, `ApplyLocally` | the app's own attempt |
| `ReadToken`, `Mint`, `WriteToken` | `ensure_token`: a token that cannot be read is replaced; the new file is empty before it holds the token; opening and writing it may fail |
| `Connect`, `ReadReply` | `request`, with no deadline on the read |
| `Fallback`, `Elevated`, `RunChange` | the elevated helper and `ELEVATION_FAILED` |
| `CreatePipe`, `AwaitClient` | `serve`: create an instance, wait for a client |
| `Dispatch`, `Disconnect` | `handle_connection`: token, request, an answer that may be an error, hang up |
| `Reuse` | a process id passes to another process |

External: a service that runs and is deleted is only marked and goes when it
ends; a user answers a prompt at any time or never; after a declined one
`Start-Process` has no process to give, the next statement of the command line,
`exit $p.ExitCode`, ends with 0, and the app takes that for success (`made` is then
`"declined"`); a client that connects before
`ConnectNamedPipe` makes that call fail; a disconnect discards what the client
has not read. What the server, or a script, does to a process is one step, and the service always
reads a token file that is there.

## 10. RulesStore

`file` is what `affinity_rules.json` holds: a list, or `Blank` (truncated),
`Garbled` (two writes over each other), `Newer` (a schema version above ours), or
`Missing`. A rule is an id and a value.

| Action | Code |
|---|---|
| `Begin`, `Load`, `Proceed` | a rule command and the `load_affinity_rules` it begins with, migration included |
| `Truncate`, `Write` | the two halves of `std::fs::write`, each of which may fail |
| `Crash` | the app dies |
| `ServicePass`, `Stops` | the service's load, and whether it applies the list: a rule that is switched on and invalid stops it, one that is switched off does not |

`acknowledged` is what users were told, `past` every list they were told of,
`disturbed` that two commands overlapped or one was cut short amid its write.
Two overlapping apps do lose rules (`v_lost.cfg`); the properties say what
holds until then. Ids are given once, as version-4 UUIDs are.

## 11. Topology

`phase` follows the startup of `useTopology.ts`: `LoadCache`, then detection
(`ShowWithoutCpuid` where CPUID is not asked; else `Expand`, `Pin` for each logical
processor, `Detect`; or `CannotAsk`, when the process mask cannot be read, and
`GiveUp`, when the thread cannot be given the whole mask), then
`SaveCache`. `process_mask` is the app's affinity mask, which `ChangeMask` (a
user, a rule of this very program) may set at any time. `Restart` starts the app
anew, on another machine perhaps. `Detected` is the four methods of
`detect_die_by_cpuid` in their order; `FromX2apic` keeps the code's
`leading_zeros` of a 64-bit `usize`, which makes the method find nothing.

Widening the mask may fail; putting it back is taken to succeed, as the code does not
look. A start in which a call failed counts as meddled with.

A machine is a record of constants: what CPUID and the operating system would
answer, and where each processor really is. A thread that is pinned runs where it
was pinned before CPUID is asked.

## 12. Matcher

Each branch of the loop of `glob_match` is an action (`Advance` while the
characters agree, `MeetStar`, `Backtrack`, `Stuck`, then the tail); `Returned`
decides whether the name is tried again without its suffix. The reference
`Glob(p, t)` has no loop: there are points at which the text can be cut so that
each character of the pattern gets its part of it. `MeansWhatItSays` compares the two when the loop
has ended, for exact names, wildcards on names and wildcards on paths; a process whose
path is not known matches no path rule.

## 13. Runs

| Run | Shows | Bounds |
|---|---|---|
| `engine` | `TypeOK`, `TrackedOnlyWhileEngaged`, `HysteresisExact`, `NoOverdue`, `DecisionsConsistent`; the refinement `LeasesKept`; the liveness property `CalmReturnsAll` | 2 processes, 2 images, 3 configurations, clock readings 0 and 2, CPU levels 0..2, counters saturate at 3 |
| `runtime` | `NobodyLeftBehind`, `EngineSafe`, `LogTruthful`, `AllowlistUntouched` with crashes, reused ids, edits, failing loads and Game Mode | 2 processes that start at class 1 or 3 and IO 0 or 2, 3 configurations, clock 0..1, counters saturate at 2 |
| `rules` | `ProtectionInTime`, `LogMirrorsTracking`, `EditsReachEngine` with failing samples and writes, reused ids and namesakes | 2 processes, 2 configurations, a pass each 2 ticks, rule lists that protect, are invalid or are disabled |
| `rules_live` | `RulesPrevail`, `OffBringsHome` | the same without faults, rule lists that disagree |
| `log` | `OrphansExact`, `RecentRetained`, `ReaderInOrder`, `ReaderNewest` | 1 process, 4 entries, files rotate past 1 line, the GUI asks for 2 entries |
| `stream` | `DiffsKeepSync`, `TableConverges`, `ThreadsEnd` | 2 processes, 1 thread, 2 results in flight |
| `affinity` | `SkipIsSafe`, `EnforcedInTheEnd`, `Quiesces` | 2 threads that can refuse a call, groups of 2 and 1 processors, 3 families of rules, 4 disturbances, a buffer of 2 CPU Sets |
| `bridge` | `FlagAgrees`, `SuccessMeansWritten`, `AppliedCounts`, `TokenAccepted`, `CommandsEnd`, `BridgeComesBack` | 2 apps, one elevated, 2 processes, 6 pairs of workloads, 2 commands or abandoned scripts at a time |
| `store` | `SerialWhenAlone`, `OnlyWholeLists`, `KeptForRepair` | 2 apps, 2 ids, 3 values (one valid, one invalid, one invalid and switched off), 5 first contents, 5 legacy directories |
| `topology` | `DiesAreReal`, `LpsAreThere`, `MaskRestored` | 7 machines of 8 to 16 logical processors, 3 masks, 1 foreign change, calls on the mask that fail |
| `match` | `MeansWhatItSays`, `Terminates` | all patterns and names of at most 4 characters over two letters and a suffix |
| `one_ccd` | the counterexample to `OneCcdIsOneDie` | as `topology` |

Why the bounds are enough. The engine treats processes alike and independently
but for being foreground or not: two processes give one of each, two give a
batch with more than one decision. Three counter values put the thresholds 1 and
2 below, at and above every comparison, and saturation one step further. Clock
readings 0 and 2 with a limit of 2 give elapsed times below and at the limit and
a clock set back. In the runtime, classes 1 and 3 with IO 0 and 2 give processes
that need lowering in both, one or none of the two. A period of two ticks puts a
tick before, at and after a refresh of the protecting list. In the log, four
entries fill two files that are both renamed away, so the first generation goes;
the pairing works process by process. In the stream, one process can come while
the other goes. Two threads let one start while the other is written, two groups
of unequal size tell the primary group from the other. On the bridge, two apps
are what it takes for two clients, two tokens and an install beside an
uninstall; the pairs of workloads are those whose commands can disturb each other. The machines take every branch of the four methods that can be taken, and 16 logical
processors are the least at which the last two do anything. Four characters hold
two stars with text between and after them.

Type invariants are theorems (section 15); all but the engine's show little by
themselves and are in no run.

`one_ccd` is a disagreement between code and comments, in `findings`: a
processor with one CCD and 16 logical processors is split in two dies. The trace
is the start of the app on that machine (`oneCcd`, one group): the mask is widened
(`Expand`), each of the 16 processors is pinned and asked (`Pin`), methods 1 to 3 see
one value everywhere, and method 4 (topology.rs:543) halves the processors (`Detect`).

Further counterexamples, with configurations beside the runs (`tlc -config X.cfg
M`). A configuration that serves several names the other faults or properties in
its first lines; one is tried at a time:

| Module | Configuration | Property | What happens |
|---|---|---|---|
| `MCProBalanceRuntime` | `v_left_behind` | `NobodyLeftBehind` | with the fault `sampler`: a failed enumeration becomes an empty sample list; the engine takes every tracked process as exited |
| | | | with `overlap`: a lowered process is boosted: the lowered class is taken as its original |
| | | | with `unlogged`: death after the write and before the log entry |
| | | | with `append`: the log entry of a downgrade could not be written, and the service dies |
| | `v_left_behind`, with `append` | `LogMirrorsTracking` | a tracked process without an entry, as `append_log`'s error is dropped |
| | `v_boot_edit` | `EditsReachEngine` | a configuration saved between the load and the reading of the mtime |
| | `v_write` | `LogTruthful` | a restore that could not be written is logged as one |
| | `v_reuse` | `AllowlistUntouched` | the id passed to a protected process after the sample |
| `MCActionLog` | `v_torn` | `LastLineReadable` | an unfinished line swallows the next entry |
| | `v_torn` | `OnlyMalformedSkipped` | a line cut inside a character makes the whole file unreadable: intact entries are skipped with it |
| | `v_race` | `NewestInGap` | the GUI read `.old` before the rename and reads the current file before its first line: the newest entry is missing |
| | `v_race` | `ReaderContiguous` | a rotation between the two reads of the GUI: a generation is missing in the middle |
| `MCMetricsStream` | `v_stream`, with `overlap` or `pause` | `DiffsKeepSync` | a round replaces the baseline a refresh, or a stop, has changed |
| | with `bootstrap` | `DiffsKeepSync` | a row of the cached list stays although its process ended before the first round |
| | `v_restart` | `OneSampler` | two sampling threads |
| `MCProcessAffinity` | `v_skip` | `SkipIsSafe` | CPU Sets after group masks: the sets are written, the release of the mask fails, and the next pass finds nothing to do while the threads keep their masks |
| `MCBridge` | `v_bridge` | `ForgottenWhenGone` | the uninstall gives up, the service goes later, the flag stays |
| | `v_bridge` | `NeverHungUp` | a client that is early, or slow to read, gets no response |
| | `v_bridge` | `OnlyProtectedRemembered` | one failed answer bars the process id for the session, though the service may touch the process |
| | `v_count` | `AppliedCounts` | a process with two rules counts twice |
| | `v_bridge` | `DeclinedIsFailure` | a declined prompt leaves `$p` null, `exit $p.ExitCode` (lib.rs:245) exits with 0, and the app reports success with nothing written |
| | `v_bridge` | `OnlyNotRestored` | the marker cannot be removed (lib.rs:872-878), the uninstall reports success, and the flag outlives the service; the comment at lib.rs:861-863 reckons with a marker that is missing only |
| `MCRulesStore` | `v_lost` | `NothingLost` | two apps change the list at once |
| `MCTopology` | `v_mask` | `MaskAlwaysRestored` | methods 1 and 2 return with the mask widened |
| | `v_groups` | `LpsAreThere` | the cache of a machine with one socket is shown on its sibling with two |

`CHECK_DEADLOCK FALSE` appears where the system may stop: a stopped engine makes
no further step, a log at the bound on its entries is not written to, a
terminated service, an app without commands, a detected topology and a finished
match are legal ends. `affinity` and `store` check deadlock: a pass always
follows, and so does a command or a pass of the service.

Symmetry over processes is used in `runtime`, `rules` and the counterexamples of
the runtime only, never where a liveness property is checked.

## 14. Fairness

* Engine: weak fairness of `Tick` (the main loop ticks once a second) and of
  `Execute` (a loop over a finished list). No fairness of reloads or stops.
* Rule service: weak fairness of every step of the loop while its process lives.
  Nothing makes it start, stop or die, and nobody has to save anything.
  `RulesPrevail` and `OffBringsHome` assume that the service stays up and the
  rules stay as they are.
* Stream: weak fairness of a thread's steps, of the reply to a refresh and of
  the webview. Strong fairness of a successful enumeration: one that is tried
  again each round does not fail forever, which is an assumption about Windows
  and not about the code. Nobody has to start, stop or refresh.
* Affinity: weak fairness of `Apply`, the pass that comes each fifth second.
  Nothing else is fair, and the disturbances are bounded.
* Bridge: weak fairness of the listener, of each app's steps, of which passing a
  deadline is one, and of each dispatch. Nobody has to answer a prompt, and a
  script need not end.
* Matcher: weak fairness of the loop. Log, store and topology: none, they state
  safety and what a step may never do.

## 15. Proofs

The theorems hold for every value of the constants that satisfies the `ASSUME`s of
the module (checked by TLC on the instances of the runs): every set of processes,
apps, threads, rules, configurations, clock readings and machines, every period and
bound. Where a property needs more, because the code does not withstand a fault, the
theorem says so as a hypothesis; a theorem without one holds under every fault.
No hypothesis can be dropped: each fault that is excluded refutes the property
alone, in `v_left_behind.cfg` or `v_restart.cfg` with that fault and that
property, and section 13 names the configurations for the others.

| Module | Theorems | Hypotheses |
|---|---|---|
| `ProBalanceEngine_proofs` | `Invariance`, `TypeCorrect`, `NothingHeldWhenIdle`, `HysteresisIsExact`, `NothingForgotten`, `DecisionsAreConsistent`: all safety invariants of the run `engine`; `ImplementsLeases`: `Spec => Leases!Spec`; `LeasesAreUnique`: `Spec => []Leases!OneLease` | none |
| `RuleService_proofs`, on `ProBalanceRuntime` | `BaseHolds`, `RuntimeTypes`, `EngineIsSafe` (`EngineSafe`), `ServiceLetsGoInTime` | none |
| | `LogMirrors` (`LogMirrorsTracking`) | no `append` |
| | `EditsReach` (`EditsReachEngine`) | no `load`, no `boot_edit` |
| | `LogIsTruthful` (`LogTruthful`) | no `write`, no `namesake` |
| | `AllowlistIsUntouched` (`AllowlistUntouched`) | no `reuse`, no `namesake` |
| | `NobodyIsLeftBehind` (`NobodyLeftBehind`) | no fault but `load` and `boot_edit` |
| `RuleService_proofs`, on `RuleService` | `RuleInvHolds`, `RuleTypes`, `RulesKeepEngineSafe`, `RulesProtectInTime` (`ProtectionInTime`) | none |
| | `LogMirrorsBesideRules` (`LogMirrorsTracking`) | no `append` |
| | `EditsReachBesideRules` | no `load`, no `boot_edit` |
| `RulesStore_proofs` | `StoreInvHolds`, `StoreTypes`, `CommandsAreSerial` (`SerialWhenAlone`), `ServiceTakesWholeLists` (`OnlyWholeLists`), `UnparsableIsKept` (`KeptForRepair`, an action property) | none |
| `Bridge_proofs` | `BridgeInvHolds`, `BridgeTypes`, `MarkerAgrees` (`FlagAgrees`), `OneTokenIsAccepted` (`TokenAccepted`), `SuccessIsReal` (`SuccessMeansWritten`) | none |
| | `CountsAreRight` (`AppliedCounts`) | no process has two rules |
| `Topology_proofs` | `TopologyInvHolds`, `MaskIsRestored` (`MaskRestored`), `DiesAreTheCcds` (`DiesAreReal`) | none |
| | `CacheFitsWhereTold` (`LpsAreThere` where `Told(machine)`) | none |
| | `CacheFitsTheMachine` (`LpsAreThere`) | `GroupsAreTold` |
| `MetricsStream_proofs` | `StreamInvHolds`, `StreamTypes`, `NoChangeIsLost` (`DiffsKeepSync`), `OneRoundAtATime` (`OneSampler`) | no `overlap`, `pause`, `restart` or `bootstrap` |
| `RuleEngine_proofs`, on `ProcessAffinity` | `AffinityInvHolds`, `AffinityTypes` | none |
| | `SkipsAreSafeUnlessMixed` (`SkipIsSafe` for hard rules, and for soft ones under `NoGrouped`) | none |
| | `SkipsAreSafe` (`SkipIsSafe`) | `Unmixed` |
| `RuleEngine_proofs`, on `Matcher` | `MatcherInvHolds`, `MatcherTypesHold`, `RulesMeanWhatTheySay` (`MeansWhatItSays`) | none |
| `ActionLog_proofs` | `LogInvHolds`, `LogTypesHold`, `OrphansAreExact` (`OrphansExact`), `YoungLogIsExact`, `RecentIsRetained` (`RecentRetained`), `GuiReadsInOrder` (`ReaderInOrder`), `GuiReadsNewest` (`ReaderNewest`, an action property) | none |

### Assumptions on the constants

* Engine and runtime: what `ProBalanceConfig::validate` establishes (the two tick
  thresholds are at least 1 and fit the counters, the timeout is at least 1
  second), that *no foreground process* is not a process id, that clock readings
  are natural numbers.
* Rules: a rule that passes `validate_rule` asks for priorities that exist, and
  the period is not zero.
* Store, bridge: the constants that stand for *no list*, *no token*, *no command*
  and the like are none; there are finitely many processes.
* Topology (`MachineAssumption`): a machine with one processor group has at most
  64 processors, numbered from zero, and a core of it is part of one CCD.
  Nothing is assumed of what CPUID answers but that it is a number, and nothing
  of machines with several groups, on which CPUID is not asked.
* Affinity: every processor group has at least one processor.
* Log: what a malformed line and a broken one hold is not an entry, and the two differ.
* Matcher: `?` and `*` are two characters and in no name; lowering a character
  twice is lowering it once; the suffix is in lower case. Were `?` and `*` the
  same, the loop would take a star for a single character, as it looks for `?` first.

### The arguments

**Engine.** `IInv` is the conjunction of the five invariants, and they need one
another: `mark_downgraded` creates a tracking record after the tick, so
`TrackedOnlyWhileEngaged` needs that a downgrade decision in hand implies an
engaged engine (`DecisionsConsistent`) and that an engaged engine is an enabled
one (`HysteresisExact`); `DecisionsConsistent` needs that the decisions of one
call are about different processes, which follows from the sets `Candidates`,
`Expired` and *gone* being disjoint. Hysteresis relates counters and thresholds
only directly after a tick, because a reload may change the thresholds under the
counters. The refinement goes action by action: a tick that returns processes is
`Return`, one that does not is a stutter, `Applied` is `Grant`, `Dropped` of a
restore is `Settle`. What is then proved of `PriorityLeases` alone (`OneLease`) holds of the engine.

**Runtime.** The engine's theorems are reused, not repeated: `Core` is an instance of
`ProBalanceEngine_proofs` (in `RuleService_proofs`), and each action of the runtime is shown to be a step of
the engine (`ReloadCalls`, `TickCalls`, `StopCalls`, `ExecuteCalls`), a fresh
engine, or no change to it. `BaseInv` is the engine's `IInv`, the types, and
`Quiet`: a service that does not run or still starts holds nothing. On that,
three further invariants:

* `LogInv` for `LogMirrorsTracking`, which is silent while a batch is executed: at
  every moment the log and the table differ by the entry not yet written and the
  restores still to do, and by nothing else.
* `NeverRecorded`, `TargetsKept` and `BoostKept` for `AllowlistUntouched`: no record of
  any kind is about a process of the allowlist, so that no restore of a stale
  record can lower it, and a boost only raises.
* `CareInv` for `NobodyLeftBehind`. The property says that a process away from its
  priorities is on *some* record; to get it back, the record must be right, in
  whichever of the five places it is (`RecordsTrue`: table, batch, log, entry in
  hand, boost), also after the process has ended and its id has passed to
  another; and a process must not be boosted and lowered at once (`BoostApart`),
  which is what the fault `overlap` destroys.

**Main loop.** `RuleInv` carries `BaseInv` across the rule pass. The pass is a
recursive function over the rules; that its result is a pair of priorities is an
induction over the number of rules, stated for sets (`InductionOnNat`, from the
well-foundedness of `<`). `ListCurrent` says how old the protecting list can be for a
given age of the file, which with the order of pass and tick gives
`ProtectionInTime` for every period.

**Rule store.** Undisturbed, `Alone`: one command at a time works, on the list users
know, and the file is blank exactly while it writes. `Unread`: no command goes on
with a list nobody could read, which makes `KeptForRepair` a matter of each step.

**Bridge.** `CommandOK` says what holds of a command by itself, `ScriptsOK` and
`ConnOK` tie it to the script and the connection it waits for, `OneToken` follows
the token through the window in which the file is empty. `Marked` is the heart of
`FlagAgrees`: whenever what is recorded and the service differ (flag and service
differ, and no marker that failed to be written or removed accounts for it), an
install or uninstall is on its way to look at the service and set the flag, has
given up, or was overtaken by another between its look and its mark, which
are two steps. `Looked` says that what a command has seen of the service is still so
unless it was overtaken; scripts whose app has given up are covered because giving up
is a reported failure. `SuccessIsReal` has the declined prompt in the property, as the
code reports it as a success; `DeclinedIsFailure`, which has not, is refuted.

**Topology.** `Drawn` says of what is shown that it comes from `Detected` on the
masks the processors were pinned with. `DiesAreReal` is then a statement about the
pure operators: the method that is taken tells the CCDs apart (`LeafIsTaken`,
`DetectedExposes`), the ranks of different values differ (`RanksDiffer`), so dies
with the same processors are found (`DiesAsFound`). The proof of `LpsAreThere` failed at
first, for a reason: `hw_signature_fast` is vendor, family, model and the
number `GetSystemInfo` gives, which counts one group. A machine with two groups of
8 processors therefore takes the cache that one of the same model with 8 processors in
all has written (after the disk moved, or a socket was added), and shows 8 until
detection is through. TLC finds it on two such machines (`v_groups.cfg`);
`Told(machine)` says that no such pair exists of the machine the app runs on;
it is always true of a machine with one group. `GroupsAreTold` says so of all.

**Metrics stream.** `DiffsKeepSync` speaks of the processes that exist now; what
is preserved is `InSync`, about all of them, since any may come next: a row in sight is in
the baseline, and what is in the baseline and was sent is a row. *In sight* is the
table after everything in the queue has been applied, a fold: the first part of
the module proves what it does when a result is appended or the first one is
delivered. `Rounds` says that one thread samples, from the baseline as it is.

**Affinity.** Reading a union over threads, as `affinity_matches` does for group
masks, tells less than where each thread is. `AffinityInv` adds what makes the
reading sufficient: threads sit within their group, those of the primary
group within the process mask, and where only single masks and CPU Sets are given
(`NoGrouped`), they have exactly the process mask unless they chose their own.
A hard rule is compared with what it writes, so skipping it is safe whatever came before. A soft
one is compared with the CPU Sets and the process mask, which masks for several
groups do not change: that mix is what `Unmixed` excludes (`v_skip.cfg`).

**Action log.** The property speaks of what two nested folds make of two files; the
invariant speaks of lines. The first part of `ActionLog_proofs` says what the folds
compute: `Read` keeps the entries that parse, in order, and trimming keeps the
last; `PairOrphans` yields, for each process, its last downgrade unless a later
entry closes it (`PairFacts`). `LogInv` then holds of `Lines`, both files in a
row: entries are numbered without a gap where nothing is garbage (`Numbered`), a
generation goes only when the next is full (`Generations`, which gives
`RecentRetained`), no line after its downgrade speaks of a lowered process
(`LoweredIsLast`), and every downgrade in the files stands or has a later line
that closes it or cannot be read (`DowngradesTold`). With the last two an intact
log pairs to exactly what is lowered, and after a line cut short has been rotated
away it does so again. The steps are two:
an append adds one line or spoils the unfinished last one (`Extended`), and a
rotation drops the older generation (`RotateNext`). `Reading` carries the entries
the GUI has got over the writes and rotations between its two reads.

**Matcher.** The loop remembers one star only. `Rest(p, t, i, j)` says that the
pattern from `i` on means the text from `j` on, in the form of `Glob`, by cutting
points; how it depends on the next character (`RestOfStar`, `RestOfOther`) is
proved from that form, without recursion. Before the first star `Rest` at the two
pointers decides (`BeforeStar`). After one (`AfterStar`), the whole matches if
what follows the star matches from `mark` or later; and every match of that
contains what has been matched since, moved by its distance from `mark`. That
makes forgetting the earlier stars safe: a later star reached from the earliest
place can be reached from nowhere better.

### What stays with TLC

* Liveness (`CalmReturnsAll`, `RulesPrevail`, `OffBringsHome`, `TableConverges`,
  `ThreadsEnd`, `EnforcedInTheEnd`, `Quiesces`, `CommandsEnd`, `BridgeComesBack`,
  `Terminates`): fairness and `ENABLED` are beyond the provers. So no fairness is used in any theorem.
* The properties the code violates (section 13): counterexamples.

## 16. Not modelled

* System metrics and the network probe: counters of the operating system and one
  ping at a time, without state beyond the last reading. The values of the CPU,
  memory and disk columns likewise, and the four waves in which the table gets
  them: they change no row set.
* Frontend panels: forms over the commands. The ProBalance panel loads, polls
  and saves from one thread of the webview.
* The installer's hooks and the directories of `service_dir.rs`.
* `dump_raw_topology` (diagnostic output), `save_affinity_rules` (registered as a
  command and called by nothing), memory priority (written like the IO priority),
  the status file and the statistics of ProBalance (derived, never read back by
  the service), the JSON and hexadecimal text forms, texts, themes and build
  scripts.

Observations without a property of their own: `install_service` and
`run_elevated_sc` wait for a prompt with the 8 seconds of `COMMAND_TIMEOUT`, so a
slow answer is reported as a failure while the script goes on (the models let
every script outlive its wait); the topology cache is looked up with the
processor count of one group and saved with that of all, so a machine with
several groups never hits its own, and may hit that of a machine of the same
model with as many processors altogether as its first group has (`v_groups.cfg`).
